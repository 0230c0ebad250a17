SPECIFICATION MCSpec
CONSTANTS
  ByteBits = 4
  Word = 2
  MaxLen = 4
  MaxFields = 2
  MaxItems = 4
  MaxDepth = 3
  MaxReads = 4
INVARIANTS NumbersRoundTrip OneReading StructsRoundTrip StreamsAgree SignatureHolds
CHECK_DEADLOCK FALSE
