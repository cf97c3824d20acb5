CONSTANTS
  Chars <- MCChars
  Quote <- MCQuote
  MaxLen <- MCMaxLen
  Nul <- MCNul
  IntBits <- MCIntBits
  LongBits <- MCLongBits
SPECIFICATION Spec
INVARIANT StringRoundTrip
INVARIANT ColumnRoundTrip
