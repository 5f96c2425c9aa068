\* Two windows, calls nested once, four conversions: -Text alone, or up to four other
\* calls in a row or nested.  The application may stop using the clipboard.
SPECIFICATION ClipboardSpec
CONSTANTS
  w1 = w1
  w2 = w2
  Other = Other
  Nobody = Nobody
  Window <- WindowPair
  Writes <- TextOnly
  MaxReads = 2
  MaxAsked = 4
SYMMETRY Either
INVARIANTS
  ClipboardTypeOK
  ReadIsExplained
  OwnerIsKnown
CHECK_DEADLOCK FALSE
