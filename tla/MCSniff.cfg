CONSTANT
  Templates <- MCTemplates
SPECIFICATION Spec
INVARIANTS
  OneFormatOnly
  MagicsAgreeWithGuest
  HandsumMagicsExact
  WBMPHeadersExact
PROPERTY
  LongerSourceSameFormat
CHECK_DEADLOCK FALSE
