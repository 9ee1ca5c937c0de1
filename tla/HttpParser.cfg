SPECIFICATION HSpec
CONSTANTS
  HEADER_MAX = 3
  MaxMessages = 3
  MaxHeaders = 6
INVARIANTS
  CountersAgree
  HeadersExact
  UrlExact
CHECK_DEADLOCK FALSE
