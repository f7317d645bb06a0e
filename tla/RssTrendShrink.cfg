SPECIFICATION RssSpec
CONSTANTS
  RssCount = 5
  Sizes = {0, 1, 2, 3, 4}
  MB = 2
  Delays = {1, 2}
INVARIANT LeakGrows
\* The watch ends with its verdict.
CHECK_DEADLOCK FALSE
