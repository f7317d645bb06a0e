SPECIFICATION HttpSpec
CONSTANT Pieces <- MCPieces
PROPERTY ExactlyN
\* http_get() ends.
CHECK_DEADLOCK FALSE
