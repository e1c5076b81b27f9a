SPECIFICATION Spec
CONSTANTS
  Subjects = {"connection", "content_encoding", "accept_charset", "accept_encoding", "accept_language", "cache_control", "content_type", "accept", "transfer_encoding", "user_agent", "authorization", "content_disposition", "host", "ipv6", "range",
              "utf8", "base64", "credentials", "integer", "query", "path", "upload", "arguments", "routing"}
  MaxPieces = 4
INVARIANTS
  ParsedAsDeclared
  CheckersExact
  RoundTrips
  NormalizationKeepsMeaning
  FilesDelivered
  FirstMatchingRoute
CHECK_DEADLOCK FALSE
