\* Every combination of the options and every request of MCProxyMain; two
\* retries where the code has ten: a first, a further and a last.
CONSTANTS
  Masters        <- MCMasters
  ApiPrefixes    <- MCApiPrefixes
  OsApiPrefixes  <- MCOsApiPrefixes
  StaticPrefixes <- MCStaticPrefixes
  Paths          <- MCPaths
  Retries        = 2
SPECIFICATION FairSpec
INVARIANTS TypeOK RoutesTogether ProxiedStraightThrough WebhookBodyDropped
PROPERTY StartupEnds
CHECK_DEADLOCK FALSE
