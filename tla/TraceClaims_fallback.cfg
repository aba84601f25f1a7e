SPECIFICATION Spec
CONSTANTS
  n1 = n1  n2 = n2  n3 = n3
  ip1 = ip1  ip2 = ip2  ip3 = ip3
  NoName = NoName  NoIP = NoIP
  Names <- AllNames
  IPs <- AllIPs
  Allowed <- AllowedIPs
  Types = {"A", "AAAA"}
  QName <- n1
  QType = "A"
  Roots <- OneRoot
  Messages <- HopMessages
  MaxDepth = 5
  MaxUpstreamQueries = 4
PROPERTIES
  FallbackIsReported
