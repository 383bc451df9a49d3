CONSTANTS
  Inputs <- MCInputs
  VarOf <- MCVarOf
  Numbers <- MCNumbers
  IpAddresses <- MCIpAddresses
SPECIFICATION StartupSpec
INVARIANTS
  ConfigTypeOK
  VariablesAreScoped
  BlocksAreAsWritten
  ServersAreGrouped
  CertificatesFitServers
PROPERTIES
  ParsingEnds
