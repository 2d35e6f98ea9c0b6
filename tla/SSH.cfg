SPECIFICATION FairSpec
CONSTANTS
  Script = {install, token, kubeconfig}
  WithOutput = {token, kubeconfig}
  MaxRetryCount = 8
INVARIANTS
  TypeOK
  OutputIsOwn
PROPERTIES
  StartsOnConfirmedHost
  CallEnds
  RemoteCallSpec
