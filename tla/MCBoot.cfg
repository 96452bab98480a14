CONSTANTS
  Infos <- MCInfos
  NIBBLE = 4
  TssAddrs <- MCTssAddrs
SPECIFICATION Spec
INVARIANTS SegmentsDecode LinkedKernelLoadsTr 
