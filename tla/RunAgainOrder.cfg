SPECIFICATION SpecTwice
CONSTANTS
  Id <- MCId
  NoId = ""
  MetaId <- MCMetaId
  RulePanic = "meta.rule-panic"
  UnknownId = "meta.unknown-violation-id"
  File <- MCFile
  NoFile = ""
  Msg <- MCMsg
  PanicValue <- MCPanicValue
  FileRank <- MCFileRank
  IdRank <- MCIdRank
  MsgRank <- MCMsgRank
  RuleInst <- MCRuleInst
  SpecOf <- MCSpecOf
  FindingsOf <- MCFindingsOf
  PanicsOf <- MCPanicsOf
  SpecPanics <- MCSpecPanics
  Request <- RequestOneRule
INVARIANTS
  DeterministicOutput
