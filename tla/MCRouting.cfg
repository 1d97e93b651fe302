SPECIFICATION FairSpec
CONSTANTS
  Provider = {1, 2}
  Remote = {1}
  Runtime = {1, 2}
  Model = {1, 2, 3}
  Capability = {"coding", "tools", "vision"}
  ModelName = {"gpt-4"}
  Descriptor <- Descriptors
  Catalog <- Catalogs
  Accepts <- AcceptedBy
  AgentLoop = 1
  Steps = {2}
  Mission = {1, 2}
  Ask <- Asks
  MaxOutages = 1
INVARIANTS
  ServedAsAsked
  HealthyHasAnswered
PROPERTIES
  RecoveredIsRouted
