SPECIFICATION Spec
CONSTANTS
  root = root
  alice = alice
  bob = bob
  team = team
  null = null
  None = null
  User = {root, alice, bob}
  Group = {team}
  GroupsOf <- MCGroupsOf
  IdOrder <- MCIdOrder
  Part <- MCPart
  N = N
  NX = NX
  AN = AN
  BM = BM
  OwnerOf <- MCOwnerOf
  NamespaceOf <- MCNamespaceOf
  Name <- MCName
  Key <- MCKey
  Env <- MCEnv
  Letter <- MCLetter
  SecretsOf <- MCSecretsOf
  LineOf <- MCLineOf
  MinScrub = 2
  Mask = "*"
  Content <- MCContent
  Bears <- MCBears
  Tagged <- MCTagged
  Asked <- MCAsked
  Capable <- MCCapable
  Sourced <- MCSourced
  Admins = {root}
  AdminTool = {"list", "pin"}
  Pinned = {"pin"}
  MaxOwned = 1
  MaxVersion = 3
  RulePool <- MCRulePool
  Scenario <- MCScenario
INVARIANTS TypeOK MemoryIsDisk MarksAgree LogMaskable RestartServesWrite
PROPERTIES AnswerEarned ActionEarned ImplementsService
CHECK_DEADLOCK FALSE
