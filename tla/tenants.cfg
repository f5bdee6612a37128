\* Two users, one invite, one key; two turns; two databases of one name; a profile of
\* each kind; two replicas; three mailboxes of one address; two writes of two variables;
\* two installations for two organizations; two clones and two webhook registrations;
\* two services of the catalog; the studio page and the mail page with two requests at a
\* time; three turns of a conversation, more than are read and than fit;
\* two applications that share a host, and the dashboard's host; two items of a card of
\* the settings, two variables and one domain on the page of an application.
CONSTANTS
  Users = {"u1", "u2"}
  Founder = "u1"
  InviteIds = {"i1"}
  KeyIds = {"k1"}
  Requests = {"q1", "q2"}
  GivenRoles = {"owner", "admin"}
  Turns = {"t1"}
  NoTurn = "none"
  WriteTools = {"w1", "w2"}
  DestructiveTools = {"x1"}
  MaxTurns = 1
  PlanTurnCap = 3
  PlanSteps = 1
  MaxUses = 1
  DbNames = {"n1"}
  DbIds = {"d1", "d2"}
  DbCalls = {"c1", "c2"}
  MaxDbFaults = 1
  Profiles = {"p1", "m1"}
  MyProfiles = {"m1"}
  StudioCalls = {"c1", "c2"}
  PoolMax = 1
  RepIds = {"r1", "r2"}
  RepCalls = {"c1", "c2"}
  MaxRepFaults = 1
  LocalParts = {"a1"}
  BoxIds = {"b1", "b2", "b3"}
  BoxCalls = {"c1", "c2"}
  MaxBoxFaults = 1
  Writes = {"w1", "w2"}
  Clear = {"a"}
  Secret = "s"
  VcsOrgs = {"o1", "o2"}
  Flows = {"f1", "f2"}
  Callbacks = {"x1", "x2"}
  StateTtl = 1
  NonceTtl = 2
  MaxInstallDeaths = 1
  Clones = {"v1", "v2"}
  MaxRotations = 2
  Registrations = {"g1", "g2"}
  MaxVcsFaults = 1
  Services = {"s1", "s2"}
  NeedsDomain = {"s2"}
  MailInstances = {"m1"}
  NoService = "none"
  MaxCatalogFaults = 1
  PageConns = {"p1", "p2"}
  External = {"p1"}
  PageTables <- TwoTables
  Views = {"v1", "v2"}
  FirstView = "v1"
  PageCalls = {1, 2}
  Edits = {"e1"}
  BoxNames = {"a"}
  AliasNames = {"s"}
  SweepFinds = {"verified"}
  MaxMailCalls = 2
  MaxOutings = 1
  WindowTurns = {"t1", "t2", "t3"}
  HistoryLimit = 3
  TokenBudget = 4
  Tokens = {1, 3}
  EdgeApps = {"a1", "a2"}
  NoApp = "none"
  Hosts = {"cp", "h1"}
  CpHost = "cp"
  PreviewHost <- OneHost
  MaxChanges = 2
  MaxEdgeFaults = 1
  ItemIds = {"i1", "i2"}
  ItemNames = {"ci", "cd"}
  MaxCardCalls = 2
  MaxClicks = 3
  PageKeys = {"a", "s"}
  MaskedKey = "s"
  PageFqdns = {"d"}
  MaxTabCalls = 2
  MaxTabClicks = 3
  MaxTabFaults = 1
SPECIFICATION TenantsSpec
VIEW Moving
CHECK_DEADLOCK FALSE
INVARIANTS TenantsTypeOK PrivilegeFromOwner OnlyWithConsent DropFindsNoSession RowsAreReal WritesAreWhole VcsIsSound
