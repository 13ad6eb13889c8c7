SPECIFICATION Spec
CONSTANTS
  Focus = {"memberships", "links", "accounts", "keys", "audit", "assets", "roles", "tokens", "access",
    "replication", "sdx", "api", "authority", "draft", "approvals", "chat"}
  Team = {t1}
  Organization = {o1}
  Account = {ann, bob, sso}
  Unclaimed = {bob}
  Creator = ann
  Sso = sso
  Caller = {c1, c2}
  Org = {org1, org2}
  Consentable = {p}
  LinkCaller = {l1, l2}
  MaxLinks = 3
  TeamOwner = {team}
  OrgOwner = {organization}
  AccountCaller = {q1, q2}
  MaxAccounts = 2
  App = {a1, a2}
  MaxKeys = 4
  MaxKeyFaults = 3
  MaxItems = 3
  Concurrency = 2
  MaxAuditFaults = 2
  Wants <- MCWants
  MaxWants = 3
  Attempt = {e1, e2}
  MaxAssetFaults = 1
  Role = {r1, r2}
  RoleCaller = {k1, k2}
  Restorer = {s1, s2}
  BulkLimit = 2
  MaxChanges = 4
  MaxRoleFaults = 1
  TokenCaller = {u1, u2}
  MaxRetries = 1
  MaxTokens = 2
  MaxTokenFaults = 1
  OwningTeam = {w1, w2}
  ConsentChoice <- MCConsents
  Asked = {"integrations:read", "integrations:delete"}
  MaxAccessChanges = 1
  Guid = {g1}
  GrantedRole = {v1, v2}
  Run = {n1, n2}
  MaxReplFaults = 2
  SdxService = {x1, x2}
  SdxCaller = {y1, y2}
  MaxSdxCalls = 3
  MaxSdxFaults = 1
  ApiRequest = {d1, d2}
  Needed = {"integrations:delete"}
  CacheTtl = 2
  MaxLoad = 1
  MaxApiChanges = 1
  MaxClock = 4
  RoleName = {x, y}
  ApiCaller = {f1, f2}
  MaxApiCalls = 2
  MaxApiFaults = 1
  Field = {h1, h2}
  NullField = {h2}
  MaxEdits = 2
  MaxFormCalls = 3
  MaxFormFaults = 1
  IdpChoice = {"bceidbasic", "bceidboth", "otp"}
  Saver = {z1, z2}
  MaxSaves = 3
  ChatUser = {m1, m2}
  Tab = {b1, b2}
  MaxTurns = 2
  MaxRemovals = 1
  MaxReloads = 2
INVARIANT TypeOK
PROPERTY LastAdminIsGuarded
PROPERTY CleanupFinishes
INVARIANT OneOrganization
PROPERTY ConsentIsRespected
PROPERTY OneApiAccount
INVARIANT GoneOwnsNothing
 
INVARIANT SigningKeyIsTrusted
PROPERTY KeepsItsPromise
INVARIANT UnansweredIsUnfinished
INVARIANT ParentTellsChildren
INVARIANT AppliedConverges
INVARIANT RowsMirrorKeycloak
INVARIANT RestoreBringsBack
INVARIANT CreationsRecordedOnce
INVARIANT PostedOnce
INVARIANT RevocationIsSurvived
INVARIANT ListedIsPermitted
INVARIANT ListAgreesWithRow
INVARIANT ReportIsTrue
 
PROPERTY AuthorityIsRecent
INVARIANT AnsweredIsMirrored
INVARIANT GrantIsAllOrNothing
INVARIANT RowFollowsWorkflow
INVARIANT NothingUnsaved
INVARIANT DeliveredWasApproved
INVARIANT ConversationIsOnesOwn
CHECK_DEADLOCK FALSE
