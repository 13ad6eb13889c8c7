# A TLA+ verification of sso-requests

sso-requests is the application with which teams of the BC government request
Keycloak clients ("integrations"). A submission commits a row and a workflow in
Postgres, and workers in several pods later converge Keycloak, the BC Services
Card registry and Microsoft Entra to it, with retries, leases, crashes, deletes
that overtake updates, and submissions that arrive meanwhile. Around that engine
are the endpoints that decide who may do what (teams, organizations, consents,
API accounts, approvals), those that keep rows and Keycloak together (roles,
replication, key rotation, audit), a second API that caches what an account may
do, and a browser whose forms and conversations save themselves while all of
this goes on.

This directory models the engine and sixteen components around it, checks them
with TLC on small instances, and proves with TLAPS, for every instance, each
safety and action property and both refinements that the passing runs check;
liveness is the one thing left to TLC alone. Paths are relative to the
repository.

## Inventory

| Component | State | Operations | What is hard | What makes it correct | Module |
|---|---|---|---|---|---|
| Workflow engine, `app/workflow` | `request_workflows`, its steps, failures, outcomes in `events` | create, park, overwrite, promote, supersede, claim, run, retry, release, dead-letter | every statement of several pods interleaves; a pod dies at any of them; leases expire; timed-out calls go on | one claimable row, no submission lost, one worker per row, every workflow closes | `RequestWorkflow` |
| Integration submissions, `app/controllers/requests.ts`, `app/helpers/transitions.ts` | the `requests` row | save, submit, resubmit, delete, restore | each decides on a copy read before its transaction | the row is what its workflow carries | `RequestWorkflow`, `DraftForm` |
| Providers and approvals, `app/utils/requestPolicy.ts`, `app/helpers/permissions.ts`, `app/utils/helpers.ts` | `devIdps`, approval flags | change providers, approve | an approval outlives its provider | an environment gets only what was approved | `IdpApprovals` |
| Keycloak convergence, `app/keycloak/integration.ts` | client, mappers, identity providers, BCSC and Entra registrations and their rows | build, tear down | many calls to four systems, none of them transactional | applied means converged | `ClientConvergence` |
| Recovery tick, `cron/src/main.ts`, `app/pages/api/processRequestQueue.ts` | none | promote orphans, claim and run | the only thing that resumes an abandoned workflow | it eventually does | `RequestWorkflow` |
| Audit writer, `packages/audit` | `events` and mirror rows | single operation, batch | the outside call and the event cannot commit together | requested, then at most one true outcome | `AuditPromise`, `AuditedBatch` |
| Entra key rotation, `app/pages/api/ms-graph/refreshApplicationKeyCredentials.ts` | key providers, credentials | rotate, roll back, clean up | partial failure between two systems | Entra trusts the key Keycloak signs with | `KeyRotation` |
| Teams, organizations, user records, `app/controllers/team.ts`, `organization.ts`, `user.ts` | memberships | create, add, remove, change role, merge, clean up | count, then write, without a lock | an administrator stays | `Memberships` |
| Organization links, `app/controllers/organization.ts` | `organization_teams` | invite, answer, consent, withdraw | terms change between read and write | one organization, no broader terms | `OrganizationLinks` |
| API accounts, `app/controllers/team.ts`, `organization.ts` | `requests` rows with `apiServiceAccount` | create, delete, restore, delete the owner | no index enforces "one"; a workflow is still running | one account, none without an owner | `ApiAccounts` |
| Roles, `app/controllers/roles.ts`, `app/workflow/effects.ts` | Keycloak roles and links, `request_roles` | create, delete, compose, restore | rows and Keycloak are written apart; an attempt goes on beside its retry | rows mirror Keycloak, a restore brings all back | `Roles` |
| Role replication, `app/keycloak/roleReplication.ts` | users and grants | plan, look up, create, grant, report | shared and swallowed failures, overlapping runs | the report is true | `RoleReplication` |
| SDX services, `app/controllers/sdx-services.ts` | client scopes | request, callback | passes undo each other, over two kinds of assignment | what was approved is assigned | `SdxAccess` |
| Tokens, `app/utils/graph-api.ts`, `rag-token.ts`, `chat-proxy.ts` | cached token, shared fetch | call, refresh, retry | a repeated POST, a fetch begun before a revocation | posted once, revocation survived | `TokenClient` |
| Authorization, `packages/authz`, `app/queries` | permission sets | list, open | two derivations of one rule, stale reads | a list shows what opens | `AccessPolicy` |
| CSS API, `api/src` | cached authority, roles and rows, grants | authorize, change roles, grant | loads overlap; rows left behind | authority is recent, answers are mirrored | `ApiAuthority`, `ApiRoles` |
| Form of an integration, `app/form-components/FormTemplate.tsx` | the form, its throttle, calls under way | edit, empty, save, submit, leave | saves that fire late and overtake | nothing unsaved, nothing after the submission | `DraftForm` |
| Assistant conversations, `app/components/ChatWidget`, `app/utils/chat`, `app/pages/api/chat` | tabs, their storage, a shared cookie | ask, New chat, Delete history, reload | late answers, a change of user | nobody sees another's conversation | `ChatConversation` |
| Lease timing, rate limits, log queries, migrations, the rest of the UI, deployment | – | – | – | – | see "Not modelled" |

They interact through Postgres (rows, row locks, unique indexes, advisory locks
around outcomes), through Keycloak, MS Graph and the BCSC and SDX services, and
through calls from the controllers into `enqueueIntegrationWorkflow` and
`runIntegrationWorkflow`. The cron process calls the application over HTTP once a
minute. PROJECT.json lists every component with its status, and under "hazards"
each thing that is hard to test, at the line where it bites, with the properties
that would catch it.

## The modules

### RequestWorkflow

One integration, all that touches it. Rows of different integrations meet only
in the claim query, which picks one row, so one integration is enough. A row is
numbered by the operation that inserted it, and `row.op` is the operation it
carries, another one after an overwrite.

| Variable | In the code |
|---|---|
| `request` | the `requests` row: `status`, `archived`, a version of the payload columns, `environments` |
| `wf` | `request_workflows`: `state`, `type`, payload (`version`, `envs`), `claimed_by` (`holder`), `claimed_at` (`lease`: none, live, expired), `run_after` (`due`) |
| `steps` | `request_workflow_steps`: state and attempts; a position instead of a name |
| `outcome` | the terminal event of each operation; `planFailure` is a failure with `failedStep` PLAN, which `countApplyOutcomes` does not count |
| `dead` | `request_workflow_failures` |
| `kc` | the client in each environment: 0 is absent, else the payload version it converged to |
| `late` | Keycloak calls that outlived `withTimeout` |
| `at` | each call of `runWorkflow` or claim of `drainWorkflows`: the next statement it sends, its row, step and attempt |
| `sub` | each HTTP request: the copy of the integration it authorized on |

Each action is one statement (or one transaction) that reads or writes shared
state. A submission is two: `ReadRequest` takes the copy, and one of `Delete`,
`DeleteDraft`, `Park`, `FindNothingInFlight` followed by `Insert` is its
transaction. `model.save()` writes only the changed columns, so `Saved` starts
from the row as it now is. An open transaction that saved the integration holds
its row lock (`RowLocked`), which blocks other submissions and status writes;
between the search for a row in flight and the insert nothing blocks a
promotion, which is why that transaction alone is split. A worker is `Claim`,
`Load`, `Start`, then `Probe`, `BeginStep`, a body (`ExecPlan`, `ExecApply`,
`ExecOther`, `FinalizeOutcome` and `FinalizeStatus`), `CompleteStep` or
`FailStep` and what follows it. `StepThrows` is free: any statement of a step may
throw. `Timeout`, `Crash`, `Throw` (a statement outside the steps),
`LeaseLost` and `BudgetSpent` draw on `MaxFaults`. The step rows and the live
state that `Probe` reads are two statements merged into one: step rows are
written only by workers of the same workflow.

`OmitsNull` is the one setting of `shared/sequelize/config/config.ts` that
matters here. In production (`NODE_ENV: production`) `omitNull` is set, and
Sequelize drops null values from an update, static ones included (`team.ts` 214
and `requests.ts` 695 opt out of it for that reason). `claimedBy: null,
claimedAt: null` then changes nothing and a released row keeps its lease. Tests
and the development environment do clear it. Most runs use TRUE; the run that
checks the stronger release uses FALSE. The proofs cover both.

What is abstracted: a payload is the number of the operation that wrote it;
`keycloakClient` is one write (a call cut short leaves the old or the new
state; a crash kills the calls in flight, a time-out does not); the teardown of
a renamed client is part of the convergence; the `request-plan` event,
`currentStep`, `lastError`, `action` and `isCreate` are left out, no decision of
the engine reads them. What is not modelled here: draft saves (`DraftForm`),
`updateRequestMetadata`, statuses `pr` and `prFailed`, permanent errors and an
unknown persisted step (nothing in the repository raises the one or writes the
other), the synchronous `runToCompletion` of API accounts (`ApiAccounts` takes
its outcome), the effects of RESTORE_ROLES (`Roles`) and NOTIFY, permissions
(`AccessPolicy`).

### WorkflowLifecycle

What `types.ts`, the comment of `createWorkflow` and the two unique indexes
promise of the rows: one owner, one waiting, a newer submission replaces the one
that waits, terminal states are final, a delete takes over from all.
`RequestWorkflow!ImplementsLifecycle` maps `state` and `carries` to the rows and
TLC checks the refinement.

### MCRequestWorkflow, RequestWorkflowProofs, EngineProofs

The first gives `PodOf` (one worker per pod) and the symmetry. The second holds
the theorems about the table (one owner, nothing lost, parked work untouched),
the third those about the workers (success, ownership, order, lifecycle).

### MCComponents: the components around the engine

The sixteen modules below are composed by `MCComponents`. They share no state: a
call that touches two of them (a team's deletion and its API accounts, say)
waits for one before it goes on to the other, and the module of the one says how
the other may answer. A behaviour of the composition is then an interleaving of
their behaviours, and it is enough to let one move at a time: `focus` is the one
that moves, the others rest in a fixed state. `ApiAuthority` extends
`AccessPolicy` and moves with it. The conventions they share: an endpoint that
reads, decides and writes in a later transaction is two actions, and keeps its
copy; a call to another system is answered, refused before it had an effect, or
has its effect and loses its answer; bounds are constants named `Max...`. A
property that the code keeps only while nothing interferes says so with a
variable that remembers interference (`fresh`, `steady`, `blurred`, `tangled`,
`alone`, `oddities`): it is as strong as the code, and the hazards say what
happens otherwise.

Their theorems are in `TeamProofs` (`Memberships`, `OrganizationLinks`,
`AccessPolicy`, `ApiAuthority`), `ApiProofs` (`ApiRoles`, `ApiAccounts`),
`KeycloakProofs` (`SdxAccess`, `RoleReplication`, `Roles`, `ClientConvergence`),
`PlatformProofs` (`AuditedBatch`, `KeyRotation`, `TokenClient`) and
`BrowserProofs` (`IdpApprovals`, `ChatConversation`, `DraftForm`), and those of
the composition in `ComponentsProofs`.

| Module | State | Actions and their code |
|---|---|---|
| `Memberships` | roles of accounts in groups, the owner of one integration, calls | the endpoints of `team.ts` and `organization.ts` that add, remove, promote and demote; `deleteStaleUsers` transaction by transaction; the merge in `findOrCreateUser` |
| `OrganizationLinks` | the links of one team, what it agreed to, calls with their copies | `inviteTeam`, `respondToOrganizationInvitation`, `updateTeamConsent`, `leaveOrganization`; `OneActive` is the partial unique index |
| `ApiAccounts` | owners, accounts, the workflow of each, clients, calls with their copies | creation, deletion, restoration, `deleteTeam` account by account, `deleteOrganization`; `SavedFrom` is `save()`, `Busy` the refusal of `awaitCompletion`, `EndWork` the engine |
| `KeyRotation` | priorities of key providers, certificates of applications, the rotation's place | `rotateEnvironment`, one action per call, with and without the certificate in use, its roll-back, a crash, the next rotation, `createEntraIntegration` meanwhile |
| `AuditedBatch` | events, outside effects, mirror rows, slices | `runAuditedBatch` and `runAuditedOperation`; refines `AuditPromise` |
| `ClientConvergence` | what exists outside, the attempts and their calls to come | `keycloakClient` with the BCSC and Entra branches, as the list of its calls, over several attempts of which some outlived their step |
| `Roles` | roles, links, rows, requests, restore attempts, recorded events | `controllers/roles.ts`, `queries/roles.ts`, `effects.ts` |
| `RoleReplication` | accounts, counterparts, grants, runs | `replicateRoleMfa` |
| `SdxAccess` | scopes defined, default, optional, offered to the token exchanger, calls | `createSdxRequest` with `keycloakSyncScopes` and `removeSdxAccessByScopes`, `processSdxWorkflowUpdates`, `manageKeycloakScopes` |
| `TokenClient` | tokens issued, revoked and cached, the shared fetch, calls | `callAzureGraphApi`, `fetchUpstream`, `getRagAccessToken` |
| `AccessPolicy` | memberships, links, consents, overrides, the row, a list request | the queries of `resolveAccessScope` one by one, `accessibleIntegrationsWhere`, `resolveAccessForIntegrations` |
| `ApiAuthority` | the account, the cache, a clock, requests | `modules/authorization.ts`, `integration-service.ts` |
| `ApiRoles` | roles, rows, a user and what they hold, requests | `role-service.ts`, `user-role-mapping-service.ts`, `requestRoles.ts` |
| `DraftForm` | the row, what its workflow carries, the open form, the throttle, a leftover throttled save, calls under way | `handleChange`, `throttleUpdate`, `handleFormSubmit` (`FormSubmits`), `handleSubmit`; `updateRequest` and `deleteRequest` as a read and a commit; `Written` is `save()` under `omitNull`, `Carried` the payload |
| `IdpApprovals` | providers and approval flags, saves under way, what each approver saw | `authorizeChanges`, `validateIDPs`, `approvalResetsForRemovedIdps`, `save`; `Delivered` is `buildGitHubRequestData` |
| `ChatConversation` | the turns, each tab's screen and stored copy, the cookie, removals under way | `sendMessage`, `clearMessages`, `deleteHistory`, `loadHistory`, `saveHistory`, `ownedSessionId`, `applyUpstreamSessionCookie`; the RAG API is external |

What the newer ones abstract or leave out:

- `Memberships`, `OrganizationLinks`, `ApiAccounts`: names, mail, verification
  tokens; the engine is a workflow that succeeds or fails.
- `ApiAccounts`: an account has one workflow at most, since its callers pass
  `awaitCompletion` and `enqueueRequestWorkflow` throws behind another one.
  `spared` holds the accounts whose last workflow failed or is not the one
  their row asks for.
- `KeyRotation`: `rot.stale` says that Keycloak showed the certificate of the
  key in use; `exposed` holds the applications that the properties except.
- `RoleReplication`: `missed` holds the users MS Graph did not answer about.
- `SdxAccess`: a service has one scope. Whether the integration is applied and
  its subsystem registered, and which of the requested services SDX has
  approved, are free choices (`ReadApproved`). The audience mapper of the token
  exchanger is left out. `inherited` holds the scopes that were default ones
  before any call: none is in what this code creates.
- `ClientConvergence`: the content of mappers, the SAML branches. A call is
  atomic; what a lost one did is not known to its caller.
- `ApiAuthority`: time is a count of ticks, and a load takes `MaxLoad` of them at most.
- `DraftForm`: the creation form, trimming, the fields that follow others. Two
  fields stand for the columns, and a value is the number of the edit that gave
  it, or `Empty`: null for a `NullField` (the unit and the division), not sent
  for another. (The texts that `services/request.ts` sends as '' when emptied
  have a value like any other.) The button of the last page opens the dialog
  without a call; `FormSubmits` is a submission of the form by the browser. Of two throttled saves that outlive their forms the newer is kept. The
  browser may deliver calls in any order. `oddities` holds what excuses a
  property: a call lost, overtaken, written over a change it had not read, or
  under way when the form was opened. These are real: no version column or lock
  stands in their way, and the hazards name them.
- `IdpApprovals`: the protocol is chosen at the start; a payload sets one flag
  at most; whether the status admits the save is `DraftForm`'s. Flags and
  providers written by overlapping saves ("raced"), or a flag set for no
  provider ("blank"), are excused.
- `ChatConversation`: the typewriter, the parsing of a stream, markdown, the
  number of messages kept, rate limits (a refusal is `FailTurn`). The RAG API
  keeps a turn under the session and tab id it came with once the turn ended,
  as the comments of `history.ts` and `useChat.ts` say.

## The runs

| Run | Instance | Shows |
|---|---|---|
| `faults` | 2 pods, 1 user, submit and delete, 2 environments of which the submission has one, 1 fault of any kind | `TypeOK`, `OneClaimableOneQueued`, `EveryOperationAccounted`, `SuccessWasApplied` |
| `submissions` | 1 worker, 2 users, 3 operations of all four kinds | `QueuedIsUntouched`, `ImplementsLifecycle` |
| `single_owner` | 2 pods, 2 users, submit and resubmit, 2 attempts, 1 crash or exception, nulls written | `SingleOwner`, `StepsInOrder`, `AppliedStaysApplied` |
| `liveness` | 1 worker, 3 submissions, 1 crash or exception, `FairSpec` | `EveryWorkflowCloses`, `EveryOperationAnswered` |
| `latest_wins` | 2 pods, 3 submissions | violated: an older parked submission is applied over a newer one |
| `terminal` | 2 pods, submit and delete | violated: SUPERSEDED becomes RUNNING |
| `delete_wins` | 2 pods, submit and delete | violated: a client survives the delete |
| `archived` | 1 worker, 2 users | violated: an update authorized before the delete re-creates the client |
| `release` | 2 pods, production configuration | violated: a released, due workflow cannot be claimed |
| `all` | each of the sixteen components, instances below | `TypeOK` and 28 properties, below |
| `rerun` | `ClientConvergence`, an integration with BC Services Card | violated: a deletion that is run again leaves the identity provider and the scope |
| `restore` | `Roles` | violated: a link removed in Keycloak comes back |

What `all` shows of each component, and its instance:

| Component | Properties | Instance |
|---|---|---|
| `Memberships` | `LastAdminIsGuarded`, `CleanupFinishes` | a team, an organization, three accounts, 2 calls at once |
| `OrganizationLinks` | `OneOrganization`, `ConsentIsRespected` | 2 organizations, 2 calls, 3 links |
| `ApiAccounts` | `OneApiAccount`, `GoneOwnsNothing`, `ArchivedHasNoClient` | a team or an organization, 2 calls, 2 accounts |
| `KeyRotation` | `SigningKeyIsTrusted` | 2 applications, 4 keys, 3 faults, a missing certificate among them |
| `AuditedBatch` | `KeepsItsPromise` (refinement), `UnansweredIsUnfinished`, `ParentTellsChildren` | 3 operations, 2 at once, 2 faults |
| `ClientConvergence` | `AppliedConverges` | 3 submissions, 2 attempts at once, 1 fault |
| `Roles` | `RowsMirrorKeycloak`, `RestoreBringsBack`, `CreationsRecordedOnce` | 2 roles, 2 requests, 2 attempts, 4 changes, 1 fault, calls of 2 roles instead of 20 |
| `TokenClient` | `PostedOnce`, `RevocationIsSurvived` | 2 callers, 2 tokens, 1 retry, 1 fault |
| `AccessPolicy` | `ListedIsPermitted`, `ListAgreesWithRow` | 2 teams, 2 consents, 2 permissions, 1 change during a list |
| `ApiAuthority` | `AuthorityIsRecent` | 2 requests, a lifetime of 2 ticks, 1 change |
| `RoleReplication` | `ReportIsTrue` | 1 user, 2 roles, 2 runs, 2 faults |
| `SdxAccess` | `ApprovedIsAssigned` | 2 services, 2 calls at once, 3 calls and deletions in all, 1 fault, with and without a token exchanger, any default scopes before |
| `ApiRoles` | `AnsweredIsMirrored`, `GrantIsAllOrNothing` | 2 names, 2 requests, 1 fault, from any earlier rows |
| `DraftForm` | `RowFollowsWorkflow`, `NothingUnsaved` | 2 fields, one of them emptied with null, 2 edits, 3 calls, 1 fault |
| `IdpApprovals` | `DeliveredWasApproved` | 2 BCeID providers that exclude each other and a restricted one, 2 saves at once, 3 in all |
| `ChatConversation` | `ConversationIsOnesOwn` | 2 users, 2 tabs, 2 questions, 1 removal, 2 reloads |

The bounds of the engine. Two workers are enough for one to overtake another at each
statement, two submissions for one to replace, overtake or supersede another,
three for a parked one to be replaced and for the promotion race. Two
environments, of which a submission has one, tell a delete's sweep from an
apply. `MaxAttempts` 1 makes every failure final, 2 makes one retry precede it;
beyond `MaxAttempts` the engine does not tell attempts apart and `AttemptCap`
stops the count. One fault at any point is what the recovery of the engine has
to deal with; the proofs cover any number. Deadlock is not checked: with
`MaxOps` submissions made and their workflows closed, the system rests.

`single_owner` leaves out stolen leases and deletes on purpose: with either, two
workers on one row are what the code allows, and `SingleOwner`, `StepsInOrder`
and `AppliedStaysApplied` say what the lease buys as long as it is kept. The run
`faults` shows which properties survive its loss. `ImplementsLifecycle` is
checked with one worker for the same reason: with two, `terminal` refutes it.

Fairness (`FairSpec`). A worker that is not killed goes on; the cron tick claims
and promotes every minute; backoff and leases run out; an open transaction ends.
Users owe nothing. `SF_vars(FailStatus(p))`: Postgres serves the waiters of a row
lock in turn, so a status write that submissions block time and again still gets
through. The properties need no more than finitely many faults, which `MaxFaults`
grants. `EveryOperationAnswered` is conditional on no fault: a pod that dies
between FAILED and its event leaves the operation unanswered.

The bounds of `MCComponents` follow one rule: two of everything that can overlap
(calls, runs, attempts, tabs), as many objects as it takes to tell "the one it
is about" from "another", one fault more than what a single recovery hides, and
enough steps for a third party to come between two. Three links let a team be
invited, leave and be invited again; four keys let a rotation fail and the next
one, and the one after it, start from what it left; four changes to roles let
two be created, composed and decomposed before the client is deleted; three
saves are an approval, a removal and an addition. Deadlock is not checked: a
component whose bounds are spent rests.

Each passing property has a mutant: an operator next to the one it replaces
(`ClaimsLeased`, `AfterOptional`, `SaveWhereSubmit`, ...) that a plausible slip in
the code would amount to.

## Findings

The seven violations are disagreements between what the repository says and what
its code does; PROJECT.json quotes both sides. In short:

- "latest desired state wins" fails when a submission is inserted between a
  terminal write and the promotion of the parked one (`latest_wins`);
- SUPERSEDED is left by a worker that starts the row on a stale copy (`terminal`);
- a delete does not wait for an apply already past its probe (`delete_wins`);
- an update authorized before a delete can commit behind it (`archived`);
- in production a release does not clear the lease, so every retry waits for it
  to lapse (1000 s by default) where the code and its tests mean to retry after
  the backoff (`release`);
- a deletion that failed part way is not safe to run again: it archives the BCSC
  row first and then looks for it (`rerun`);
- a restore re-creates links that had been removed, because rows of composite
  roles only gain ids (`restore`).

Some passing properties hold with an exception that is itself something a
maintainer would want to know. Each is in the comment of its property and among
the hazards:

- a restoration of an API account and a deletion of it that cross both run their
  workflow, but the one that commits last writes no `archived`, because `save()`
  sees no difference from its copy: the row may stay archived with a client, or
  active without one (`ArchivedHasNoClient`, `spared`);
- when Keycloak shows no certificate of the key in use, a rotation leaves the
  applications with the new one alone, or after a roll-back with none, while the
  old key still signs (`SigningKeyIsTrusted`, `exposed`);
- a look-up that MS Graph does not answer is reported as "not found in MFA",
  where `roleReplication.ts` 289-291 says that a look-up that fails stays pending
  and is recorded as the failure it is (`ReportIsTrue`, `missed`);
- `sdx-services.ts` 235 says that scopes a request leaves out are removed from
  Keycloak; it looks for them among default scopes and grants them as optional
  ones, so none is. A scope that is a default one is taken away by the pass of
  another service, and not put back by its own (`ApprovedIsAssigned`,
  `inherited`);
- a field emptied in the form keeps its value in the row: what is undefined is not
  sent, and `omitNull` drops a null. The form says that it saved, and the
  workflow of a submission carries the null (`RowFollowsWorkflow`,
  `NothingUnsaved`).

## The proofs

What a theorem says holds for every value of the constants that the named
assumptions admit (`ConstantsOK` of the engine, `...Assumption` of each
component): any pods, workers, users, teams, accounts, roles, tabs, calls at
once, operations and faults. Nothing else is assumed. Where the code keeps a
property only in part of those instances, the theorem states the part as its
hypothesis.

| Module | Theorem | Property | For |
|---|---|---|---|
| `RequestWorkflowProofs` | `TypeCorrect`, `OneOwner`, `LedgerHolds`, `NothingLost`, `ParkedUntouched` | `TypeOK`, `OneClaimableOneQueued`, `Ledger`, `EveryOperationAccounted`, `QueuedIsUntouched` | all |
| `EngineProofs` | `SuccessIsApplied` | `SuccessWasApplied` | all |
| | `OneWorkerEach`, `PlansRunInOrder` | `SingleOwner`, `StepsInOrder` | `LeasesLast` |
| | `AppliedStays` | `AppliedStaysApplied` | `Undisturbed` |
| | `EngineImplementsLifecycle`, `ClosedForGood` | `ImplementsLifecycle`, `TerminalIsFinal` | `Unraced` |
| | `ReleasedIsFree` | `ReleasedIsClaimable` | `~OmitsNull` |
| `TeamProofs` | `NeverTwoOrganizations`, `ConsentIsHeldTo` | `OneOrganization`, `ConsentIsRespected` | all |
| | `LastAdminStays`, `CleanupEnds` | `LastAdminIsGuarded`, `CleanupFinishes` | all |
| | `ListNeverDrifts`, `ListsWhatOpens` | `ListedIsPermitted`, `ListAgreesWithRow` | all |
| | `AuthorityTakesEffect` | `AuthorityIsRecent` | all |
| `ApiProofs` | `AnswersAreMirrored`, `GrantsAreAllOrNothing` | `AnsweredIsMirrored`, `GrantIsAllOrNothing` | all |
| | `OneAccountEach`, `NobodyOwnsAGoneOne`, `ArchivedAreRemoved` | `OneApiAccount`, `GoneOwnsNothing`, `ArchivedHasNoClient` | all |
| `PlatformProofs` | `WriterKeepsPromise`, `CrashLeavesOnlyUnfinished`, `ParentIsTheChildren` | `KeepsItsPromise`, `UnansweredIsUnfinished`, `ParentTellsChildren` | all |
| | `SigningKeyAlwaysTrusted` | `SigningKeyIsTrusted` | all |
| | `PostedAtMostOnce`, `OldRevocationIsSurvived` | `PostedOnce`, `RevocationIsSurvived` | all |
| `KeycloakProofs` | `ApprovedStaysAssigned` | `ApprovedIsAssigned` | all |
| | `EveryReportIsTrue` | `ReportIsTrue` | all |
| | `RowsFollowKeycloak`, `RestoreIsWhole`, `EachCreationIsRecorded` | `RowsMirrorKeycloak`, `RestoreBringsBack`, `CreationsRecordedOnce` | all |
| | `AppliedIsConverged` | `AppliedConverges` | all |
| `BrowserProofs` | `DeliveredIsApproved` | `DeliveredWasApproved` | all |
| | `ConversationsAreOnesOwn` | `ConversationIsOnesOwn` | all |
| | `SubmittedIsTheRow`, `FormIsSaved` | `RowFollowsWorkflow`, `NothingUnsaved` | all |
| `ComponentsProofs` | `ComponentsInterleave` | `EachAlone` | all |
| | `EveryComponentIsTyped` | `TypeOK` of `MCComponents` | `Focus` names components |

Each component also has a theorem that its inductive invariant holds
(`AuditInvariant`, `KeysInvariant`, ...), which its other theorems follow from.
There is one lemma per action, or per group of actions that disturb the same
conjuncts.

### The engine

*The table.* `OneClaimableOneQueued` is inductive over `TypeOK`: each action
that makes a row claimable (insert, promotion, start) has the index or the
NOT EXISTS as its guard, a delete closes every active row first, and a row is
parked only when none is. `EveryOperationAccounted` is not inductive: a workflow
is COMPLETED by a worker that found every step finished, and that its outcome
is on record follows from how it got there. `Ledger` keeps that history:
a row that exists carries a submitted operation and has a FINALIZE step
(`RowsCarry`); a finished FINALIZE step means a recorded outcome
(`FinalizeAnswers`); so does a worker past the recording (`WorkersAnswer`), which
also says that only NOTIFY is ever skipped; rows beyond the last operation do
not exist (`FreshRows`); workers hold only rows that were started
(`WorkersHoldStartedRows`); and a parked row has no lease and no attempt
(`ParkedRowsFresh`), because `claimQuery` never selects it.

*Success.* `Applied` adds what makes `SuccessWasApplied` inductive: an operation
is in one row (`OneRowEach`), its plan has a step for each environment of its
payload (`PlansCover`), a step that left PENDING was counted (`BegunIsCounted`),
and a worker that is at FINALIZE found every environment attempted (`Counted`).
It needs no hypothesis: stolen leases, late calls and deletes cannot break it,
because the attempts of a row that was started only grow.

*Ownership and order.* `SingleOwner` is a property of the lease, and the lease
protects only while it is kept. `LeasesLast` says when: no lease is stolen
(`stall`), and no delete drops a lease under a worker, which it does exactly
where nulls are written. `HeldLeased` then says that what a worker holds is
under a live lease as long as it could be claimed, and `InOrder` that a worker
is at the first unfinished step of its row. `StepsInOrder` follows, since two
workers of one row are excluded. The theorem is wider than the run
`single_owner`: it includes deletes in the production configuration.

*What was applied stays.* `Undisturbed` excludes in addition calls that outlive
their step and deletes. `Driven` ties a worker at its settling write to the
environment it has just converged; only the worker of a claimable row writes
environments, and there is one such row. The runs `delete_wins` and `archived`
show the other side of the hypothesis.

*The lifecycle.* `EngineImplementsLifecycle` maps `state` and `carries` to the
rows. An action maps to the step of `WorkflowLifecycle` that bears its name, or
to a stutter. The one step that does not is a start on a stale copy of a row
that was closed since; `Startable` says that the row a worker starts still is
PENDING, which needs `Unraced`: a single worker in all, or neither stolen leases
nor deletes. `terminal` is the behaviour outside: there TLC finds the SUPERSEDED
row RUNNING. With one worker that case is closed off by another claimable row,
whose index refuses the start, and the invariant has that disjunct.

*Release.* Where nulls are written, a row that cannot be claimed has no lease and
a live lease is held by a worker that will drop it (`LeasedIsHeld`), as long as
no worker dies. In production neither is so (`release`).

### Teams, organizations, authority

*Links.* `OneOrganization` counts, so it is proved as `NoTwoActive`. A write
addresses the row by the id that was read; without `CopiesAreRows`, which says
that every call but an invitation read a row and not its absence, a write could
revive a link. With it, only `Accept` can make a link active, and its guard is
the partial unique index. `FreshIsCurrent` says that a call whose link did not
change still holds the row as it is; what it then writes cannot go beyond what
the team agreed to (`ConsentIsHeldTo`).

*Memberships.* `CallKnows` is what a call has learned, as a statement about the
memberships now, for as long as no transaction came between (`fresh`): who
leaves is not the only administrator, and a clean-up has settled each team that
is no longer on its list. It holds of a call because each transaction of another
one clears `fresh` (`Overtaken`). Both action properties follow by cases.

*Access policy.* Two pieces of code derive a user's authority over a row: a
predicate that selects rows and a resolver that computes permissions. Lemma
`PredicateIsResolver` shows, clause by clause (owner, team, organization), that
on the same memberships, links and overrides they agree, for every row.
`ListedIsPermitted` then needs only that a list that ended used one scope for
both. `ListAgreesWithRow` also needs that the scope is current: `ReadIsCurrent`
says, for each stage of the list request, that what it has read is still so
unless something changed (`steady`).

*Authority of an API account.* `RequestAgrees` and `EntryAgrees` bound ages: a
load that began after the last change reads what there is, an entry expires one
lifetime after it was stored, and a load takes `MaxLoad` at most, so that what
is decided later than both is decided by what holds.

### API accounts and roles

`WorkFits` ties the workflow of an account, or its client if none is left, to
the flag `archived` of the row, except of those in `spared`; `ActiveIsOwned` says that an active
account names an owner that exists, which the deletion of an owner can rely on
only because it archives and detaches its accounts before it destroys the row. In `ApiRoles`, `EffectIsThere` says what Keycloak has after
the effect of a request that nobody overlapped, `GrantProgress` that a grant has
granted nothing or all; `NumbersSuffice` counts the requests under way, so that
role and row numbers stay within their bounds.

### Platform

*Audit.* `RecordedTogether` (parent and children go on record in one
transaction), `ChildAgrees` (a child's place against its event, its outside call
and its mirror row) and `CallerWasTold` are inductive, and under them each step
of `AuditedBatch` is a step of `AuditPromise` or a stutter.

*Key rotation.* `RotationAgrees` gives the priorities of both keys at each place
of the rotation, roll-back and clean-up included, and `PreparedTrustsNew` that
an application that is no longer to be prepared trusts the new key. Since the
cut-over happens only when none is left, the key that signs is always trusted.
`BareIsExposed` says that an application which a rotation without the present
certificate has touched is among `exposed`, so that its roll-back, which leaves
it nothing, breaks no promise.
`HighestPriority` reduces "the provider with the highest priority" to the two
cases there are.

*Tokens.* `ProcessedInBounds` counts how often a call can have been processed
against the retries it has had; a POST is retried only on answers that mean it
was not. `LatestInUse` and `TokensAreFresh` order the tokens in hand, cached and
being fetched. Its first form, the
bound alone, was not inductive.

### Keycloak

*SDX, replication.* `SdxProgress` and `StatusAgrees`/`TargetAgrees` say, for each
place of a call, that what is no longer to do is done. What a pass is to take
away it read among default scopes, and those are `inherited` (`SdxReads`): no
pass can take away what a callback granted. `Unheard` says of whom a run found
nobody for that MS Graph knows none or gave no answer.

*Client roles.* `RequestStands` is where a request is with its role, for roles
that nothing blurred, `MirrorStands` the same for the rows. After the deletion
`RowsRemember` says the rows have what the client had, and `AttemptStands` where
the attempt of a restore is with each row, snapshot, creation, record and links,
provided no attempt outlives its step (`OneAttempt`; a late one sets `late`, which
the properties excuse, save that a creation is never recorded twice). Ids are
counted against the changes made (`RoleCounts`). An earlier form claimed that a
composition about to be mirrored has exactly the links it asks for; it has at
most those, since a role it links to may have been deleted meanwhile.

*Client convergence.* An attempt is a sequence of calls. `PlansFit` says that
what is left belongs to the plan of what the attempt wants, in its order
(`InOrder`); `ClientSoFar` and `EntraSoFar` say, from the calls that are no longer
left, what has been made so. Attempts of one submission agree with each other;
those of earlier ones are told apart by `tangled` and `beside`.

### Browser

*Approvals.* `Decided` keeps what a save concluded from its copy, and
`ApprovalsStand` that each flag of the row was given for every provider of its
group that the row uses; `NoneJoins` is the reason no provider slips in under an
approval. *Conversations.* `SessionsOwned` says that a session is named after
the turn that began it and is that user's, in the turns and in the cookie;
`PageOwned` what a tab shows and stores. `ChatTypes` needs one more count: a tab's
id plus the removals it waits for never pass the removals made. *Draft.*
`FormFollows` is a chain: what the form shows waits in the throttle, or is the
last call's data, or is the row but for emptied fields (`Shown`).
`CarriesTheRow` compares what a submission writes with what its workflow
carries, field by field.

### The composition

`ComponentsInterleave`: a step of `MCComponents` is, for each component, one of
its steps or a stutter, so that a behaviour of the composition is a behaviour of
each and all theorems above carry over. `ApiAuthority` and `AccessPolicy` share
variables and are treated together, by the one of them that moves
(`AuthorityStaysInPlace`).

### Only model-checked

`EveryWorkflowCloses` and `EveryOperationAnswered`: liveness under fairness is
beyond the prover. The properties of the violated runs are false in general;
two of them, `TerminalIsFinal` and `ReleasedIsClaimable`, are proved where the
code does keep them, so that the hypothesis says what a repair has to bring
about.


## Not modelled

- Lease and retry timing: `RequestWorkflow` lets a lease lapse at any time, which
  covers every setting of the constants and every length of a step, and shows
  what survives it; how likely a lapse is, is arithmetic on the defaults, given
  as a hazard.
- Rate limits (`app/utils/rate-limiters.ts`), kept by a library; log queries,
  which build a string; token verification and sessions, done by libraries.
- Most of the user interface: dashboards, tables, schemas of the form, styling,
  images and their tests. It renders what the endpoints answer and keeps no
  state of its own beyond the form and the chat. With generated code (the
  OpenAPI document), model declarations, interfaces, mail templates and
  end-to-end tests it is most of the repository's lines, so the map covers a
  small share of them.
- Migrations, except their indexes and cascades, which are guards and effects in
  the modules; deployment, one-off scripts, load tests.
- Within the modelled parts: `updateRequestMetadata`, the statuses `pr` and
  `prFailed`, permanent errors and unknown steps, field validation other than
  that of providers, listings and reports.

## Plan

Done: the modules, the runs, and the theorems above, which state each safety
and action property of the passing runs. Next:

1. More of the engine outside the hypotheses: which part of `StepsInOrder` and of
   the lifecycle survives a stolen lease or a delete among several workers.
2. `LatestStateWins`, `DeleteWins` and `ArchivedIsGone` under the conditions in
   which they do hold, as was done for `TerminalIsFinal`.
3. The engine beside the components: that `ApiAccounts` and `ClientConvergence`
   use no more of it than `WorkflowLifecycle` promises.
