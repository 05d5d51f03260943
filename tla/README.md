# Verification of the Enterprise Angular NestJS monorepo

TLA+ models of the product's core and of the tools vendored beside it: the
NestJS API (`src/apps/api/src`) with the PostgreSQL rows and Redis keys its
replicas share, the parts of the Angular client (`src/apps/web/src/app`) that
decide what is sent and what is shown, and the Python tools of the design skills
(`src/apps/web/.agents/skills`). TLC checks small instances; TLAPS proves the
central results for every value of the constants.

## The system

| Component | State it keeps | Operations | What is hard |
|---|---|---|---|
| Workspaces (`workspaces.service.ts`, trigger of migration `1790010000000`) | `workspaces`, `workspace_members`, `workspace_invitations` | create, rename, invite, accept, revoke, changeMember | concurrent membership changes, suspensions that fire the trigger, links that race, lock order |
| Account credits (`account-credits.service.ts`, `credit-adjustment.component.ts`) | `account_credits`, `credit_entries`, audit; the dialog's idempotency key | adjust; submit, retry, leave | lost answers and retries, first row of a pair, numeric limits |
| Login blocks (`auth-protection.guard.ts`, `login-unblock.service.ts`, `redis.service.ts`) | Redis counter and marker, `login_blocks`, `login_unblock_requests` | attempt, unblock, retry worker | two stores, workers of every replica, lost replies, age limits |
| Sessions and links (`auth.service.ts`, `browser-auth.controller.ts`, `jwt.strategy.ts`) | `session` rows with a rotating hash, signed links bound to the account's state | login, refresh, logout, forgot/reset, confirm, update, soft delete | rotation races, revocation against requests under way, links after a change |
| Account administration (`accounts.service.ts`, `admin-mutation.service.ts`) | `user` role and status, audit | save, remove, create | last active administrator, lock order, self-changes |
| Users (`users.service.ts`, `typeorm-user.repository.ts`) | `user`, connections of the pool | create, updateAtomically, remove | checks before the lock, second connection inside a transaction |
| Dashboard cache (`redis.service.ts`, `settings.service.ts`) | versioned cache keys | cached, clear | load before and store after a clear |
| Web session (`auth.service.ts`, `http.interceptor.ts`, `auth.guard.ts` of the client) | access token in memory, refresh under way, cookie jar of the browser | login, refresh, logout, replay of a refused request | shared refresh, several tabs, logout during a refresh |
| Web forms and lists (`form-dialog.ts`, `list-page.ts`, `workspace-detail.component.ts`) | rows shown, dialog state | load, submit, discard | answers out of order, submit twice |
| Skill `ui-ux-pro-max` | tables in CSV files, caches of a process, `design-system/<project>/` | search, `--design-system`, `--persist`, audit of the tables | tables written while they are read, agents that meet in one directory, tables that rely on one another |
| Skill `design` | image and icon files, jobs at image services | logo, identity mockups, icons, presentations | time-outs, half downloads, files replaced meanwhile |
| Skills `design-system`, `ui-styling` | decks, Tailwind configurations, components | generate, validate, advise; configure, add | what a check accepts against what a generator writes; check then write |
| Catalogues, files, mail, settings, observability, migrations, tools | rows, objects, counters | CRUD, upload, send, probe | little; see `PROJECT.json` "components" |

The client calls the API over HTTP. API replicas share only PostgreSQL and
Redis. A mutation is one PostgreSQL transaction (`DataSource.transaction` or
`AdminMutationService.mutate`, which writes the audit row in it); rows are
locked with `FOR UPDATE`/`FOR SHARE`, otherwise isolation is READ COMMITTED.
Redis is called from guards and, for the unblock, from inside a transaction.
The skills' tools are started by coding agents, share files with one another and
with nobody else. They are vendored twice, byte for byte the same, under
`.agents/skills` and `.aider-desk/skills`; the models are of both, and
`PROJECT.json` names lines of the first copy.

What makes each component correct: workspaces keep an active owner and grant
nothing without authority held at the commit; a ledger's balance is the sum of
its entries, each key applied once; an unblock resets a counter exactly once
and never a newer block; a session's refresh token rotates once and a revoked
session authorises nothing; the last active administrator stays; a logout is
final for its tab and a clear for the dashboard; persisted documents are whole
and replaced on demand only; a search answers from tables as they are, and a
design made from audited tables is one they mean.

## Modules

| Modules | Model | Checked by | Proved in |
|---|---|---|---|
| `Workspaces` | workspaces, memberships, invitations, the trigger, account status changes | `ws`, `ws_liveness`, `ws_downgrade` | `WorkspacesProofs` |
| `CreditLedger`, `AccountCredits` | abstract ledger; dialog and adjust transaction that implement it | `credits` | `AccountCreditsProofs` |
| `LoginUnblock` | guard, unblock, workers, Redis scripts | `unblock_*` | `LoginUnblockProofs` |
| `Accounts` | accounts, sessions, mailed links, the administration console | `accounts`, `accounts_self_deletion` | `AccountsProofs` |
| `BrowserSession` | session rows, the cookie jar, tabs with shared refreshes and waiting requests | `parts` | `WebSessionProofs` |
| `DashboardCache` | versioned cache against clears | `parts` | `WebSessionProofs` |
| `ConnectionPool` | two connections per profile update | `parts` | |
| `DocumentStore`, `DesignFiles` | abstract store; persisting runs that implement it | `parts` | `AgentToolsProofs` |
| `UiSetup`, `ImageJobs` | set-up of a project by two agents; batches of logos | `parts` | `AgentToolsProofs` |
| `SearchCache`, `StackSearch` | caches of a searching process; generations of a framework | `tables` | `TablesProofs` |
| `Bm25`, `Ranking` | scores; thresholds, suggestions and retries | `tables` | `TablesProofs` |
| `StyleCatalogue`, `Palettes`, `PageOverrides` | audited style table, decision rules and the design made of them; palettes; pages | `tables` | `TablesProofs` |
| `DataAudit`, `CatalogAudit` | the audit as a run that faults cut short; fonts and provenance | `tables` | `TablesProofs` |
| `Decks`, `SlideAdvice` | generated decks and their validator; advice slide by slide, overlay colors | `tables` | `TablesProofs` |
| `IdentityBrief`, `Mockups`, `Icons` | briefs, prompts and presentations; sets of mockups; icons | `tables` | `TablesProofs` |
| `Skills` | what the tools of a skill promise together | `tables` | `TablesProofs` |

`DataLemmas` belongs to no part: it proves what sums over functions, concatenations,
least numbers and ranks are, for `AccountCreditsProofs` and `TablesProofs`. The
library's induction theorems take an operator as a parameter, which the provers
cannot instantiate, so each of these facts is proved from a least counterexample:
among the finite sets without it there would be one with the fewest elements
(`SmallestSet`, from the well-foundedness of `<` on the numbers), among the
numbers a least (`LeastNumber`), and taking an element away, or a step back,
refutes it.

`MCWorkspaces`, `MCAccountCredits`, `MCLoginUnblock` and `MCAccounts` give one
module its instance. `MCParts` and `MCTables` put several modules that share no
state side by side: the initial state picks the one that runs, the others stand
still, so that a run has as many states as its parts have together.

### Workspaces

A transaction `t` is `pc[t]` (the statement it is about to execute), the request
`req[t]` and what it has read (`actorRole`, `todo`, `asOf`). A step is one
statement with the row lock it may wait for; writes appear in the last step,
which commits and releases. Locks are explicit: `wsLock` for `FOR UPDATE` of a
workspace row, `userLock` with PostgreSQL's four modes for the account row
(`S` for changeMember's `FOR SHARE`, `N` for an update, `K` for a foreign key's
check), `adminLock` for the administrator role's row. `Authorize` is
`authorize(...)`, `LockUser` the account lock of create, changeMember and the
account mutations, `ChangeCheck`/`ChangeDenied`/`RefuseLastOwner`/`ChangeCommit`
the branches of changeMember, `Invite*`, `Accept*`, `RevokeCommit` and
`RenameCommit` the rest; `OpenTrigger`, `VisitOwned` and `CommitStatus` are the
cursor loop of `protect_workspace_owner`, `DeadlockVictim` PostgreSQL's detector
and `Fail` a timeout, a lost connection or a crash, after which nothing of the
transaction remains. `Expire` and `ChangeEmail` are the environment.

`MCWorkspaces` groups instances in *scenes*: a starting point that the operations
reach, the requests made from it and how many transactions are open. A run
checks several scenes at once.

| Run | Scenes | Shows |
|---|---|---|
| `ws` | `ownership`: three transactions, two owners leave, a member is promoted, accounts are suspended; `lifecycle`: two workspaces with the same owners, all account operations; `governance`: role changes, renames and suspensions in pairs, by an owner, an admin and a member; `creation`: from empty tables, limit 2; `invitations`: two ids, two addresses, limit 1; `addresses`: accounts change address, join, change role, leave and join again | `TypeOK`, `ActiveOwner`, `PromotedIsActive`, `AuthorityAtCommit`, `CreateWithinLimit`, `PendingInvitations`, `InvitationFinal`, `AcceptanceAdmits`; waits are circular only between a status change and a membership change (`CyclesAreMixed`) |
| `ws_liveness` | `ownership` and `lifecycle` with two transactions: membership changes against each other and against suspensions, restorations and deletions | `TransactionsEnd` |
| `ws_downgrade` | `downgrade`: one transaction at a time | a disagreement with `docs/saas-boilerplate.md`, see "findings" |

Two or three concurrent transactions are enough for the races of the code: each
is between a check and a commit of one transaction and the commit of another; a
third one is the second co-owner or the account administration. Limits are 1 or
2 instead of 20 and 100, so that they are reached. Fairness: strong for the
statement of a transaction (PostgreSQL queues waiters of a row, so a row that is
free again and again is granted) and weak for the deadlock detector.

Proved in `WorkspacesProofs`, for any sets of accounts, workspaces, invitations
and transactions: `TypeCorrect`; `ActiveOwnerAlways`; `PromotionsAreActive`. The
invariant `ActiveOwner` is not inductive: a transaction between its check and
its commit relies on what the rows it has locked keep unchanged. `OwnerInv` adds
that: after the check of changeMember the count it made is still true because the
workspace's row is locked, the target of a promotion is active because its row is
share-locked, and while the trigger runs each workspace it has visited stays
locked and has another active owner. The proof has one lemma per action.

`AuthorityIsCurrent`, `InvitationsAreFinal` and `AcceptancesAdmit` rest on
`AuthorityInv`: whoever is past `authorize` holds the lock of the workspace row
under which every role is changed, so the role it read is the present one; an
invitation that is being accepted is pending, and its workspace is locked by the
acceptance. `LinksAreBounded` and `CreationsAreLimited` count, so `LimitsInv` adds
that the tables are finite, that one link per address is pending, and that what a
transaction counted under its lock has not grown since: links only expire and
workspaces of an account are only added under the lock of the account.

`CyclesAlwaysMixed` speaks of every set of transactions
that wait for one another, of whatever size. Its invariant `OrderInv` says at
which statement an operation may hold which lock. A membership change that holds a
workspace's row waits for an account's row at most, and no membership change that
holds one of those waits (`MembershipWaitsEnd`). Status changes lock the
administrator row, then account rows, then workspaces by ascending id: whoever
waits in the trigger waits for one that has only later workspaces to visit
(`StatusWaitsEnd`), and since transactions are finitely many (the pool of
connections), such a chain of waits ends.

### CreditLedger and AccountCredits

`CreditLedger` is what the API promises: a set of entries keyed by idempotency
key, balances, audit rows; `Enter` writes all three at once, `Tell` answers a
replay. `AccountCredits` has the statements of `adjust` (balance row insert, key
claim, replay check, increment, commit with the waits on the three unique or row
locks) and dialogs that may lose an answer, stay open, be changed and submitted
again under their key. `ImplementsLedger` is the refinement under the mapping in
`AccountCredits`.

`credits` has two programs that share a key and two dialogs with keys of their
own; one of them has opened a pair before the others start, so that they meet a
pair with a balance row and one without. Two requests are under way, with the
amounts -2, 2 and the refused 0, and balances go up to 2, so that both ends of
numeric(20,4) are met by requests that each fit.
`RequestsEnd` shows in the same run that waits are not circular. Fairness: strong
for statements that wait for a row, as above.

Proved in `AccountCreditsProofs`: `CreditsTypeCorrect` (so no balance leaves the
numeric range) and `CreditsImplementLedger`, for any number of submitters, keys,
requests and amounts. The inductive invariant relates a request that has claimed
a key to the absence of the committed entry, and one that is about to replay to
its presence. `RetriesNeverConflict` adds `FirstPayload`: what a dialog sends under
its key, and what is entered under it, is what it submitted first.

`BalancesAreSums` proves `BalanceIsSum` from the same invariant. The one fact it
needs of sums is that an entry more adds its amount (`SumAdds` of `DataLemmas`).

### LoginUnblock

A process is a call of `unblock` or a worker. `ReadBlock`, `InsertRequest`,
`FindPending` are the first transaction; `LockRequest`, `Expire`,
`ResetCounter`, `Complete` are `process`; `Scan` is a round of the timer. A row
locked by a process (`Holders`) is skipped by others. `ResetUnheard` is a Redis
command whose reply is lost, `Fail` any timeout or crash: the transaction rolls
back, Redis does not. Time is two steps of age per request (a day, seven days);
the call that made a request does not last a day, a transaction does not last
six. Redis that loses keys (flush, eviction) and the capacity limits of disabled
mode are not modelled: `docs/operations.md` requires persistence and no eviction.

`unblock_safety`: one address, one call at a time, two workers, two requests, two
block generations: the smallest instance in which a retry, a newer block and a
second request coexist. `unblock_liveness`: two addresses and rounds of one
request, so that one request waits behind another. Fairness: the timer fires
(weak), and a command tried again and again succeeds in the end (strong), which
is the end of an outage; nothing is assumed of attempts or of new calls.
`unblock_joined` and `unblock_expired` are two disagreements between the code's
answers and what it says of them, see "findings".

Proved in `LoginUnblockProofs`, for any sets of addresses, calls, workers and
requests: the types and all four properties of `unblock_safety`. None of them is
inductive: a reset is the first one because the marker outlives every process
that may still come to it. `UnblockInv` says so: a request's marker is there from
its reset until the request is too old to be reset again (`Marked`), a locked
request belongs to one process and is young where it is about to be reset
(`Locks`), a call that made its request sees it through (`Owned`), and no block
generation is used before it exists (`Gens`).

### Accounts

One module for what shares the account's row: the account's own requests
(`AuthService`, `UsersService.updateAtomically`), the console
(`AccountsService`), the session rows and the links sent by mail. `Begin` is what
a request reads without a lock: the credentials of a login, session, account and
role of a request with an access token (`JwtStrategy.validate`), the subject of a
link. `LockAdministration` and `LockUser` take the two row locks in the code's
order; `LockUser` decides with `Accepted`, all that is tested under the row's
lock; `CountAdmins` is the count of `save`. The commits are one action per
operation. `SelfDelete` takes no lock and reads nothing again: it is the one
UPDATE of `softDelete`. A password is the number of the change that set it, a
link remembers the password or the version (`updatedAt`) it is signed with, a
session the password it was opened with. Two changes of a row in the same
millisecond count as two versions, and tokens and links do not grow old.

| Run | Scenes | Shows |
|---|---|---|
| `accounts` | `administration`: two administrators change each other, a third account comes and goes; `credentials`: logins, password changes and resets of one account against the console; `links`: an account from its registration on, with its links, profile changes, suspension and self-deletion | `SessionsAreCurrent`, `ConsoleKeepsAdministrator`, `PasswordReplacedKnowingly`, `ActivationIsFresh` |
| `accounts_self_deletion` | `selfDeletion`: an account is promoted while its own DELETE is under way | a disagreement with the README of the repository, see "findings" |

Two requests at a time are enough for a check and a commit to be separated by
another commit; a longer race is a sequence of such steps. Two changes per
account (`MaxVersion`) let a link or a session be two states old; two links and
three sessions let an old and a new one coexist.

Proved in `AccountsProofs`, for any sets of accounts, sessions, links and
requests: the types and all four properties of the run, under the names
`AccountsTypeCorrect`, `SessionsAlwaysCurrent`, `AdministratorRemains`,
`PasswordsReplacedKnowingly` and `ActivationsAreFresh`. `AccountsInv` adds to them,
per request, that what `Accepted` tested still holds at the commit because the
row is locked, that a console request past its first statement holds the
administrator role's row, and that the other administrator it counted is still
there. Each commit is shown `Safe` by itself; `Preserved` turns a safe step of one
request into the invariant of all the others. `ConsoleKeepsAdministrator` excludes
deleted administrators, which only the race of the finding produces.

### BrowserSession

A browser of several tabs, its one cookie jar and the session rows behind it. A
refresh (`exchange`) is sent, served (`Rotate`, which succeeds only with the hash
of the row) and answered in three steps, so that answers overtake one another;
a request (`ask`) that got a 401 waits for the refresh its tab shares and is sent
again, or logs out. `Logout` counts up the generation: a refresh remembers
whether its generation is still the present one (`Current`). Tokens expire,
answers and logouts are lost, sessions are revoked by others at any time.

`parts` checks three scenes: somebody logs in again while a refresh is under way,
two requests share a refresh, two tabs race a rotation; two logins and two
rotations (three in the race of tabs) let each of them meet an older one.
`LogoutStays`, `JarKeepsUp` and `OneRefresh` quote the client's documentation
(`docs/api-and-security.md`), and are proved in `WebSessionProofs` for any
numbers of tabs, requests, sessions and rotations. `OneRefresh` is stated for tabs
that have abandoned no refresh: after a logout has, the finalizer of the abandoned
one clears the record of its successor, and "Requests within one tab share a
refresh operation" (`docs/api-and-security.md:9`) does not hold of the next.
`JarSound`, its invariant, relates each refresh that is sent, served or answered
to the hash of its row: a rotation makes every cookie sent before it unusable, so
at most one answer can bring the newest. `AskEnds` assumes that a refresh that
was sent is answered or fails, and that a request that was sent is (weak
fairness: the browser's connections end).

### DashboardCache and ConnectionPool

`DashboardCache` is `RedisService.cached`: version, value, load and store are four
steps between which `clear`, changes of the database and failures of Redis fall;
a value is known by the state of the database it was loaded from. `ClearIsFinal`
compares what a reader is shown with the last clear before it asked. Two readers,
a clear and two changes are enough for a load before the clear to be stored after
it. `WebSessionProofs` proves it for any number of readers, clears and
changes: what is stored under the present version was loaded after the clear that
made the version, and whoever holds an older key began before that clear.

`ConnectionPool` has two connections and three updates, two of them of one user,
each of which may need a second connection while it holds the first.
`UpdateEnds` (in `WaitsEnd`) holds because the pool's time limit ends the wait
(weak fairness of each update's step, the time limit being one): updates may
fail, none waits for ever.

### DocumentStore and DesignFiles

Each run of `search.py --design-system --persist` is a process; a step is one call
to the file system: temporary file, write with fsync, `os.replace` with `--force`
and `os.link` without, unlink in `finally`. Writes fail, runs are killed
anywhere; project names are sequences of characters of which `safe_slug` makes
directories, so that two projects may meet in one. `DocumentStore` is what the
skill's manual promises: a reader finds whole documents only, and only a run with
`--force` replaces one. `parts` has two agents with project names of one slug and
three runs, one killed and one failing.

Proved in `AgentToolsProofs` for any agents, projects, pages and numbers of runs:
`RunsImplementStore`, the refinement, and `RunsAreSound`, that reports agree with
what is there. `FilesInv` has, for each run, what it has written so far: its
temporary file, the master under a page it is writing, and every path that it has
created or is about to report (`ClaimInv`), honored by the file until somebody
forces another upon it.

### UiSetup and ImageJobs

`UiSetup`: two agents look for a Tailwind configuration, or for components, and
then write or call npx. `SetupSound` is about what was there when a run began;
what the other agent writes between check and write may be replaced.
`ImageJobs`: a batch of logos at three providers, with failing calls, hanging
predictions, lost downloads, earlier files and kills. `JobsSound` says that a
variant is paid once, that a returned path holds this batch's whole image, that a
time-out follows the last poll, and that every style asked for was tried;
`BatchEnds` (in `WaitsEnd`) that a batch ends (weak fairness of the process: its
time limits and the bound on polls). Two styles, three images and two polls reach
each limit.

Both are proved in `AgentToolsProofs`, for any numbers of agents, styles, images,
polls and batches. `SetupAlwaysSound` needs that what a run found when it began is
still in the project (`Knows`), whatever others do: nobody removes a
configuration or a component. `JobsAlwaysSound` needs where a batch stands
(`BatchInv`): variants before the current one are settled, those after it are
untried and unpaid, and the stages of the current one follow each other.

### The tables

The tools that search, audit and compute take rows, not text: a document is a
sequence of words, a color its luminance in thousandths, a style row its status,
its links and what its other columns are for. `tables` runs each on small tables
that contain, for every rule of the audit, a row that passes and one that does
not, and checks what a run makes of tables the audit accepts. Searches may find
nothing: then a design has the palette, the style and the sections that
`generate()` writes out (`Fallback`, `NoId`), and, without a product, the default
reasoning, whose styles and pattern no audit looks at. Two faults at a time
spoil the data of an audit; a row that breaks a contract may also raise an
exception (`MayRaise`), since a short row holds None. An SVG is the attributes
that its size is written to, those of child elements included. Decks
have 2, 3, 4, 5, 8 or 9 slides, both sides of each length at which the advice
changes.

| Property of `tables` | is the conjunction of |
|---|---|
| `CacheSound` | `SnapshotIsReal`, `IndexFits`, `AnswerIsFresh`, `OneGeneration` of `SearchCache`: three writes to two tables, three searches, steps of one stat or half a read |
| `SearchSound` | `RetryAnswers`, `FindsTheMatching`, `MoreIsNoLess` of `Ranking` |
| `DesignSound` | `StyleIsLive`, `RulesAddUp`, `PatternIsKept`, `NamedIsLed` of `StyleCatalogue`; `DerivedPasses`, `PaletteAgrees` of `Palettes`; `TypeOnlyRises`, `NeverEmpty` of `PageOverrides` |
| `AuditSound` | `AcceptsOnlySound`, `HidesOnlyItsOwn`, `LosesReport` of `DataAudit`; `FontsCanBeHad`, `ProvenanceBinds` of `CatalogAudit`; `ModernNeverOlder`, `AuditedIsServed` of `StackSearch` |
| `SlidesSound` | `FullBleedApart`, `ContrastBreaks`, `OverlayIsColor` of `SlideAdvice`; `DeckRefused`, `ExitIsHonest` of `Decks` |
| `ImagesSound` | `OneStyle`, `ShownAsMade` of `IdentityBrief`; `SetIsUniform`, `MockupsKept` of `Mockups`; `IconsReturned`, `SizedUnlessStroked` of `Icons` |

Every conjunct, and those of `FilesSound`, `SetupSound` and `JobsSound`, has a
mutant of its own in `PROJECT.json`.

All are proved in `TablesProofs`, for tables of any content and
size, any projects, queries, brands and numbers of searches:

- `CacheAlwaysSound`: `CacheInv` says that what is kept under a signature is what the
  table was then (`CachesReal`), that what a search reads is no older than the
  signature it took before and no newer than the table is (`Between`), and what
  each step may rely on (`Informed`, `Planned`). A search reads a table in halves,
  so that only the comparison of the signatures makes the halves one version.
- `AuditAlwaysSound`: `AuditInv` follows the audit from file to file: each fault it
  is past is in the report, or its file is there as unusable (`Reported`), or a
  report that shadows it is (`Explained`): `FilesTold`, `ContractsTold`,
  `CatalogsTold`, `JudgedTold`, `ProvenanceTold`; an exception has a fault other
  than a lost file, or the summary met one (`CrashCaused`). `VerdictInv` and
  `StackInv` say that a verdict and an answer are of audited tables.
- `DesignsAlwaysSound`: in `CatalogueInv`, `PalettesInv` and `OverridesInv` a design is
  what the tool makes of audited tables and the query; the work is in what the
  choices return. `FlattenFacts` says what the rows and rules of a concatenation
  are, `LeastNumber` that there is a first one of those that qualify. The fallback
  fails the audit because it has no on-colors, and its text is readable.
- `ImagesAlwaysSound`: `MockupInv` has the one logo of a set and the names that are
  not taken twice, `BriefInv` which text each way of making an image searches the
  styles for, `IconInv` that the icons left to save fit the count and that a file
  is what was made of the drawing. No assumption says that a row finds itself.
- `SlidesAlwaysSound`: `DecksInv` that a page is what the generator made of some
  slides, `AdviceInv` exactly which slides so far are full-bleed and which break.
- `SearchesAlwaysSound`: `RankInv` says that an answer holds what its search found. A
  score is a sum of weights, each a fraction that is positive where its word occurs
  and grows with the frequency (`FractionFacts`), so a row scores where it shares a
  token with the query (`ScoreFacts`) and no less for more of each
  (`ScoreIsMonotone`). The first `limit` rows of a ranking are that many, or all that
  score, because each row has more before it than the one ahead of it
  (`ForemostAreCounted`). A suggested term is a word of the table, which no routing
  keyword rewrites, so that its retry searches for the term that passed the
  threshold (`KnownIsNotRewritten`, `SuggestionsLeadOn`).

Scores are computed in thousandths, rounded up, so that whatever is positive in the
code's floating-point numbers is positive here; `Ln` stands for its logarithm.

The models show where the tools do less than their texts say, and the properties
are stated for what they do:

- The audit (`validate_data.py:1004`, "without terminating the process") ends in
  an exception when a file that the catalog summary reads is missing or unreadable;
  `react-performance.csv`, `app-interface.csv` and `landing.csv` are not among them
  (`LosesReport`). Rows of `google-fonts.csv` are judged only if the licenses were
  loaded (693), licenses and pairings only if the counts fit (555-558), icons only
  if the snapshot's metadata do (608-613): `HidesOnlyItsOwn` says that such a
  report is the only thing that hides a fault of another file. Cells that a short
  row lacks and JSON of another shape may end the audit with an exception too.
- A search that finds no palette leaves light constants without on-colors, in dark
  mode as well (`design_system.py:228-229`, `544-564`), though the palette is to
  agree with the mode (490-492); so does the best hit if all hits are light
  (`PaletteAgrees`).
- Full-bleed slides: "Never consecutive" (`slide_search_core.py:306`) fails in decks
  of three to eight slides, "Premium decks use 2-3" (304) where all four positions
  have strong emotions, curiosity counts besides the beats that are listed (309),
  and nothing enforces the second rule (`FullBleedApart` says exactly this much).
- Pattern breaks: "when switching between frustration and hope" (339) reads only the
  previous emotion, so that the slide after every frustration, hope or fear breaks
  though the emotion goes on; the lists of contrasting emotions are never read.
  `ContrastBreaks` says that a switch always breaks, and where else a break is.
- An Access Card, which has no entry, is presented as a car (`render-html.py`). A
  single mockup, and the prompts of `--set --prompt-only`, use `--style` and no
  brief (`cip/generate.py:451`, `470`).
- A size for an icon ("Adjust SVG viewBox", `icon/generate.py:178`) is written to
  the width of every child element and stroke; such a width keeps an `<svg>`
  without one of its own from being sized, and an `<svg>` with a height alone
  gets a second (181-185).
- The diamond of every generated solution slide is refused by the validator
  (`generate-slide.py:5`, "ALL styles MUST use CSS variables"); started in the root
  of the repository the validator finds no deck and passes. Two decks generated in
  one minute share a file.
- A brand whose name contains an entry ("Letterhead Press") is described as that
  entry in presentations; a style's redirect may lead to a deprecated row; a query
  that names an older version to migrate from, and no newer one, is answered with
  deprecated rows.
- Two writes to a table within one tick of the clock and of equal size have one
  signature; a version stands for its signature here, so `SearchCache` does not
  have this case. A transient error in reading the products leaves the built-in
  keywords in use until the file changes again.

## Only model-checked, and why

Liveness under fairness (`TransactionsEnd`, `RequestsEnd`, `PendingEnds`, `AskEnds`,
`WaitsEnd`) is out of the prover's reach. Every other property of the passing runs
is stated by a theorem.

Assumptions of the proofs are the ASSUMEs of the modules, and TLC evaluates them in
the runs: bounds are numbers, null elements are no elements, numeric limits contain
zero, `DesignFiles` has a project. Accounts and transactions are finitely many (a
table, a pool of connections), and so are the styles of the catalogue. Rows of
tables have the columns the readers expect, and `NoColor` is no luminance.
`BriefAssumption` says what texts and rows there are, that the entries of
`DELIVERABLE_INFO` are different and that the entry written for a deliverable is in
its name; which rows a search finds, even for their own names, is left open.
`RankingAssumption` says that a word `_SYNONYMS` puts for another is not replaced
again (none of its values is a key), that the routing keywords of a domain are
finitely many, and `Bm25Assumption` that the logarithm of what is greater than 1 is
positive.

## Findings and hazards

`PROJECT.json` lists under "findings" four disagreements between code and
documents, each found by a run that expects the violation (`ws_downgrade`,
`unblock_joined`, `unblock_expired`, `accounts_self_deletion`), and under "hazards"
what is hard to test, with the properties that cover it. Three have none: the
listing of blocks that may disagree with Redis, answers of an older session that
reach the next one, and the lists of a page that take answers in any order. No
document says what should hold of them. Nor is there a property of the rule that
the only active owner can neither remove nor demote a suspended co-owner: it is
one guard (`RefuseLastOwner`).

## Not modelled

File uploads, mail, observability, configuration, catalogues and presentation
have no state machine beyond one row or one call; `PROJECT.json` gives the reason
for each. Of the skills' tools, the formatting of answers and documents
(`format_ascii_box`, `format_markdown`, `format_master_md`), `load_env` and the
HTML and CSS of slides and presentations are left out, and so are checks of the
wording of single cells. Message texts, validation of formats, hashing and
signatures are abstracted to equality of values. Expiry of refresh tokens, the
per-replica memory of Redis' disabled mode and permissions of roles other than
the administrator's are not modelled.
