# A formal model of Urlytix

Urlytix is a URL shortener with workspaces and click analytics: a NestJS API (`apps/api`) over
PostgreSQL through Prisma, a BullMQ queue on Redis for click tracking, and a Next.js client
(`apps/web`). The API is one stateless process type, run any number of times; all lasting state is in
the database, the queue, and what the browsers keep: cookies, cached answers and forms. This directory
holds TLA+ models of both sides, the TLC configurations that check them on small instances, and TLAPS
proofs that hold for every value of the constants.

The models share one view of the program. A handler is a sequence of awaited calls. Between two
of them any other request, worker or clock tick may run, and nearly every handler **reads a row,
decides, and later writes by id without testing the row again**. So each module of the API keeps, for
every request in flight, what it has read (`req[r]`, `call[c]`, or `worker[w]` for a job), takes the read
and the write as separate actions, and asks what the write may still destroy. The modules of the client
make the same point about answers: a page asks, goes on, and **puts the answer where it belonged when the
question was sent**. Where a property cannot hold of an overtaken request or of a late answer, the model
records *what was overtaken* in a history field (`missed`, `excused`, `late`, `shaky`, `moved`) and the
property names it as the only excuse. The properties are therefore statements of two kinds at once: the rule
holds for every sequence of complete requests, and the listed race is the only way past it.

## Inventory

| Part | State | Operations | What is hard | Modelled in |
|---|---|---|---|---|
| Sessions, passwords, suspension: `auth/auth.service.ts`, `admin/admin.service.ts` | `User`, `RefreshSession`, `PasswordResetToken`, signed two-factor challenges | register, login, verify, refresh, logout, revoke, forgot/reset/change password, suspend | checks before bcrypt and before a transaction; sweeps of sessions against sessions being issued | `Sessions`, `AccountStore` |
| Two-factor secrets and backup codes: same file, settings page, login page | `totpSecret`, `totpEnabledAt`, `TotpBackupCode`; what a tab shows | set up, enable, disable, look at the status, spend a code | check-then-write on the secret and on a code; answers of another tab's time | `TwoFactor` |
| Access tokens and guards | none | accept or refuse a call | a refused call is where the client refreshes | `BrowserSession` (its start) |
| Click ingestion: `links/click-ingestion.service.ts` | BullMQ jobs, `ClickEvent`, `DailyLinkStat` | enqueue, persist, retry, give up | at-least-once delivery, crashes, lost leases, a connection that is given up, midnight, deletion under a worker | `ClickIngestion`, `ClickLedger` |
| Links and redirects: `links/links.service.ts` | `Link`, unlock cookies | create, edit, disable/activate, list (marks expired links), delete, visit, unlock | four handlers write the status from stale rows; time passes | `Links` |
| Workspaces, members, authorization: `workspaces/*.ts` | `Workspace`, `Membership`, `Link.workspaceId` | create, remove, add/update/remove members, write links, backfill | authorization read long before the write; the removal's two statements; the last-owner count | `Workspaces` |
| Custom domains: `domains/domains.service.ts` and its panel | `Domain`, cached lists | create, verify by DNS, remove; which links a host opens | a DNS lookup between read and write; a workspace that goes | `Domains`, `HostRegistry` |
| Analytics: `analytics/analytics.service.ts` | none | ranges, bars, several queries for one answer | days of two zones; queries that do not see one state | `Analytics` |
| Platform administration: `admin/` and its page | `User.platformRole`, `disabledAt`; cached lists and details | suspend, change the role, promote at start-up, list, select | promotion between a check and a write; lists marked while fetched | `AdminUsers`, `Sessions` |
| API keys | `ApiKey`, the secret shown once | create, revoke, list | the secret belongs to one workspace's panel | `WorkspacePanels` |
| Web client, session refresh: `lib/api.ts`, `proxy.ts` | the cookie jar, tabs, calls | call, refresh, repeat, sign in and out, redirect | refreshes sent together, lost answers, signing out under a call | `BrowserSession` |
| Web client, workspace selection and cached resources: `contexts/`, `workspace-panels.tsx` | the list of workspaces, the selected one, the stored one, cached lists | select, create, rename, delete, manage members and keys | answers out of order and under another workspace | `QueryCache`, `WorkspaceSelection`, `WorkspacePanels` |
| Web client, pages that show links: `links/page.tsx`, `links/[id]/page.tsx`, `datetime-picker.tsx` | cached lists and links, filters, page number, form, dialogs | filter, turn pages, change status, delete, edit, pick a date | a page that empties; a form filled from a cache that changes | `LinksPage`, `LinkEditor` |
| Webhooks and billing | one table each | one role check, one statement | nothing acts on the rows | no |
| Other pages, components, translations | | | show what one query returns | no |
| Configuration, mail, metrics, logging, middleware; shared packages, scripts | none that matters here | | | no |

The parts interact through rows: `Links` decides that a visit is tracked and hands it to
`ClickIngestion`; deleting a link (`Links`, or `Workspaces` when its workspace goes) cascades to the
rows of `ClickIngestion`, which `Analytics` reads; every link write is authorized by the memberships of
`Workspaces`; a verified row of `Domains` decides which links a hostname opens; suspension in `AdminUsers`
sweeps the sessions of `Sessions`, whose refresh rotation `BrowserSession` meets from the other side. Each
module models the other side of its own interface as freely as the code allows: in `ClickIngestion` a link
may vanish at any time, in `Links` any request may come at any time, in `Workspaces` the content of a link does not matter.

## Modules

| Module | Models | Proofs | TLC |
|---|---|---|---|
| `Sessions` | accounts, refresh sessions, challenges, reset links | `SessionsProofs` | `MC_Sessions` |
| `AccountStore` | abstract: accounts, open sessions, good reset links, one moment for each operation | | |
| `TwoFactor` | one account's two-factor, its tabs and login pages | `TwoFactorProofs` | `MC_Settings`, `MC_TwoFactor` |
| `ClickLedger` | abstract: two counters per link that move together | | |
| `ClickIngestion` | the pipeline that implements it | `ClickProofs` | `MC_ClickIngestion` |
| `Links` | links, their status, expiry, password, visitors | `LinksProofs` | `MC_Links` |
| `Workspaces` | workspaces, memberships, link ownership, backfill | `WorkspacesProofs` | `MC_Workspaces` |
| `Domains` | custom domains, their panel, visits by hostname | `DomainsProofs` | `MC_Domains` |
| `HostRegistry` | abstract: hostnames claimed and proven, one moment for each operation | | |
| `Analytics` | ranges, charts, and the parts of one answer | `AnalyticsProofs` | `MC_Analytics` |
| `BrowserSession` | one browser's cookies, calls and redirects | `BrowserProofs` | `MC_BrowserSession` |
| `QueryCache` | one cached query: operators on an entry (external: TanStack Query) | `BrowserProofs` | |
| `Subsequences` | what filters and paging leave of a list: operators | `BrowserProofs` | |
| `LinksPage` | the page that lists links | `BrowserProofs` | `MC_Links` |
| `LinkEditor` | the page of one link, its form and date picker | `AnalyticsProofs` | `MC_Analytics` |
| `AdminUsers` | users' roles and suspension, the administrators' page | `BrowserProofs` | `MC_Settings` |
| `WorkspacePanels` | the panels of members and of API keys | `BrowserProofs` | `MC_Settings` |
| `WorkspaceSelection` | which workspace the client shows | `BrowserProofs` | `MC_Domains` |

An `MC_` module that instantiates several specifications starts all of them and lets one move (`part`
says which): the parts share a run, not a behaviour.

**Sessions.** `account`, `password`, `twoFactor` are the columns of `User`; `session` and `token` are
tables; `challenges` the unexpired two-factor JWTs in clients' hands; `req[r]` a handler between its
check and its write. A refresh cookie names its row. `Refresh` and `Rotate` are the two halves of
`refresh`, `Login`/`VerifyTwoFactor` and `IssueSession` those of a login, `ForgotPassword` and
`CreateResetToken` the two statements that two requests can interleave, `ResetPassword`/`CommitReset`
and `ChangePassword`/`CommitChange` the halves before and after bcrypt. Transactions are otherwise
taken as one step at their commit: a sweep whose snapshot precedes a concurrent refresh's commit is
the sweep ordered before `Rotate`. Expiry of a row is an action that may happen at any time. History
in a session: the session it was refreshed from, the password its lineage was authenticated with, and
what its request missed (`"ended"`: the row it had checked ended; `"swept"`: all the user's sessions
were; the latter is inherited). Access tokens outlive everything by up to 15 minutes, the guard being
stateless, and are not modelled here.

`AccountStore` states what all this is for: sign-up, sign-in, exchange of a cookie, change and reset of a
password, mailing of a link, suspension, each at one moment and on what is true then. A session is an open door
while its row is live, a link is good while its row is. `StepsImplementStore` says that every step of
`Sessions` is one of the store's, or nothing that the store can tell, or a `LateWrite`: the write of a
request whose check was overtaken (`Outdated`: its row ended or expired, the user's sessions were swept, another
link was made meanwhile). Of a password's change the store asks only that somebody is signed in, so it could not tell a
reset by a void link from a change; that is `SpentLinksAreInert`.

**TwoFactor.** `user` has the two columns, `code[k]` a backup code that stands for its batch, `app` the secrets the owner's
authenticator holds, `tab[t]` what a settings tab shows (status, QR code, codes), `login[c]` a login page that
has a challenge, `req[p]` the handler a page waits for, with what it read. `shaky` records that a write of
secret or codes was decided on a row that changed meanwhile.

**ClickIngestion.** `job[c]` is a visit's life in BullMQ, `worker[w]` a job slot of some API process (or a
request, when there is no Redis and `Queued` is FALSE), `events` and `stats` the two tables. `Start` takes a
job and chooses the rollup day, `InsertEvent` and `Commit` are the two statements of the transaction (the
foreign key makes a concurrent `DeleteLink` wait), `Complete` and `Fail` the outcomes BullMQ sees, which a
slot that lost its lease no longer affects. `LoseLease`, `Crash`, `RecoverStalled` and `Promote` are
BullMQ and the operating system, modelled from the options the service passes; `main.ts` enables no
shutdown hooks, so a deployment is a crash. `TrackClick` includes the swallowed error of `queue.add`.
`connected` says which slots still have their connection to Redis: `retryStrategy` returns null after three
tries, about 1.2 seconds, so a longer outage ends the connection of a process for good (`Disconnect`). It
lives, answers redirects and finishes the job in hand, but takes no job and runs no stalled check until it is
replaced (`Restart`).

**Links.** `link[l]` is the row, `now` a clock that only `Tick` moves, `tokens` the unlock cookies in
browsers. `UpdateLink`/`WriteLink`, `UpdateLinkStatus`/`WriteStatus` and `FindExpired`/`WriteExpired` are
the halves of the handlers; `Visit`, `Unlock` and `Redirect` those of the public pages, which also mark
the link expired. A hash stands for one call of bcrypt, so the same password set twice gives two hashes
(and cookies of the first do not open the second). `excused` remembers links that were set EXPIRED by
hand or by a request whose row was written meanwhile.

**Workspaces.** `role[w][u]` is the membership table, `link[l]` who created a link and where it is. Members
are managed in up to four awaited steps (`ManageMember`, `LookAtTarget`, `LookAtActor`, `WriteMember`),
added in two (`AddMember`, `UpsertMember`); `Remove`, `CountOwned`, `PurgeLinks`, `RemoveWorkspace` are the
steps of `remove`, the last two being the statements of its transaction, between which `InsertLink` can
commit; `FindMembership` and `AdoptLinks` are the deployment's backfill. Foreign keys and row locks are
modelled where they decide an outcome: an insert into a removed workspace fails, a purged row is locked
until the removal commits, the delete of a workspace sets the links it missed free. `Fail` is any refusal
or error.

**Domains.** `rows` is the table, `dns` the rows whose token is in the DNS of their hostname, `call[c]` a
handler between its steps, `cache[w]` and `fetch[w]` the panel's list of a workspace and the load of it,
`current` the workspace shown, `visit` a visitor who came by a custom hostname, `told` what the panel was
told of. Lists are sets: their order is presentation. `HostRegistry` is what the handlers are for: a hostname
is claimed while nobody has it and proven by a token published for this very claim, each at one moment.
`LookUp` draws the date of `verifiedAt`, as `verify` evaluates `new Date()` before it sends the update, and `Mark`
commits it: of two calls the later-dated may commit first. `call[c].over` is history, the rows that others
marked since `c` drew its date, and is the one excuse that `HostsStayHome` has for a hostname that gives way.
For who owns a hostname there is no excuse: the unique column and the updates by id make every interleaving of the awaited
steps one of its behaviours (`HostsImplementRegistry`).

**Analytics.** Time is in hours, a range begins and ends with days of the server's zone, and the bars of the
chart are UTC days, as in `resolveRange` and `buildDailyClicks`; `zone` is that offset, as a server may have any. `ask` is
one request with the parts answered so far, read one query at a time while `events` and `links` change; `moved` is
the set of rows that came or went since the request began, which is all that the parts may differ by.
Nothing is written, so one request stands for all.

**BrowserSession.** `jar` is the pair of cookies all tabs share, `row[s]` refresh sessions,
`call[q]` a call of `lib/api.ts` on its way (cookies are attached when it is sent, and set when it is
answered), `page[t]` and `going[t]` where a tab is and where the proxy sends it. `Lose` loses an answer, or has a
refresh answered by an error, which sends the tab to the login page as a refused one does; `EndElsewhere` is any sweep of `Sessions`.

**The pages.** An entry of `QueryCache` has an answer that is shown, the answer under way, whether it is marked,
wanted or failed; `Serve` is the moment the server reads and `Arrive` the moment the page has it. `LinksPage` has the
server's rows (`store`, `due`), the view (status, search, page number), one entry for each
question that can be asked, a dialog, and the page's calls; `LinkEditor` the row, the entry, the `form` (filled from
the answer whenever that changes; an absent title as an empty one, and every save sends the title trimmed), the `picker`, and a question asked before a call. `AdminUsers` has `account[u]`, `userLists`, `details`,
the list and user looked at, and updates in two steps. `WorkspacePanels` has ranks and keys at the server, a list of each per
workspace, the panel's form with the secret of a new key, and jobs. `WorkspaceSelection` has `held` and
`title` (the server), `list` (the cached answer), `picked` (React state), `stored` (local storage, shared with other tabs), a form and the waits for
creation, renaming and deletion. What the query library does is modelled from how the pages use it, and marked external.

## Runs

Each run ends within four minutes with two workers. The instances are the smallest in which every race the module is
about can happen, and between them the passing runs take every action and every alternative of an action.

| Run | Checks | What it shows |
|---|---|---|
| `Sessions_all` | `CookiesAreSpentOnce`, `SuspensionEndsSessions`, `SessionsMatchPassword`, `SpentLinksAreInert`, `StepsImplementStore` | a cookie or reset link gives one session or one password; a suspension or a new password ends what came before it; every step that nothing overtook is one of the store of accounts |
| `Clicks_delivery` | `AttemptsAreSpent`, `RollupsAddUp`, `EventsImplementLedger`, `ClicksSettle` | repeated counting has a cause and a limit, rows and rollups agree, the pipeline implements the ledger, every visit is settled if one connection lasts |
| `Clicks_idempotent` | `ConsumerIsIdempotent` (refuted) | a delivery repeated after its commit counts again |
| `Links_requests` | `ExpiredMeansExpired`, `OldCookiesOpenNothing`, `StatusIsChosen`; `PageTypeOK`, `PagerIsHonest`, `ListIsCurrent` | what a status and a cookie mean under overlapping edits; and what the list of links shows |
| `Workspaces_all` | `RolesDecide`, `RemovalsSpare`, `LinkWritersBelong` | who may change memberships, workspaces and links |
| `Workspaces_admins` | `AdminsKeepTheirRole` (refuted) | adding a present member overwrites their role |
| `Workspaces_last` | `LastWorkspaceStays` (refuted) | two removals leave nothing |
| `Settings_pages` | `StatusIsBacked`, `ShownStatusHolds`, `CodesDecide`; `PanelsHold`; `AdminsStayEnabled`, `UsersHold` | two-factor and what its tabs show; the panels of members and keys; the administrators' page |
| `TwoFactor_once` | `CodesAreSpentOnce` (refuted) | two overlapping logins by one backup code |
| `Browser_refresh` | `JarLags`, `SignOutSticks`, `StrandedTabsLeave`, `CallsSettle` | which cookies a browser ends up with, and that its tabs are not stuck |
| `Analytics_ranges` | `ChartIsComplete`, `PartsAgree`; `EditorTypeOK`, `ShownLinkHolds`, `FormsAreHonest` | the chart shows the range in every zone, the parts of an answer agree but for rows that came or went; and what the form of a link saves |
| `Domains_panel` | `VerifiedMeansProven`, `NothingCrossesOver`, `ToldStaysTold`, `HostsStayHome`, `HostsImplementRegistry`; `SelectionHolds`, `SpacesShownHold` | who gets a hostname, which links it opens, that the handlers implement the registry, what the panel shows; and which workspace is shown and listed |

Every property of a passing run has a mutant of the code that breaks it: an operator that stands just
before the definition it replaces, marked "Mutant" (a dropped test, a sweep that misses, a day read too
late, a lost increment, a query not marked).

### Bounds, and why they are enough

The races of this code need two overlapping requests and, at most, one row that both meet, one that is
made in between, and one value that differs. Each instance has these and little more.

| Run | Sets | Bound in the cfg, by name |
|---|---|---|
| `Sessions_all` | one user (no handler relates two), two passwords, three sessions (a parent and two heirs), two reset links (one supersedes the other), two requests | `OneFeature`: three sessions of one password, or two with one challenge at a time or one reset link, or one with two reset links |
| `Clicks_*` | one visit of one link (visits do not interact but in the sums, which are proved for any number), two slots | the configured three attempts and one stall; one midnight (`LastDay`) |
| `Links_requests`, requests | one link (links do not interact), two hashes, two requests | `LastTick = 2`: an expiry can be set, passed and moved |
| `Links_requests`, page | three links, two found by the search, one to a page, two calls | `Bounded`: three lists and three requests at a time, two with the second call |
| `Workspaces_all` | three users (owner, actor, target), two workspaces, one link, two requests | `OneUserOrOneWorkspace` |
| `Settings_pages` | two tabs and a login page; two teams, two people, two keys; two accounts, one to a page; two calls | `TwoAtOnce`, `PanelsBound`, `MembersOnly`, `KeysOnly`, `AdminBound`: two things under way at once, two calls or changes by others |
| `Browser_refresh` | one tab, two calls, four rows | none |
| `Analytics_ranges`, API | two links, two clicks, zones -5, 0 and +3, four moments around midnights, ranges of up to three days | `OneChange`: rows come or go once while a request is answered |
| `Analytics_ranges`, page | a title, the same with spaces, an empty and an absent one, two aliases, two moments, two calls | `Bounded`: one field edited at a time, the picker by itself, two calls or changes by others |
| `Domains_panel`, domains | two workspaces, two hostnames, three rows, two calls | `VisitAtTheEnd`; one list loaded at a time, one workspace that is removed |
| `Domains_panel`, selection | three workspaces, one of which may be created, two waits | `Bounded`: three calls or events, two at once |

Symmetry is used in the safety runs only, over sets whose members the specifications never tell apart.
Deadlock is not checked where the model comes to rest: visits, hashes, calls and time run out in `Clicks_*`,
`Links_requests`, `Analytics_ranges`, `Domains_panel` and `Settings_pages`. The other bounds are the sizes
of the sets of rows: a used id is not used again. What a bound leaves out the proofs cover, for every safety property.

### What the refuted runs show

* `Clicks_idempotent`: `docs/architecture.md` (ADR-003) asks for idempotent consumers. The job's payload
  has no id that the insert could be unique on, so a delivery repeated after its commit, by a crash or a lost
  lease before the acknowledgement, counts the visit again. `AttemptsAreSpent` bounds how often.
* `Workspaces_admins`: `updateMemberRole` refuses to touch an owner, or an admin on behalf of an admin.
  `addMember` writes with an upsert and has neither test: given the address of a present member, an ADMIN
  makes the OWNER a VIEWER, and the workspace has no owner who could remove it.
* `Workspaces_last`: the owned workspaces are counted before the transaction. Two removals that overlap
  both count two.
* `TwoFactor_once`: `verifyTotpOrBackupCode` reads the unused codes, compares, and marks one by id without
  testing `usedAt`. Two logins that overlap are both let in by one code, of which the settings page says that
  "Each code can be used once".

### Excuses and oddities

The excuses in the passing properties are reachable, and are milder disagreements of the same kind.

* Sessions: a login or refresh that passed its check before a suspension leaves a live session behind it; two
  refreshes, or a refresh and a sign-out, with one cookie can both succeed.
* Links: an edit that clears the expiry leaves the link EXPIRED if a list marks it in between.
* Workspaces: a link inserted between the removal's two statements survives without a workspace and keeps
  redirecting until the backfill moves it. Any MEMBER may write any link of the workspace, where the client
  describes the role as managing "their own links".
* Analytics: on a server in UTC the chart begins with an empty bar more than the "last N days" it is
  labelled with; the limit of 365 bars cuts the earliest days of a longer range; the referrers of one host
  can take several rows.
* Clicks: after an outage of Redis of more than about 1.2 seconds a process takes no job again until it is
  restarted. If all processes were up then, the jobs in the queue wait, and new visits are lost with the error of `queue.add`.
* Domains: of two verifications under way the one that drew the later date can be marked first and give the short
  URLs its hostname, until the other is marked. Selecting a workspace does not drop the cached list of its domains; a creation answered before the
  first list makes a list of one row.
* The list of links: with page number 0 the query leaves the parameter out, and the API answers page 1; at -1 it refuses, and
  the pager is hidden. A change that is answered while the first list of another filter is under way leaves
  that list stale. `findMany` and `count` are not one read. The filter ACTIVE can show a link marked EXPIRED meanwhile.
* The page of a link: unsaved edits are lost when the cached link changes; a link whose expiry has passed
  cannot be saved without touching the expiry; any save of a link that was set EXPIRED by hand activates it.
  Any save of a link without a title stores an empty one, and the dialogs that name it by `title ?? shortCode` show no name.
* Selection: the answer of a deletion resets the selection even if the user had switched meanwhile; a
  creation answered while an older list is under way loses the selection, or is listed twice; the form
  of the settings keeps the old name after another's renaming.
* Panels: `updatingUserId` is freed by the answer of any row; a key created before the list was loaded is
  shown alone; `expiresAt` of a key is sent as local time without a zone; a secret is lost when the panel was
  left before its answer.
* Administration: on an empty page beyond the first the pager is hidden; the promotion at start-up promotes suspended users
  and leaves them suspended; a toggle sends the value captured when the dialog opened.

## Fairness

Two runs have liveness properties.

`ClicksSettle`: `FairSpec` of `ClickIngestion` assumes weak fairness of each slot's next step (`WorkerStep`: the process
either returns from the database call or gets an error), of each slot taking waiting jobs, of the stalled-job check
and of the end of a backoff delay: the loops of BullMQ's `Worker`. They run in a process that has its connection, and
the model disables them without one, so the fairness asks nothing of a process whose connection was given up. Nothing
is assumed of `Restart` either, and the property holds on the condition that one slot keeps its connection from some
time on: the code guarantees no more. Crashes, lost leases, outages and deletions are not fair and may never happen;
that crashes and lost leases cannot go on for ever is what the attempt and stall limits give.

`StrandedTabsLeave` and `CallsSettle`: `Fairness` of `BrowserSession` assumes weak fairness of each call's steps (a fetch is sent,
served and answered, or fails by `Lose`, which needs no fairness), of `Load` (a navigation ends), of `Request` of each tab
(a page reads when it is opened, changed or looked at again: the properties are about tabs that stay in use) and of `ExpireAccess`
(15 minutes pass). Strong fairness is assumed only of `CheckRefresh` of a
tab's calls: a refresh that is sent again and again reaches the server some time. Nothing is assumed of users, other tabs
or other devices.

The HTTP handlers promise nothing that outlives the request, and a page promises nothing of an answer that may never
come, so the other modules have no liveness property: what a page shows is stated of the moments when its calls are answered.

## Proofs

The theorems hold for all values of the constants that the modules' `ASSUME`s allow: any number of users,
requests, slots, links, attempts, tabs, calls, cached lists, any zone and any time. Every safety property that a passing run
checks is a theorem, and so are the types of the modules whose runs leave them out.

| Module | Theorems | From |
|---|---|---|
| `SessionsProofs` | `TypeCorrectness`, `SuspensionTheorem`, `PasswordTheorem`, `RotationTheorem`, `EndedTheorem`, `CookieTheorem`; `ResetLinksTheorem`; the refinement `StoreTheorem`, and `UndisturbedStoreTheorem`, `UndisturbedTheorem`, `SoundStoreTheorem` | `SessionsInv`; and `ResetsTracked`; and `StoreInv` |
| `ClickProofs` | `TypeCorrectness`, `RollupTheorem`, `RollupDayTheorem`, `RollupSumsTheorem`, `DeletedLinksTheorem`, `DroppedTheorem`, `RepeatsTheorem`, `AttemptsTheorem`; the refinement `LedgerTheorem` | `ClickInv` |
| `LinksProofs` | `TypeCorrectness`, `ExpiredTheorem`, `DisabledTheorem`, `ActivationTheorem`, `StatusTheorem`; `CookieTheorem`, `StaleCookieTheorem` | `StatusInv`; `PasswordInv` |
| `WorkspacesProofs` | `TypeCorrectness`, `ManagersTheorem`, `PeersTheorem`, `RolesTheorem`, `WritersTheorem`, `OwnersTheorem`, `OrphansTheorem`, `RemovalsTheorem` | `WorkspacesInv` |
| `TwoFactorProofs` | `TypeCorrectness`, `ShownStatusTheorem`, `StatusIsBackedTheorem`, `CodesTheorem` | `IInv` |
| `DomainsProofs` | `TypeCorrectness`, `VerifiedTheorem`, `ListsTheorem`, `RedirectTheorem`, `BrandTheorem`, `HostsTheorem`; the refinement `RegistrySteps`, `RegistryTheorem`; `ToldTheorem` | `IInv`; and `ToldInv` |
| `AnalyticsProofs` | `TypeCorrectness`, `BarTheorem`, `WholeBarsTheorem`, `OneBarTheorem`, `ChartTheorem`; `PartsTheorem`; `EditorTypesTheorem`, `ShownLinkTheorem`, `FormsTheorem` | `IInv`; `PartsInv`; `EditorInv` |
| `BrowserProofs` | `TypeCorrectness`, `JarTheorem`, `SignOutTheorem`; `PagerTheorem`, `ListTheorem`, `PageTypesTheorem`; `AdminsTheorem`, `UsersTheorem`, `AdminTypesTheorem`; `PanelsTypesTheorem`, `PanelsTheorem`; `SelectionTypesTheorem`, `ChoiceTheorem`, `SpacesTheorem` | `IInv`; `PageInv`; `AdminInv`; `PanelsInv`; `SelectionInv` |

None of the properties is inductive, because each is about rows, or about what a page shows, while the danger sits in requests that
have decided but not yet written and in answers that are on their way. Every strengthening therefore says **what a request that has not been
overtaken still knows**:

* `SessionsInv`: whatever has not been swept since its check is still vouched for by an active account with
  that password (`Checked`, of requests, sessions and challenges alike), a refresh that was not overtaken
  still holds an unrevoked row (`RefreshesTracked`), a session with an heir has ended (`ParentsEnded`).
  `ResetsTracked`: a reset that passed its check holds a link that is unspent, or was overtaken when it was spent.
  `StoreInv`: a refresh carries the user and the marks of the row it checked (`RefreshesAgree`), a request for a
  link that nothing overtook finds no good link of its user (`ForgotsTracked`). The refinement maps the second half of each
  handler to the store's operation. `UndisturbedStoreTheorem` and the two after it assume `[][~LateWrite]_vars`: of all
  behaviours in which no request is overtaken between its check and its write, however many overlap otherwise,
  they say that `Sessions` implements the store outright, and that the excuses in the properties above are then void.
* `ClickInv`: a busy slot works on a delivery of its own (`DeliveriesDistinct`), a delivery wrote no row before
  its commit and one at it (`RowsTracked`), and deliveries are paid for by failures and stalls
  (`DeliveriesBounded`). The counters are cardinalities, so the proofs cite the finite-set theorems. The refinement maps
  `Commit` to `Count`, `DeleteLink` to `Remove` and everything else to stuttering.
* `StatusInv`: an edit, a mark or an activation that missed nothing still agrees with the row it will
  write (`EditKnows`, `SyncKnows`, `ActivationKnows`). `PasswordInv`: a hash an edit is about to write is
  nowhere else, so no cookie can name it yet.
* `WorkspacesInv`: a request that missed no change of its actor's, its target's or its ownership rows
  still stands as those rows say (`OwnerKnows`, `ManagerKnows`, `PeerKnows`, `WriterKnows`), and a purge
  in progress holds every link of its workspace that did not come late (`PurgeKnows`).
* `TwoFactor`'s `IInv`: a request that missed nothing still agrees with the account (`GoodRequest`), a status that was
  answered and not overtaken is the present one (`GoodTab`), the backup codes in force are one batch, and unless an overtaken
  write left its mark (`shaky`) there are some just when two-factor is on (`CodesInv`).
* `Domains`' `IInv` and `ToldInv`: a call about to mark a row has seen this row's token, and no row has
  a later date than the call has drawn but those it knows to have been marked since (`DatesInv`); an id has one home for ever (`HomesInv`)
  and does not come back (`GoneInv`); a list under way that was read after the panel was told agrees with it (`FetchInv`).
  The refinement maps `Insert` to `Claim`, `Mark` to `Prove`, `Delete` to `Release`, `RemoveWorkspace` to `Close`,
  `Publish` to `Publish`, and all other steps of panel, server and visitors to stuttering; that a call about to mark a row
  has seen its token is what makes `Mark` a `Prove`.
* `Analytics`: `IInv` says that a range is a whole number of days with its number of bars, and that the chart has the rows of
  the range (`RangeInv`, `ChartInv`); that the bars reach every one of these rows in any zone is then integer division
  (`BarTheorem` and its lemmas). `PartsInv` says that the day that today begins with is the server's (`DayInv`), and
  that each part read so far differs from what its query would return now by rows of `moved` only (`NumbersInv`), and that the
  leading links still lead in the rows but for those (`LeadInv`); the counts of clicks are cardinalities again.
* `LinkEditor`'s `EditorInv`: a form, also one that waits to be confirmed or sent, has the answer it was filled from in every field
  that was not edited (`FormInv`), a drafted day is not over or is the expiry's (`PickerInv`), an answer that no change came after tells of the row (`AnswersInv`),
  and what is shown does, or an answer still to come makes it so (`DataTells`).
* `BrowserSession`'s `IInv`: a cookie on its way is nobody else's yet (`NewInv`), an exchanged one that the jar still has belongs to a call that
  carries its successor (`JarLags`), and after a sign-out that sticks no call has an answer left that would set one (`OutInv`).
* `PageInv` and `AdminInv` share a statement of freshness for one cached entry (`FreshFor`): what it shows,
  unless it is marked or known to be behind, and what is under way, unless it was overtaken, is what the server has. An action then disturbs
  the server or one entry. For the panels, whose answers are put into the list
  they are for, `PanelsInv` says what a call that is done tells of its row (`JobsInv`), and that a list is right but for rows whose
  answer is still on its way (`ListsInv`).
* `SelectionInv`: a choice that stands is selected, stored and in the list (`ChoiceInv`); a name on its way was typed for its
  workspace (`NamesInv`); of every workspace the list has what the server has, or an answer still to come makes it
  so, or is known to come too late (`FreshInv`, `TellInv`).

Two techniques recur. Cached lists are subsequences of the server's rows, for which induction would be natural and is out of
the prover's reach: `Least`, that a non-empty set of naturals has a least member (from the well-foundedness of `<`, which is a
fact about sets), takes its place in `SliceType`, `TurnsWithin` and the like. And action families of the same shape have an operator that names the
shape, with one lemma for it. Each proof has a lemma per helper, one per action, and theorems that only combine them.

### Only model-checked

* The liveness properties `ClicksSettle`, `StrandedTabsLeave` and `CallsSettle`: liveness and ENABLED are out of this
  prover's reach.
* The refuted properties, which are false.
* That every property can fail: the mutants.

## What is not modelled

* Webhooks and billing: one role check and one statement each on rows that nothing else acts on.
* Pages that show what one query returns (dashboard, analytics, overview), components, translations. The translations
  are quoted where they say what the program does.
* Clocks of several API processes that disagree, and two verifications in the same millisecond.
* Daylight saving, the content of titles, addresses and e-mails, bcrypt and JWTs beyond what they tell apart, the encryption of secrets,
  rate limits, mail delivery, configuration, metrics, logging.
* `hooks/use-api-resource.ts`, which nothing uses.

## Plan

1. An abstract specification of the cached lists: a list that follows the server with a delay, implemented by
   `LinksPage` and `AdminUsers` between changes.
2. The liveness of the client's pages under fairness of the network, model-checked.
3. The analytics page's filters over `QueryCache`, if their state grows beyond one query.
