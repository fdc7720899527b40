# PI Planner: verification project

PI Planner is a planning tool for agile programs: a FastAPI backend on SQLite
(`src/backend/app`), a React client (`src/frontend/src`) and an MCP server through which
agents use the same API (`src/mcp_server`). This directory holds TLA+ modules that model it, the
TLC configurations that check them on small instances, and TLAPS proofs for every size. The code
is the reference; where the documents say something else, this file says so.

`PROJECT.json` is the index: components, runs, one mutant per property, the source lines each
definition stands for, findings, hazards and theorems.

    tlc -config MCBoard_clients.cfg MCBoard      # a run
    tlapm Editing_proofs.tla                     # the proofs of a module (up to seven minutes)

## What every module assumes of the platform

- **One asyncio process**, one database session per request (`database.py`: autoflush on,
  `expire_on_commit=False`). Another request may run at every `await`.
- **SQLite without WAL and without `PRAGMA foreign_keys`.** No foreign key is enforced and no
  `ON DELETE` fires; only the handlers keep rows consistent. A SELECT holds no lock and no
  snapshot; a transaction begins with the first flushed INSERT, UPDATE or DELETE and is the only
  writer until it commits. So a handler is split where it reads and where it commits; a flush is a
  step of its own where something is read between it and the commit.
- **An ORM UPDATE sets only the columns that differ from what was loaded**, and an object still
  referenced is not reloaded by a later query (the identity map). TeamPush depends on both.
- The SELECTs of one check are one step: the interesting races are between a check and its commit.
- Server crashes lose requests, event queues and nothing that was committed.

## Inventory

| Part | State | Operations | What makes it correct | Hard because | Module |
|---|---|---|---|---|---|
| Edit lock (`routes/edit_lock.py`, `middleware/deps.py`, `useEditLock.ts`, `mcp_server/lock.py`) | one row per project: holder, expiry | acquire, release, keepalive, the guard of every board write | one editor at a time, no project blocked for ever | read and commit apart, leases, lost calls, closed tabs, two clients of one account | EditLock |
| Planning board (`routes/features.py`, `pbis.py`, `groups.py`, `swimlines.py`, `pis.py`, `services/feature_delete.py`, `pbi_delete.py`, `continuation.py`, placing by `csv_import.py`) | features, stories, groups, swimlanes, PIs | create, move, split, cancel, group, place, delete, clear, place and re-parent by an import | rows agree with one another, no work is lost | five tables of references nothing enforces; long sequences of legal calls | Board |
| Live updates (`services/events.py`, `useSSE.ts`, the query cache) | queues per connection, caches per page | broadcast after commit, subscribe, invalidate, refetch | no viewer is silently stale | events lost while reconnecting, answers overtaking events, crash between commit and broadcast | LiveView, LiveUpdates |
| Team assignments and sprint alignment (`routes/team_projects.py`, `services/sprint_alignment.py`, `routes/sprints.py`) | who serves whom, remaining capacity, sprint dates | assign, patch, unassign, delete, edit dates, restore | one team per project, one remainder per team, one sprint calendar per team | no edit lock on team routes; checks before commits | TeamServing |
| Capacity push (`services/team_push.py`, `routes/team_push.py`, `routes/sprints.py`) | each sprint's available value and when a push wrote it | push a project, push all of a team's, type a value | pushes and typed values do not overwrite each other; the stamp is true | computed rows applied later; one commit per project; partial column updates | TeamPush |
| Team records (`routes/team_members.py`, `absences.py`, `meetings.py`, `services/concurrency.py`, `absence_import.py`) | members, dated working patterns, absences, meetings, attendance | create, edit and delete under an ETag, bulk entries, calendar files | no write overwrites what its author did not see; rules stay rules | no lock; the tag is compared with the row as read, the flush names none | TeamRecords |
| Capacity and achievement (`services/occurrences.py`, `sprint_days.py`, `team_capacity.py`, `assignment_scope.py`, `achievement.py`, the reports, the preview of a push) | none | expand rules, charge meetings, share out, attribute | every page gives a sprint what its days say | windows, half-days, dated versions, spans of several sprints | TeamFigures |
| Holiday calendars (`routes/holiday_calendars.py`, `team_holidays.py`, `services/holidays.py`, `holiday_import.py`) | calendars, entries, switches, exceptions, range absences | edit, re-read, copy a year, import, enable, except, clean up, delete | nothing points at what is gone; a re-read or clean-up moves nobody | exceptions hang on a day of an entry; entries are replaced under new ids | HolidayCalendars |
| Accounts, sessions, API keys (`routes/users.py`, `auth.py`, `api_keys.py`) | users, sessions, keys | login, roles, change and reset of passwords, delete, cycle, revoke | an administrator remains; ended means ended | several commits per request, slow hashing between check and write, everything found by name | Accounts |
| OAuth provider (`mcp_server/oauth_provider.py`, `auth.py`) | codes, tokens in a JSON file; kept answers of the backend | consent, exchange, refresh, use, revoke, restart | a grant is used once, ends, and dies with its key | awaits between finding and rotating a token, a file written in steps | Grants |
| Plan of a project: State Lists, completion dates, business ids, iteration paths, CSV import, snapshots, export and import (`routes/project_states.py`, `features.py`, `pbis.py`, `pis.py`, `csv_import.py`, `project_snapshots.py`, `projects.py` and their services) | the project's tables, its snapshots | every write of them | no double, nothing on a row that is gone, dates follow States, copies are whole | checks without constraints behind them, imports that change kinds and parents at once, copies read query by query | Backlog, Plans |
| MCP tools (`mcp_server/tools`) | none | chains of API calls under one lock | as its calls | | its calls are in EditLock, Board, TeamRecords, HolidayCalendars |
| Reports and exports, ICS text, rendering, web components, PI events, activity log, migrations | none or single rows | queries and layout | | | not modelled |

How the parts meet: every board write passes the guard of the edit lock, commits, and then
broadcasts; a page is told by the event and asks again. Team routes bypass the lock and are
protected by unique indexes, by ETags and by checks. Capacity reaches the board only through a push.
An MCP tool is one more client: it acquires, calls the same endpoints, and releases; whoever it acts
for is found through a key, and a key's user through the accounts.

## The modules and the code

### EditLock

`holder` and `ttl` are the row (`ttl` = expiry minus now, counted down by `Tick`); `page` and
`editing` the clients; `at`, `saw` the requests, at most one of each kind per client. `Send`, `Read`
(one read per endpoint: `ReadForAcquire`, `ReadForRelease`, `ReadForKeepalive`, `ReadForWrite`),
`Commit...` and `Respond` are the four points of a call; `Lose` drops it on the way there or back.
Tabs send what `EditLockButton.tsx` offers, tools run acquire, writes, release as `edit_lock()` does,
scripts only write. `Close`, `Logout`, `Login`, `ChangeRole` are what happens around them.

`FreshReadsHold` says what a decided request may still rely on; `OnlyOvertakenRequestsInterfere`
that a user's lock or board is touched by others only through a commit that came between read
and write; `AbandonedLockIsFreed` that the lock of somebody who is gone ends. Fairness: the clock,
and the server finishing what it accepted (`Read`, `Commit`, `Respond`); nobody has to click and the
network may lose any call. The event loop runs every accepted handler, so that is what the code
justifies.

Seen while modelling, and left as the code has it: a keepalive checks the name and not the expiry,
so a late one revives a lock that has ended; the lock names an account, so a tool that
ends releases the lock under which a tab of the same account edits; logging out keeps the lock
until it expires, and `isEditing` survives into the next login of the tab; two first acquires both
insert, and the unique key refuses one.

### Board

The five tables are functions from live ids to rows; a handler is one step (it commits once, and
writers are serialised as far as EditLock says). `AnyBody` separates the requests the web client and
the MCP tools send from any body the schemas accept: a PATCH may name a lane, a PI or a group
that belongs elsewhere. The steps carry the cascades the ORM performs (deleting a lane ungroups
its stories and returns its features; a split moves groups with their stories; deleting a feature
deletes its whole lineage or re-links it). Deleted ids may come back only once no row mentions them.

Names, efforts, order indexes and states are left out. Work is compared by identity: `WorkIsNotLost` is
that a story vanishes only by its own deletion or its feature's.

A CSV import reaches the board in four steps: `PlaceFeature` (a path that names a PI),
`PlaceStory` (a path that names a sprint of the feature's PI), `PlaceStoryOutside` (the path of the
PI itself takes a story out of its implicit group) and `Reparent`. What else an import does is in Plans.
`OnlyClearBacklogOrphans` is about `continuation_of`: only `clear_backlog`, which deletes in raw SQL,
leaves a continuation whose origin is gone.

### LiveView and LiveUpdates

`LiveView` is the promise: each view moves forward through states the server has been in and does
not go blank. `LiveUpdates` is the mechanism: `Commit`, then `Broadcast` into the queue of every open
stream, `Receive` with React Query's rule (an invalidated query is requested again and the request
under way is dropped, except a first load), `Answer` and `Deliver`, lost connections, failed
requests and restarts. Three tables translate the code: `Changes` (which answers a write changes,
the summed efforts included), `EventsOf` (what its handler sends) and `Invalidates` (what
`handleSSEEvent` does with it). `missed` is history: answers the page could not hear of.

It implements LiveView with the cache as the view (`PromiseKept`). `NoSilentStaleness` says every old
answer on a page has a reason to change; `CaughtUp` that it does, under weak fairness of the event
loop (`Broadcast`), the browser (`Subscribe`, `Receive`) and the answers (`Answer`, `Deliver`);
not of opening pages, writing or refocusing.

The checked write kinds tell their viewers everything. Others do not: an effort
leaves the totals of its watchers as they were (`useSSE.ts:145`); deleting a PI or a lane likewise leaves features shown as placed, and moving a
feature or clearing all of them leaves the sprint totals. An event sent while a page reconnects is
gone until the next refetch.

### TeamServing

`assigned` is `team_projects`, `calendar` the sprint dates, `writer` the transaction that holds the
write lock. An assignment is checked, flushed (the unique indexes decide), and committed; dates are
flushed before they are checked, so that no other writer can come between. `Planned` is what a
snapshot holds, `Restore` brings it back. Overlap and conflict are translated from
`sprint_alignment.py` and compare sprint by sprint.

Requests refused by an ETag change nothing and are left out, as are closed PIs, scopes and shares. A PI
header's dates decide overlap only for a PI without dated sprints, which has nothing to conflict
about.

An assignment commits what it checked, whatever happened since: a project or a team deleted in between
leaves a row that points at nothing. The code's queries join the rows with their projects and teams, so the
routes find such a row no more (`PatchCheck`, `UnassignCheck`), and the check of delete_team does not count it
either (`DeleteTeamCheck`): `NobodyLosesTheirTeam` is about the projects that exist, and a stray row of
the team goes with it by the cascade. What can break alignment is exactly an assignment that was overtaken, or a restore,
which never asks for conflicts (`project_snapshots.py:249`); once two sprints differ, PATCH refuses to repair either of them.

### TeamPush

`value` and `pushed` are `available` and "`available_pushed_at` is set"; `level` is everything the
capacity engine reads, and `Worth` the whole number it makes of it for each sprint. A push computes
(`ApplyCompute`, or `PushOneCompute` for the next project of a team), loads the first of its rows
(`ApplyLoad`) and commits (`ApplyCommit`); the later rows are loaded inside the transaction the first
write opens. A team's push keeps the assignments as loaded at its start (`factor`). Typing a value
loads, checks and commits apart, and leaves a column alone that equals what was loaded. Assignments,
PI states, locks and team data change around them (`SetSource`, `SetState`, `SetLock`, `EditTeam`,
each one commit, at most `MaxChanges` of them), and the server may `Stop`.

Hand-typed values are numbers of their own (`TypedAssumption`), so that a value shows where it came
from. Overtaken requests really do go wrong here: a value typed while the project was manual and
committed after it was switched to a factor and pushed keeps the push's stamp, as clearing a stamp
that was empty when loaded writes nothing (`routes/sprints.py:122-126`); a push overwrites a value
typed since it computed. The properties say that nothing else does. Left out: deleting a PI during a
push (the row is then skipped or the commit refused), windows, and dates (see TeamServing).

### TeamRecords

`rows` holds members, working-pattern versions, absences, meetings and attendance by id. A client opens a
row (`Open`) and keeps what it saw; the ETag is modelled by `moved`, which every commit that changes
a row, or who attends a meeting, sets for the forms that show it. Each endpoint is one action that
reads, compares the tag and decides (`CreateMember` ... `DeleteMeeting`, `BulkAbsences`,
`ImportAbsenceIcs`), and `Commit` flushes what it decided: inserts, the columns that differ from the row as
loaded, and deletes; an update of a row that is gone, and the unique indexes,
refuse it. `overtaken` marks decisions beside which another was committed: the flush names no tag, so those
may go wrong, and the properties say that nothing else does.

A behaviour works on members and one further table (`scope`), as no endpoint writes two of them;
deleting a member reaches all three. Ids are never reused, as the code's are UUIDs. Names, colours and hours
are left out; what days a rule covers is TeamFigures.

### TeamFigures

The pure maths. `RecurringDays`, `HalfDays`, `SprintDay`, `Charge`, `DayFigures`, `Totals`, `Weight`,
`ProjectMinutes` and `Attribute` are the functions of `occurrences.py`, `sprint_days.py`,
`team_capacity.py`, `assignment_scope.py` and `achievement.py`; the actions are the five pages that
use them (`GetCapacity`, `PreviewPush`, `GetPiHolidays`, `GetTeamAchievement`, `GetProjectVelocity`). The
properties compare a page with definitions that look at one day at a time: `Covers` for a rule,
`NetOf` for a member's day, `Given` for a sprint. So a wrong first occurrence, a window that cuts a
fortnight short, an exception that counts twice, or a point attributed to two sprints shows.

Hours are whole minutes, focus and weights whole hundredths: the code's floats are exact at these values.
The rounding of a pushed value is TeamPush's `Worth`; the load warning, committed points
and person-days are left out. A PI's sprints are taken to be all of the team's, and so are a project's:
`ComputeRows` previews a push over the team's sprints in open PIs, where `compute_rows` takes those of the
project, with the states of its own PIs, and proposes nothing for a project that is filled in by hand
(`team_push.py:105-134, 165`). The arithmetic of a row is the same; which rows a push may write is TeamPush's.

### HolidayCalendars

Calendars, entries (a key: label, dates, halves), switches, exceptions (member, entry, day) and range
absences; `staff` is who exists. A handler's decision is a record (`Quiet` with what differs): rows to
insert, change and delete, by id and by what they point at. `Serve` applies it at once, or holds it before
its first write, and `Finish` applies what was held; beside a held request one other is served, which
gives every interleaving of two. `Accepts` is what the unique indexes and missing rows refuse.

An edit is validated as a whole against the entry as read and written column by column: `Edited` keeps both,
`Written` sets only the columns that differ (`Merged`), on whatever the row has become. So two PATCHes that pass their
checks together can leave a holiday that is neither's, and even one that ends before it starts;
drop_exceptions_outside looks at the dates its own request asked for (`Outside`). A new team's ids are new
(`FreshTeams`); a copied year keeps a holiday's start when its end falls before it (`NextKey`).

A re-read (`ReplaceEntries`) replaces the entries of its window and moves the exceptions to the new entry of
the same key (`Carry`). It merges a holiday that was typed twice; if one member has an exception on both
twins, the unique key refuses the re-read (`CarriedTwice`). Exceptions of a switched-off
calendar stay stored. The last day of a leap year is 28 February in the next (`NextYear`).

### Accounts and Grants

`Accounts` is the backend: a route reads, then commits once to three times; `requests` holds where each
is (`step`), `alone` whether another request named the same user meanwhile, and `overtaken` whether an
administrator it may have counted on has gone. Everything is found by user name and an account may be deleted and
made again under the name, so sessions and keys remember which account (`born`) and password they
were made for: `CredentialsMatchTheirAccount` compares them with the account of that name now.

`Grants` is the OAuth provider beside it (it extends Accounts; a grant stands on a key). A handler runs to
its end unless it has to ask the backend about a key (`Ask`, `Answers`, `Proceeds`); good answers are kept for
a minute of two `Tick`s. `Writes` are the three writes of an exchange or rotation to the store and its file, and the
server may stop after each (`Restart` drops handlers and answers, the file stays). `origin` is history:
what each pair of tokens was issued for. Two handlers that have both found a refresh token both rotate it
(`oauth_provider.py:838`): `UsedOnce` says that this takes two.

Seen while modelling: a login reads the password before a slow comparison and does not ask again; cycling a
key looks neither at whether it is active nor at its owner, so the replacement of a revoked key is active
(`api_keys.py:123`). The limiter of failed attempts and the caller's own session are left out.

### Backlog and Plans

`Backlog` holds the operators over a plan (a record of tables): business ids, State Lists,
`Completed` (apply_completion), lineages, iteration paths, `ExecuteImport` (execute_import row by
row: `UpsertFeatures` and `UpsertStories` are recursive functions of the number of rows worked) and the copies of
`snapshot.py`. `Plans` is the state machine: the schemas of its tables (`IsPlan`) are what the models in
`app/models` declare, a plan to start from satisfies them (`SeedsAssumption`), and each route decides on
the plan as read, and `Serve` either applies it at once or holds it; `Commit` then flushes the columns that
changed (`Flushed`). Beside a held request one other is served. An import reads the ids before its first write and everything
else afterwards (`FinishImport`); a snapshot, restore or export reads one table after another
(`Serialized`), so another request's commit may fall between two tables.

Splits, cancellations, deletions and clearings, and imports with removals, are served in one go. Which of two
newest leaves of a lineage an import picks depends on the time of creation, which a restore does not bring
back: either (`preferred`). A story's place on the board is Board's, and so is a feature's lane: `DeletePi`
takes the features by their PI, the route by the PI's lanes (`pis.py:269-277`). The two are one as long as placements
agree (Board's `PlacementAgrees`), which a PATCH of `pi_id` alone, that no client sends, would end. `ItemsStandOnLiveRows` leaves out what a feature
continues, because of clear_backlog.

Seen while modelling: `_check_no_active_pi` asks for one row or none, so once two PIs are in progress
starting another fails with an error that is not the intended refusal; a snapshot taken beside another request may
be torn (a story without its feature), and `CopiesAreWhole` is about the others.

## Runs

| Run | Checks | Bounds, and why they suffice | States |
|---|---|---|---|
| `editlock_clients` | the locked row names a holder, no interference unless overtaken, abandoned locks freed | two accounts, a tab, a tool, a script; two requests at once; lease of 2 ticks: an expiry on either side of every step | 121,528 |
| `board_clients` | references, placement, groups | 2 features, 3 stories, 3 groups, 2 lanes, 2 PIs, symmetric: moves between lanes and PIs, splits, an implicit and two explicit groups at once | 136,938 |
| `board_bodies` | no lost work, orphans only by clearing the backlog, for any request body | 3 features (a continuation of a continuation), 2 stories | 324,091 |
| `board_lineage` | *violated*: clearing the backlog orphans a continuation | | |
| `live_viewers` | no silent staleness, catching up, the promise of LiveView | one page, two writers, three kinds of write, two queries, two versions: an event, an answer and a commit can overtake one another | 47,400 |
| `team_editors` | uniqueness, alignment, accepted dates agree, no stray rows, no team lost | two requests, one team, two projects with a PI of two sprints each, two dates; both unique indexes race within one team | 283,555 |
| `push_editors` | nothing stale after a push, writes only where allowed, true stamps | two requests, two projects, three sprints, two levels one of which rounds to the same value, two changes from outside | 552,010 |
| `records_editors` | nothing overwritten unseen, a pattern for every member, strays only by overtaken commits, whole rules, uploads keep to their window | two requests, a member, two versions, two absences, one meeting, one event, three rules; 6, 3 or 4 rows (`MaxRows`) about one table | 480,257 |
| `figures_pages` | pages agree, the remainder takes the rest, points land once | 687 teams that vary schedules, holidays, shares and completions one at a time over three weeks of sprints, three windows | 9,885 |
| `holidays_editors` | exceptions follow their entry, nobody returns unasked, uploads add no twins | one calendar, three holidays (two overlap, one is a leap day), two members, at most four rows, two beside a held request | 100,543 |
| `access_requests` | credentials match their account, an admin remains, answers honoured for a minute, tokens used once, consents end | two accounts, two requests, two sessions, two keys, one consent, three pairs of tokens, two waiting handlers; four corners | 251,077 |
| `planning_editors` | no doubles, items on live rows, dates follow States, whole copies, imports settle | six corners of one plan, 96 files, two snapshots | 169,136 |

Deadlock is not checked: everybody may be idle, ids and versions and changes are bounded. Symmetry
is used in runs without liveness only. The `MC...` modules hold values of constants and, for
`access_requests` and `planning_editors`, the corners: a behaviour stays in one of them (`corner`), which
bounds what may be in play together and leaves every action of the specification as it is.

- `access_requests`: *people* (accounts, roles, deletion, one session or key), *signing* (passwords and
  sessions, no keys), *cycling* (keys and their replacements), *consents* (codes, tokens and handlers on one key).
  Races between two requests on one user are in the first two, between two handlers in the last.
- `planning_editors`: *states*, *ids*, *pis* (each a table and what refers to it, with one request held
  beside another), *lineage* (splits and their undoing), *import* (one file of twelve kinds, with every option on or all but
  one, into three plans, beside an edit), *copies* (snapshots, restores and exports beside an edit). `Enough` lets a
  file in only when ids for all its rows are left; `MaxCopies` is two: the copy restored and the copy taken for safety.
- `holidays_editors`: `MaxRows` and `MaxRowsBeside` count entries, exceptions and absences. A re-read with
  an exception to carry beside a deletion needs two; a clean-up needs an entry and two absences. Where an overtaken request
  has left something astray, or an entry that mixes two edits, the run lets the held request end and
  serves nothing more (`MCNext`); the specification goes on, and so do the proofs.

Overtaken requests, those beside which another was committed, are exempted by name in many properties: most of the
code has no defence there, so `RowsResolve`, `PushLeavesNothingStale`, `MembersKeepAPattern` and their
like bound what such a race can spoil rather than exclude it, and the hazards they are listed under are
bounded in that sense. What goes wrong is said with each module above and below.

Fairness: EditLock's and LiveUpdates' only, given above. The other modules state safety; their servers
may stop at any step (`Stop`, `Fail`, `Abandon`).

## Findings

`board_lineage` is a violation (`features.py:376`): clear_backlog leaves a continuation in a PI pointing at its deleted
origin, where ADR 0004 and `services/feature_delete.py:14-20` say that this is not an option.

Six other disagreements between code and documents showed while modelling; the properties are stated around them:

1. `middleware/deps.py:223`: the guard of a board write is not looked at again when the write commits, so a write
   may commit under somebody else's lock (`OnlyOvertakenRequestsInterfere`).
2. `useEditLock.ts:39`: nothing but a successful release ends a tab's edit mode.
3. `groups.py:109`: create_group can leave the empty implicit group of a placed story behind.
4. `useSSE.ts:145`: `pbi:updated` does not refresh the totals an effort changes.
5. `project_snapshots.py:249`: a restore never asks for alignment conflicts (`AlignmentIsKept`).
6. `holiday_calendars.py:329`: two overlapping PATCHes of one entry are validated each for itself and flushed column by
   column, so the entry may end before it starts, which the docstring above (line 322) rules out. The
   theorem `RangesStay` says that it takes two.

## Proofs

For every set of users, clients, rows, pages, teams, projects, sprints and every bound, from the
named assumptions on constants only. Each `..._proofs` module states an inductive invariant, one lemma per
action, and the theorems.

- **Editing_proofs**, of EditLock and of Board. For the lock: `LockTyped`; `FreshReads`: each commit to the row marks all
  decided requests on it as overtaken, so an unmarked one still faces what it read (`FreshReadsHold`); `LockHasHolder` and
  `NoInterference` follow from it. For the board: `TypeCorrect`; `BoardStaysConsistent` (with `PlacementsAgree`, `GroupsStayWhole`) for the
  bodies real clients send: references, placement and groups must be carried together, as a move is right
  only if every group of the feature was on its lane and every story in a group of its own feature.
  `WorkSurvives` and `OnlyClearingOrphans` for any body. The last needs no induction along the lineage: what a deletion takes is the
  union of the chains that lead to it, and whatever continues a member of a chain extends that
  chain (`LineageIsClosed`).
- **LiveUpdates_proofs.** `TypeCorrect`; `NobodyIsSilentlyStale` where every write tells its viewers
  (`Tells`); `KeepsThePromise`, that every step of LiveUpdates is a step of LiveView or none, for which
  the invariant adds that an answer on its way is no newer than the server and no older than the cache.
- **TeamServing_proofs.** `TypeCorrect`, `AssignmentsAreUnique`, `AlignmentHolds`, `EditsAgree`,
  `NoStrays`, `TeamsGoEmpty` (a deletion that nobody overtook takes the team from no project that exists). The invariant says what a check still guarantees while nobody has
  committed since, that the lock's holder is still admitted, and that flushed dates differ from
  the stored ones in their own project only.
- **Capacity_proofs**, of TeamPush: `TypeCorrect`, `NothingStale`, `WritesOnlyWhatItMay`, `StampsStayTrue`. The
  invariant: a request nobody overtook still knows the sources, lock, level and rows it read.
- **TeamRecords_proofs.** `InvariantHolds`: a form whose tag has not moved shows the row as it is, a decision nobody overtook
  still fits the rows, and an id about to be inserted is named nowhere else. The last is what makes the deletes
  written out by hand complete. From it all five properties of the run (`WritesAreSeen`,
  `MembersKeepAPattern`, `NoStraysUnovertaken`, `RulesStay`, `UploadsKeepTheirWindow`). Assumed: ids of the
  tables are apart (`IdsAreApart`), the scopes are tables (`ScopesAreTables`), a weekly rule a client sends has its
  weekday (`RulesAreWhole`).
- **HolidayCalendars_proofs.** `InvariantHolds`: types, and what a held request decided fits the rows until another is served. The type
  of an entry is no more than that each column was validated in some request (`Mixes`); `RangesStay` adds that it does not end
  before it starts, unless a request was overtaken. One
  lemma per route shows that its decision fits, and then whatever fits leaves nothing behind
  (`ExceptionsFollow`), moves nobody in a clean-up or a re-read of the same holidays (`NobodyReturns`; the absences
  a clean-up removes must not be the ones that make each other redundant, and are not, as only
  holidays count), and adds no twins (`UploadsDoubleNothing`). Assumed: holidays are ranges (`KeysAreRanges`).
- **Grants_proofs**, of Accounts and Grants. For the accounts: what a request alone on its user has read still holds, a removal
  leaves nothing clean behind at each of its transactions, and whoever takes an administrator away has found
  another (`AccountsTyped`, `CredentialsFollow`, `LastAdminStays`). `AccountsImplemented`: the whole implements the
  accounts on their own, so `CredentialsFollowBesideGrants` needs no second proof. For the grants: `GrantsTyped`,
  `OnePairEach`, `RevokedWithinAMinute`, `ConsentsDoEnd`. The invariant relates tokens to the history of
  pairs and every kept or awaited answer to the key as it was when it was given. Assumed: there is an administrator among the seed users,
  names are finite in number.
- **Capacity_proofs**, of TeamFigures: the inductive invariant is short: what is on screen is what its page computes from the records
  (`AnsweredFromTheRecords`). The rest is arithmetic, and is what the pages could get wrong. A sum over a set is a fold;
  as its values are naturals it counts their units (`SumCounts`), and the laws of sums (same summands, common
  factors, class by class, rows before columns) are facts about finite sets, by induction over the subsets of a set
  (`SubsetInduction`, from the well-foundedness of strict inclusion). On them stand `PointsAlwaysLandOnce` (the classes of the columns partition
  the completions), `RemainderAlwaysTakesTheRest` (the parts of each version add up to its whole, or to what is booked) and
  `PagesAlwaysAgree`: a recurring rule expanded in a window finds exactly its own days (`RecurringDaysAreItsDays`: the division rounded up
  is the first multiple that is not before the window), so do ranges, half-days, holidays and meetings; so a day's figures are
  the same in every window that holds it (`NetDayByDay`), and every column lies in the span the page expands (`SpanCovers`).
  Assumed: what the schemas check (`TeamsAssumption`: weekdays, ranges in order, natural hours and shares, a version for each member and one to a date,
  one remaining project, of the whole team) and that no day is "none" (`NothingAssumption`).
- **Plans_proofs.** One relation between a plan and what a request makes of it carries the proof: `Sound(p, q)` says
  that items stand on live rows in q if they did in p, that dates follow the States in q if they did in p and no State
  changed its `done`, and that q has no double if p had none and the unique keys accept q. There is one lemma per
  route (`CreateStateEdits` ... `DeletePiEdits`), one for the flush of a request that nobody overtook (`PlanFlushed`: it
  writes exactly what was decided), and three for copies (`CopySerialized`, `CopyRebuilt`, `CopyRemapped`).
  A file is worked row by row. `Works` is what holds of the plan after any number of its rows: States, PIs and paths that were
  there are as they were, items stand and dates follow, and its business ids are those it had and those of rows
  that were worked. Each row keeps it, so do placing, re-parenting and the placeholder for orphans; the ids still to be given out
  are mentioned nowhere and last for the rows still to come. The step from row to row is an induction over their number
  (`InductionUpTo`). Which ids features and stories may end up with is worked out from the file and the ids read before it
  (`ImportKeepsUidsApart`), so a file that promotes, demotes and moves at once leaves no double, whatever the order of its rows.
  That a plan stays one needs that no feature continues itself, however far (`NoLoops`): else a lineage has no root
  and a split none to keep in step. Stated as "among any features one is continued by none of them", it
  is kept by a race of two flushes as well (a held write only adds new continuations and cuts links, `Unlooped`), which is why a
  race breaks references but never the schemas.
  The inductive invariant (`IInv`, `PlansTyped`): `Typed`, and `HeldIsSound`, that a held write is `Sound` for the plan it read and
  that the plan is still that one until another request is served. A step that does not end an overtaken request then has one of four
  outcomes (`Kept`): the plan stays, or becomes a sound successor, or one of the copies, or what an export and import make of it.
  `DoublesTakeARace`, `RowsStand`, `DatesFollow` and `CopiesWhole` follow by cases on it.
  `ImportsSettle` compares two imports of one file, by what the first leaves for the second to find (`Settles`). Each row only adds: features that continue
  none and that none continues, and States not there before (`Extends`), so lineages, newest features and looked-up States stay as
  they were when the row was worked, up to the end of the file. A feature's row leaves one feature of its id, landed once; placing it leaves it where placing would
  put it (`PlacedAlready`); a story's row leaves a story that fits it (`Fits`: its kind, State, date and lineage), and no later row is about
  the same story. The second time the same rows are imported (`SameRowsAgain`: what was promoted is a feature by now, and what was refused is refused again) and Parents name
  the same features (`SameParents`). In the loop over the features the two runs are compared row by row (`Again`): they
  agree on all but the States of lineages that a later row writes again, as two rows may be about one lineage and the last one counts. Then nothing is left to place and
  every story fits. For this `HeldIsSound` also says that the ids a held import needs are there while nobody is served beside it (`IsImport`). `FinishedImportsSettle` says the same of the plan that the import leaves, for whichever newest features either import prefers.
  Assumed: the seeds are plans, rows of files satisfy their schema (`FilesAssumption`), ids are finitely many numbers and NULL is none of them.

Only model-checked, and why:

- `AbandonedLockIsFreed` and `CaughtUp`: liveness under fairness is out of the prover's reach, as is ENABLED.
- The violation.

## What is left

- `ImportSettles` for files that remove items: they are imported in one go, and the property is about imports that are held.
- Team and calendar channels of the live updates; effort totals; the reports of a PI.
- MCP workflows that chain calls under one lock and stop half-way.
- Compositions: EditLock with TeamPush (whose push passes over locked projects), Board with LiveUpdates' `Changes`
  table, and a board with one writer as what EditLock implements.

## Not modelled, and why

Reports, exports, ICS text and HTML are formatting. Components, themes and dialogs are layout; what
they may send is in EditLock, Board and the other modules' requests. Migrations and scripts run outside the
system. PI events, activity log and release notes are single rows without rules between them. What an MCP
workflow reports when one of its calls is refused is wording. The limiter of failed logins is a counter in
memory. Queues of slow connections are unbounded in the code (`services/events.py:30`) and in the model.
