# GuildDesk platform: a TLA+ model

TLA+ models of the platform in this repository, model-checked with TLC on small
instances, with theorems proved by TLAPS for every value of the constants. All
paths below are relative to `src/`; `app/` is `services/platform/app/`.

Contents: 1 the system, 2 the modules, 3 the runs, 4 the proofs, 5 what the
code does otherwise than it says, 6 limits of the models, 7 the plan.

## 1. The system

A FastAPI backend in seven bounded contexts on one PostgreSQL database (a schema
each), a Discord bot and a React web application that call it over HTTP, and
in-process timers for background jobs.

### What all contexts share

A request opens a unit of work: one asyncpg session, one READ COMMITTED
transaction, committed explicitly and rolled back otherwise
(`*/infrastructure/unit_of_work.py`). Every `await` in it is a point where other
requests, of this process or another, take their turn. There are four kinds of
protection, and which one a table has decides what can go wrong:

1. **unique constraints and partial unique indexes**, checked by the database;
2. **row locks** taken by an UPDATE: the ticket number sequence;
3. **a version column**, compared in `update()` with a row that is *read again*;
   the flush then issues `UPDATE ... WHERE id = ...` with the changed columns
   only. Two requests may compare before either commits;
4. **nothing**: a rule is checked by a SELECT earlier in the request (setup
   codes, sessions, approvals, cards, memberships, pending actions).

`session.get` in `update()` reads the row again although the repository has
loaded it before: the identity map is weak-referencing and nothing holds the
first row object once it is mapped to a domain entity. The models therefore have
a read at the load and another at the version check.

Domain events are dispatched in process after the commit. One of the handlers
registered today writes: after a registration `on_user_registered` stores a
verification token in a transaction of its own. The outbox has tables and a
writer, and no caller.

### Components

| component | state | operations | hard behaviours | correct when | modelled in |
|---|---|---|---|---|---|
| Ticket system: lifecycle (`app/ticket_system`) | tickets, number sequence per organisation, audit log | create, claim, unclaim, transfer, close; from web and bot | overlapping updates, reuse of a channel, numbers under rollback | numbers 1..n without gap, one active ticket per channel, a ticket moves open-claimed-closed | `TicketLifecycle`, `TicketDesk` |
| Ticket system: categories, templates, messages | their tables | one versioned insert or update each | none that the lifecycle reads | | not modelled |
| Discord integration (`app/discord_integration`) | setup codes, guild links | request code, complete setup, unlink (two ways), expiry | overlapping setups, unversioned codes, unlink between two setups | one active link per guild, codes used once, no takeover | `GuildLink` |
| Discord bot (`discord_bot`) | only running interactions; Discord channels and control messages | form, four buttons, transfer select | lost and late answers, Discord errors, restarts, stale buttons | channel and ticket stay together, every interaction ends | `TicketBot` |
| Workflow engine, execution (`app/workflow_engine`) | task states, execution records, approvals | enrol, move, automatic chain, request and decide approval, configure | check and effect in different transactions, cycles of automatic moves | moves follow transitions, history is a path, gates hold, chains end | `WorkflowExecution` |
| Workflow engine, automation | pending actions | scan, execute, mark | effect before record, cancelled batches, two processes, an action that hangs | records are true, repeated effects have a cause, batches make progress | `WorkflowAutomation` |
| Workflow engine, design | workflows, states, transitions, rules, actions, conditions, checklist items | create, edit, archive, delete | states in use, two initial states | one initial state, references hold | `WorkflowDesign` |
| Jobs (`app/platform_core/jobs`) | one task per recurring job | start, run, time out, stop | cancellation in the middle of a batch | a failing run does not end the timer | in `WorkflowAutomation`, `BoardFlow` |
| Tasks (`app/tasks`) | tasks, parents, dependencies, relations, assignments, labels, the project's status workflow | set parent, add dependency, assign, change status and dates | walks over rows others are changing | hierarchy and dependencies stay acyclic, one primary assignee, status follows the table | `TaskGraph` |
| Boards (`app/boards`) | boards, columns, swimlanes, cards, sprints, snapshots | add, move, batch move, delete column, start and complete sprint, burndown job | limits counted before the commit, status sync after it | WIP limits, one active sprint, cards in existing columns, status follows the move | `BoardFlow` |
| Projects (`app/projects`) | workspaces, projects, memberships, templates | invite, accept, remove, change role, set default, archive | counts and defaults read before the commit | an owner remains, one default template | `Projects` |
| Identity: accounts | users, sessions, mail tokens, TOTP factors, recovery codes | register, log in, refresh, log out, reset, enrol, challenge | unversioned sessions and tokens, two transactions in one call | a session is traded once, none survives a reset, MFA has its factor | `Accounts`, `Identity` |
| Identity: organizations | organizations, invitations, teams, roles and their members | register, invite, accept, transfer, set parent, assign | walks over hierarchies, acceptance beside registration | no cycle, one pending invitation per address | `Organizations`, `Identity` |
| Identity: permission engine, login policy | none | pure functions | | | not modelled |
| Events and outbox, messaging, wiring, API, configuration, storage, plugins, AI | none that a call changes | | | | not modelled, see 6 |
| Web application (`apps/web`), API client (`packages/api-client`) | caches of what the backend answered | HTTP calls | token refresh | | as requests of the backend |

Interactions: the bot and the web application call the ticket system; the bot
asks the Discord integration which organisation a guild belongs to before every
ticket call; the workflow engine and boards change a task's status in the tasks
context by a call *after* their own commit; the workflow engine asks the projects
context whether a project exists; the three job schedulers are started and stopped
by `app/main.py`.

`PROJECT.json` lists every component with its status, and under `hazards` the
places in the code where a test would hardly reach what can go wrong.

## 2. The modules

| module | models | composed with |
|---|---|---|
| `TicketDesk` | abstract: what an organisation is promised about its tickets | |
| `TicketLifecycle` | the ticket system's transactions, statement by statement | implements `TicketDesk` |
| `GuildLink` | setup codes and guild links, statement by statement | |
| `TicketBot` | bot interactions, HTTP calls, Discord, an atomic ticket backend | uses the guild link and the ticket lifecycle as one-step services |
| `WorkflowExecution` | moves of tasks in one workflow, approvals, configuration | |
| `WorkflowAutomation` | the automation job of several processes over the pending rows | |
| `Transactions` | the unit of work of the CRUD contexts: staging, flush, commit | extended by the modules below |
| `TaskGraph` | the tasks context | |
| `BoardFlow` | the boards context and its sync into tasks | with the statuses of the tasks context |
| `Projects`, `WorkflowDesign` | the projects context; the design of workflows | `WorkflowDesign` extends `Projects`: one database |
| `Accounts`, `Organizations`, `Identity` | the identity context | each extends the one before: one database |
| `TicketLifecycleProofs` | proofs | extends `TicketLifecycle` |
| `DiscordProofs` | proofs of `GuildLink` and `TicketBot` | extends both |
| `WorkflowEngineProofs` | proofs of `WorkflowExecution` and `WorkflowAutomation` | extends both |
| `TransactionsProofs` | lemmas about staging, flush and commit, for any schema | extended by the modules below |
| `TaskGraphProofs`, `BoardFlowProofs`, `WorkflowDesignProofs`, `IdentityProofs` | proofs; the third is also of `Projects`, the fourth of `Accounts` and `Organizations` | each extends its module |
| `MC...` | instances for TLC: symmetry, constant functions, initial databases | |

There are two grains. `TicketLifecycle`, `GuildLink` and `WorkflowExecution` have a
step for each statement of a transaction, because their subject is the window
between the version check and the commit. The modules over `Transactions` have one
step for the reads and guards of a request, one per query of a walk, and one for
its commit: with three contexts' worth of calls that is what can be explored, and
the hazards there lie between reading and committing.

### TicketLifecycle

`tickets`, `sequence` and `audit` are the three tables; `txn[r]` is the open
transaction of request `r`: the entity it works on and the row (`base`) it was
last compared with. Create takes a number (`AllocateNumber`, the upsert locks the
row until the commit) and inserts (`CommitCreate`, under both unique indexes). An
update loads the row and applies the domain transition (`Claim`, `Unclaim`,
`Transfer`, `Close`), compares versions with a row read again (`Check`) and
commits the changed columns (`CommitUpdate`, under the partial index).
`Rollback` is every error, cancellation and crash.

Each commit adds one audit row, so a ticket whose version is behind its audit
trail has lost an update: it is called *disputed*. What the model says of a
ticket it says of the others, and it says which commits make a ticket disputed.

### GuildLink

`codes` and `links` are the tables, `uses` counts the setups each code has served.
`RequestCode`/`CommitRequest` supersede the codes seen at the start and insert a
new one; `ReadCode`, then `FindLink` or `CreateLink`, then `Check` and a commit are
`complete_setup`; `UnlinkById` and `UnlinkByGuild` share `Check` and
`CommitUpdate` with it. `Expire` is time.

### TicketBot

For each interaction, `task` is the coroutine in the bot and `call` its HTTP
call; the two part when the bot times out or restarts. `SubmitForm` creates the
channel and calls; `ResolveGuild`, `CreateTicket` and `Act` are the backend;
`Receive`, `PostControl`, `DeleteChannel`, `Timeout`, `DiscordFails` are the rest
of the handler; `Press`, `Choose`, `Dismiss` the buttons and the select. `WebAct`
and `WebOpen` are the web application on the same tickets, `Relink` a change of
the guild's link, `Lose` a lost request or answer, `Crash` a restart of the bot.

Two modules that one proof module extends cannot share a name, so the general names
of this one and of `WorkflowAutomation` carry the part they are of (`BotSpec`,
`BotTypeOK`; `JobsSpec`, `RunAction`), and what is `None` elsewhere is `Nothing` here.

### WorkflowExecution

`tasks` is `workflow_task_states`, `trail` the execution records, `req` what each
request is doing. `Evaluate` (state, transition, workflow), `PassRules`, `Load` (the
second transaction's read), `Check` and `Commit` are one move; `Advance` finds the
next automatic transition and goes on at `Load`; `Stop` and `Abort` end the
request. Approvals are a sequence in order of `requested_at`; `granted` remembers
which of them a committed decision ever approved. Rules other than the approval,
conditions, the status sync and the immediate actions are the environment's
choice: each may fail at its place (`Abort`) and none changes state of this model.

### WorkflowAutomation

`row` is `pending_automation_actions`, `worker[w]` the job of process `w`: the batch
it listed (`Tick`), the row it is at (`Take`) and what became of its action
(`RunAction`, `Notify`, `Refuse`). `row[p].notice` tells a notification, which
leaves no effect: a recipient the directory does not find is passed over and the
action returns as if it had run, and one that is found makes the dispatcher raise,
as it is wired without a provider (`Notify`). `MarkExecuted` and `MarkFailed` commit the outcome;
`CommitFails` is the rollback of the first, which leads to the second. `effects`
counts what an action did outside the unit of work, at once; `entries` what it
added to it, at the commit. A batch ends early by `Timeout`, by `Expire` (the timeout
of an action that hangs, which always comes) or with its process (`StopOrCrash`);
`Start` is a new process. Two histories tell the excuses: `cuts[p]`, runs that ended
between the effect and the record, and `shared`, rows two workers have held at once.
A third, `unaddressed`, remembers the notifications a run found no recipient for.

### Transactions

`db` is the committed database, table by table. A request reads it, checks its
guards and *stages* its writes (`Stage`, or `StageMarked` with a mark for the
history); walks read it query by query first. The writes are a set of changes, each
of another row - a session holds one object per row - so `Flushed` gives the outcome
row by row: an UPDATE writes the columns that differ from the row that was read, an
INSERT needs its key free and an UPDATE its row still there (`Fails`), a DELETE of a
row that is gone passes. `CommitUnder` does so only if the outcome meets the
constraints of the schema. `Abort` is everything else. A `Schema` names the tables
with their keys and rows, and which of them ever lose a row: those rows carry the
request that inserted them, for another may take their key later. `Reload` is for the tables whose rows carry no version: `update()`
compares the entity with a row it reads again and writes every column in which the
two differ, so an old value may be written back.

The version check itself is a reason to abort that is always offered; that it can
also be passed too early is `TicketLifecycle`'s subject. Here a request may commit over
another's commit as if it had passed the check before it, but the check's own
reading of a row whose version is still the one that was loaded is no step: all such
readings, and the writes they lead to, fall into the one instant of the commit.

`raced` is history: for each commit, the pairs of a column (or table) it wrote and
one that some other request committed while this one was open. `Undisturbed(A, B)`
says that no commit of an `A` overtook a commit of a `B`. Properties have the form
"unless writes of *these* columns overlapped *those*, the rule holds": they say
exactly which races break a rule, that none other does, and that no sequence of
calls that follow one another does.

### TaskGraph

Every route of the tasks context. `ChangeStatus` follows the project's transition
table or the default one; `SetParent`, `WalkUp` (one ancestor a step),
`ParentFound` and `AddDependency`, `Search`, `NoPathFound` are the two walks,
`CycleFound` their refusal; the rest are related tasks, assignments with their one
primary, labels, dates, archive and soft delete. `Spec` starts from any sound
database with no request open, whatever overlapped before (`Start`); `MCSpec` of the
run starts from two of these.

### BoardFlow

Boards, columns with WIP limits, swimlanes, cards, sprints and the burndown job.
`MoveCard` into a mapped column commits the move, then `Sync` changes the task's
status in a second transaction, or `Reject` (the workflow refuses) or `Fail` (an
error or a crash) leave the two apart. `asked` is history: the status the last
committed change wanted. `batch_move` is a sequence of moves, since it commits card
by card; `RecordSnapshots` writes the snapshots of all active sprints together.
`Start`, `Spec` and `MCSpec` are as in `TaskGraph`.

### Projects and WorkflowDesign

Workspaces, projects, their members and templates; workflows, states, transitions,
what hangs on them, and `Enroll`, which needs exactly one initial state. They are
checked together, because a workflow asks for its project. `Start`, `Spec` and `MCSpec`
are as in `TaskGraph`.

### Accounts, Organizations and Identity

`Accounts`: registration and its verification mail (a transaction of its own after
the commit), login with the counter and the lock, refresh, logout, reset tokens,
TOTP and recovery codes, the challenge whose session is issued in a second
transaction. `Organizations`: owners, teams and roles with the walk of each
hierarchy - the team walk ends at a deleted team and goes round a cycle for ever
(`WalkRound`), the role walk stops - and members and assignments. `Identity` adds
invitations and the registration of an organization with its owner, and the
constraints over all of it. Histories: `from` (the session a session was traded
for), `issued` and `resets` (which resets a session has seen). A walk remembers the
rows it has read (`Climb`), and a request what it has still to do for a user after
its commit (`Errand`). `Start` and `Spec` are as in `TaskGraph`: any sound database,
in which the ids that requests are to give are not taken; `MCSpec` starts from three.

## 3. The runs

Deadlock is checked in `TicketBot` only: in the other models ids, requests and
bounds run out, which is no property of the code.

| run | instance | distinct states | properties and what they show |
|---|---|---|---|
| `TicketLifecycle` | 1 organisation, 1 channel, 2 tickets, 2 requests, 2 accounts, `MaxAudit` 4 | 75 thousand | `TypeOK`; `NumberingIsDense` (1..n, each once, under rollbacks); `OneActivePerChannel`; `AgreedTicketsAreCoherent`; `ActiveTicketIsNewest` (the bot finds the active one); `DisputesNeedAWindow`; `ImplementsDesk` |
| `GuildLink` | 2 organisations, 1 guild, 3 codes, 3 links, 2 requests, `MaxAudit` 3 | 74 thousand | `LinksAreSound`; `OneActiveLinkPerGuild`; `RulesBendOnlyByOverlaps` (uses of a code, outstanding codes, rows of a guild never exceed the requests that overlap); `NoSilentTakeover`; `SetupTakesEffect` |
| `TicketBot` | 1 channel, 2 tickets, 1 member, 2 interactions | 88 thousand | `BotTypeOK`; `ChannelsAndTicketsStayTogether`; `StaleControlsAreHarmless`; `EveryInteractionEnds`; no deadlock |
| `WorkflowExecution` | 1 task, 3 states, 3 transitions (one gated, two in an automatic cycle), 2 requests, 2 approvals, `MaxChain` 2 | 2.1 million | `TypeOK`; `AgreedTrailIsChain`; `GatedMovesWereApproved`; `AutomaticChainIsBounded`; `OffWorkflowMovesNeedAnOverlap` |
| `WorkflowAutomation` | 2 workers; 3 rows: two act outside the unit of work, one of them hangs, the third stores an entry or is a notification; `MaxFaults` 2 | 607 thousand | `JobsAreSound`; `RecordsAreTrue` (a row marked executed had its effect or its entry, or is a notification that found nobody); `EffectsAreAccountedFor` (a repeated effect has a cut or a second process behind it); `OutcomesAreFinal`; `OnlyHangingActionsStarveOthers` (liveness) |
| `TaskGraph` | 3 tasks, 2 users, 2 labels, 2 dates, 2 workflows, 2 requests; 2 initial databases | 66 thousand | `TasksAreSound`; `GraphsAreAcyclic`; `LinksAreUnique`; `MovesFollowTheTable` |
| `BoardFlow` | 2 boards, 3 columns, 2 swimlanes, 2 sprints, 2 tasks, limits 0..2, 2 requests; 2 initial databases | 107 thousand | `BoardsAreSound`; `WipLimitsHold`; `StatusFollowsTheMove` |
| `ProjectSpace` | 2 workspaces, projects, templates, users, workflows; 3 states, 2 transitions, 2 requests; 2 initial databases | 41 thousand | `ProjectsAreSound`; `ProjectsKeepAnOwner`; `DesignsAreSound` |
| `Identity` | 2 users, organisations, addresses; 3 teams, 3 roles, 2 requests; 3 initial databases | 118 thousand | `IdentityIsSound`; `SessionsAreAccountedFor`; `MfaHasItsFactor`; `HierarchiesHaveNoCycle` |
| `NoLostUpdate`, `OneRowPerGuild`, `MovesFollowTheWorkflow` | as above, without symmetry | | counterexamples, see 5 |

**Why the bounds are enough.** Two requests make every pairwise overlap; the
races here are pairwise, and the properties that count overlaps (`Overlap` in
`GuildLink`) are stated in the number of requests. Two tickets on one channel are
needed for a channel that is reused, and for two creations in one organisation;
several organisations share no rows, channels only the index. `MaxAudit` bounds
how long a ticket's life may be, not how many requests race: with 4, a ticket is
claimed, unclaimed, claimed and closed with races at each step. Three link ids are
one more than two requests can insert for one guild. Two approvals are what it
takes for an approved one to be followed by another. `MaxChain` is 10 in the code;
the cap is the same loop with 2, and the automatic cycle would run for ever without
it. `MaxFaults` 2 lets a row be cut off twice, or two workers fail on it. `GuildLink`
has also been run once with two guilds (2.7 million states), `TicketBot` with two
channels (1.3 million), both without error.

In the modules over `Transactions` a request is used once, so the four runs see
every pair of calls, one after the other and overlapping in every way, **from each
of several databases in the middle of their life** rather than from an empty one:
what would take many calls to reach (three levels of subtasks, a full column, a
sprint under way, an archived project with two owners, a deleted team between two
others) is an initial state. Each is one the calls can produce; `MCIdentity`
names the one that needs a race, a cycle of teams, and starts with that race in its
history. Three nodes are what a walk needs to pass one that is neither its start
nor its end; limits 0..2 take a column to, at and above its limit.

**Symmetry** is used for ids in runs with safety properties only, and not where the
initial database names particular ids.

**Fairness.** `TicketBot`: weak fairness of what the bot does by itself (`BotStep`).
The event loop runs every ready coroutine; a call ends after ten seconds because
`ApiClient` sets that timeout on its client; the transfer select ends after sixty
because its view has that timeout. Nothing is assumed of the network, the backend
or the members: `EveryInteractionEnds` holds though no call is ever answered and no
member ever chooses. `WorkflowAutomation`: weak fairness of each worker's `Proceed`,
since the scheduler's loop sleeps and runs again whatever its last run raised, the
timeout of a job always comes, and a process that stopped is started again; and of
`BecomesDue`, since time passes. No fault, move or delete need ever happen.

## 4. The proofs

**`TicketLifecycleProofs`** proves, for any sets of organisations, channels, tickets,
requests and accounts and any `MaxAudit`, all seven properties of the
`TicketLifecycle` run: `TypeOK`, `NumberingIsDense` (from `NumbersHaveNoGap` and
`NumbersAreDistinct`, proved one by one), `OneActivePerChannel`,
`AgreedTicketsAreCoherent`, `ActiveTicketIsNewest`, `DisputesNeedAWindow` and
`ImplementsDesk`. It rests on the module's named assumptions: `None` is no value of
any other kind (`NoneAssumption`, `NoEntryIsNone`) and `MaxAudit` is a natural
number (`MaxAuditAssumption`).

None of the invariants is inductive by itself: an open transaction could hold any
entity. `Inductive` adds what open transactions hold:

- `VersionsAreAudited`: no version exceeds the number of audit rows;
- `UpdatesAreSound`: an update's entity is of the same ticket as its row, one
  version ahead of its base once checked, and **a base whose version equals the
  audit count is the current row**, in which case the entity is a legal move of it;
- `CreationsAreSound`: an open creation holds its organisation's sequence, the next
  number and an id of its own;
- `NumbersAreIssued`, `StoredNumbersAreDistinct`.

The middle one carries the argument. The audit count grows with every commit and
versions never exceed it, so a commit can leave version and audit count equal only
if its base was compared after the last commit: then it is the row that is still
there, all changed columns are written over it, and the result is a domain
transition of it. Any other commit leaves the ticket disputed, and disputed it
stays. One lemma per action proves the step, under each one per conjunct that it
can disturb. The refinement uses the same invariant: a commit of an agreed ticket
is `Claim`, `Unclaim`, `Transfer` or `Close` of the desk, any other is `Dispute`.

**`DiscordProofs`** proves all five properties of the `GuildLink` run for any
organisations, guilds, codes, links and `MaxAudit` and any *finite* set of requests
(`RequestsAssumption`: the bounds are cardinalities). The links need the argument
above - versions below the audit count, a base with the audit count's version is
the row, and then the entity is a legal move. The codes need counting, and the
counts are the point: with n requests at a time, damage stays below n however many
requests follow one another.

- `CodesHaveMakers`: each outstanding code of an organisation has the request slot
  that inserted it, no two the same. A slot can insert again only after reading its
  organisation's codes, so a code of its own is among those it has seen, and its
  commit consumes that code together with inserting the new one;
- `UsesAreCounted`: the uses of a code plus the open setups on it never outnumber the
  requests, since a code that was used once is consumed and no setup begins on it;
- `RowsAreCounted`: the rows of a guild plus the setups about to insert one never
  outnumber the requests, since a setup inserts only if it saw no row.

Its second half proves the three safety properties of the `TicketBot` run for any
channels, members and interactions and any finite set of tickets, from
`NothingAssumption` and `TicketsAssumption`. `BotInductive` says:

- `TaskIsSound`, `CallIsSound`: what is true of an interaction depends on which of
  the coroutine and its call is still there. An answer is heard by the coroutine that
  waits for it or by none; a call that outlived its coroutine still names a ticket of
  its channel; **while nothing has failed, the call of a form has its form waiting**,
  which is why a ticket then cannot appear on a channel nobody is working on;
- `FormsAreApart`: a form is alone on its channel and posts the buttons last, so no
  channel that is deleted has any;
- `ToldTicketsAreSafe`: once the bot has been told of a ticket, the one form on its
  channel can only post, not delete;
- `OrderIsKept`: a new ticket is later than all others, and a channel gets one only
  when none of its tickets is active, so an active ticket is the latest of its
  channel. A late button names a ticket it saw earlier: if that is not the latest any
  more it is closed, and every operation refuses (`LateButtonsAreHarmless`).

**`WorkflowEngineProofs`** proves, for any workflow, any sets of tasks and requests
and any `MaxChain` and `MaxApprovals`, all five properties of the
`WorkflowExecution` run, from `WorkflowAssumption`, `BoundAssumption` and
`NoneAssumption` (`None` is no row). `Inductive` adds to them what tables and
requests know:

- `VersionsAreRecorded`: no version exceeds the number of records plus one;
- `LoadIsSound`: a base of that version is the task's row, and its state is the
  origin the record will name, so a commit that leaves the task agreed appends a
  record that starts where the last one ended;
- `LookIsSound`: what was seen when the transition was chosen, if nothing has been
  committed since, is a state the transition starts from;
- `GateHolds`, `ApprovalsAreGranted`: approval is remembered from the moment the rules
  pass to the commit, whatever is decided in between;
- `HopsAreCounted`: a request's automatic records never outnumber its hops, and a
  hop that has not been committed has no record yet.

A commit is the step with most to show: what other requests know of the task stays
true because each such fact is about a number of records that has just been passed.

Its second half proves the four safety properties of the
`WorkflowAutomation` run for any finite set of processes, any rows and any number of
faults (`RowsAssumption`). The bound on effects is not inductive: it has to know who
may still act. `EffectsHaveAnOrigin` says that while a row is pending its effects are
at most its cuts plus the workers that have acted on it and not recorded it
(`Actors`), and that once it has an outcome, effects and the workers still holding
the row unacted (`Waiting`) are together at most cuts plus workers;
`UnsharedEffectsHaveAnOrigin` says it of rows with one holder, where one is the bound.
`UnsharedRowsHaveOneHolder` is what makes an outcome final: the holder of a row that
was never shared finds it pending. `ActionsAreRemembered` is what makes a record true:
a worker about to mark a row as executed has had the effect of its action, or, for a
notification, has found no recipient; for an entry the commit itself stores it.

**`TransactionsProofs`** holds what every context over `Transactions` needs, for any
schema (`HasSchema`) and any rows that are not `None`: a flush that does not fail
keeps the tables' types (`CommitKeepsSchema`); a stored row of the outcome is the old one, or
an inserted one, or the old one with the columns some request changed
(`CommitRow`, `CommitColumns`); and what a request has read stays readable
(`ReadsAreCurrent`): **a write whose columns nobody has committed since the read was
made from the row that is still there**. That last part is what the history `since`
is for: a property about some columns, under `Undisturbed` of them, needs to look at
such commits only.

**`TaskGraphProofs`** proves the four properties of the `TaskGraph` run for any tasks,
users, labels, days, workflows and requests, **from any sound database** (`Start`: the
three invariants themselves, no request open, any history), not just from the two the
run starts with. The inductive invariant `IInv` adds:

- `RequestsAreJustified`: what the guards of a request made sure of, as long as nothing
  they looked at has been committed since: a move is in the table, dates are in order,
  a relation was not there in either direction, the primaries seen are cleared by the
  request that makes another;
- `WalksAreSound`: the tasks a walk has visited are stored, do not include the task
  the walk is for, and **are closed under the edges but for the frontier**.

When a walk has ended, its visited tasks are a closed set that contains the other end
of the new edge and not the task, and adding an edge into such a set closes no cycle
(`OneMoreEdge`). Acyclicity is stated as: every set of tasks in which each has an
edge to another of the set is empty, which says the same without a path, and needs
no induction. Soft deletes only take edges away; a new task, or a duplicate, has no
children; a task that is deleted while a walk is on its way is a commit the
property excuses only if it touched the graph's own columns.

**`BoardFlowProofs`** proves the three properties of the `BoardFlow` run for any finite
boards and tasks and any columns, swimlanes, sprints, limits, days and requests, from
any sound database (`FinitenessAssumption` is for counting cards). `IInv` adds:

- `CardIsJustified`: a request that brings a card into a column brings no other one
  there and changes no column, and unless a card, its column or a limit was committed
  since its guard, **the column still has room for one more**. The limit is an action
  property: no commit can make the count exceed the limit, but one that overlapped; that
  a limit is set below the count is no such step (`LimitsHold`);
- `SprintIsJustified`: a sprint is made active alone, and unless a status was committed
  since, no other of its board is;
- `TasksWillFollow`: a task that has not the status it was last asked for has a request
  on its way to set it, which is *one* walk in two transactions: the move writes `asked`
  and turns the walk to its second half, the sync writes the status and ends it. The
  invariant is kept by every rejection, crash and loss because each is a write of
  `unsynced`, which the property excuses.

`StatusFollowsTheMove` says that no sync is under way instead, and follows
(`FollowsFromPending`).

**`WorkflowDesignProofs`** proves the three properties of the `ProjectSpace` run in the
same way, for any workspaces, users, projects, templates, workflows, states,
transitions and parts. Two arguments are new. Default templates and initial states:
a request that marks one unmarks every marked one it has seen, and if no mark was
committed since, these are all there are (`SetDefaultIsSound`, `OneInitial`). Owners: a request
that removes an owner or takes the role away has counted another one, who is still
there at the commit unless members, roles or acceptances were committed meanwhile
(`ProjectsAlwaysKeepAnOwner`).

**`IdentityProofs`** proves the four properties of the `Identity` run for any
organizations, users, addresses, slugs, teams, roles and lock threshold, from any sound
database. `IInv` adds to the four:

- `RequestsAreJustified`: of each change a request is about to make, what its guards
  made sure of, *as far as no commit since has touched it*. A token is new and the
  outstanding ones of its user are used up with it; a session is issued alone, for what
  its user's row says of resets, and with the end of the session it is traded for; the
  mark of a second factor is set with the factor and reset with all of them; an
  accepted invitation comes with its user; a lock comes with its attempts;
- that what a request has read is current, but for `locked`, which time changes
  (`LockExpires`): such a step is no commit, so the rows a request holds may differ from
  the stored ones in that column alone;
- `KeysAreUsedOnce`: a request gives its id to one row of a table at most, and a factor
  or a code that was read is gone or that of the same user;
- `WalkIsSound`: what a walk up a hierarchy has seen. Unless a move in the same
  hierarchy was committed since, the nodes it remembers have the parents it read, but
  for nodes that are gone, and the one it comes to next it has not seen.

When a walk has ended it leaves a set that is closed upwards, contains the new parent
and not the node (`NoWayUp`), and moving the node under such a parent closes no cycle.
The two hierarchies differ in how a node goes: a deleted team stays as a row and cuts
walks short; a role goes only when it is nobody's parent (the foreign key), and its id
may then be that of a new role, which has no parent. Neither makes a cycle, and a walk
that remembers such a node is still right about the rest. That a walk never comes
round (the loop of `set_parent` would not end) is the same invariant: what it has seen,
together with what is there, has no cycle either.

The four over `Transactions` rest on their modules' `NoneAssumption`: `None` is no row,
and in `TaskGraph`, `BoardFlow` and `Identity` no key, no node and no walk either;
`Identity` on `ThresholdAssumption` besides, a threshold of at least one. TLC has checked the
conjuncts of the inductive invariants on the instances of the runs.

### Only model-checked

Liveness (`EveryInteractionEnds`, `OnlyHangingActionsStarveOthers`), which is beyond
this prover. Every invariant and every action property of the passing runs is also a
theorem. The runs that end in a counterexample state what the code does not do.

## 5. What the code does otherwise than it says

Three runs end in a counterexample:

- `NoLostUpdate`. The repository test says that the second `update()` must detect a
  stale version rather than silently overwrite the first writer's change. It does
  when the first has committed; when both compare first, both commit.
- `OneRowPerGuild`. `relink` is there to preserve the row of a guild rather than
  insert a new one. Two overlapping setups and an unlink between them insert two,
  after which every lookup of the guild's row raises.
- `MovesFollowTheWorkflow`. A transition that does not start at the task's state is
  to be refused. The state is compared in one transaction and the move made in
  another, on whatever state the task is in by then.

Each passing run says how far the damage goes: disputes need two updates between
the same check and commit, extra rows need overlapping requests, and a move leaves
the workflow only if another move of the task was committed in between.

The other models keep, as behaviour of the code, what a reader may not expect:

- an action that outlasts the job's timeout ends its batch each time and stays due,
  so rows after it may never be run; `OnlyHangingActionsStarveOthers` says that nothing
  else starves them (`WorkflowAutomation`);
- a deferred notification is never sent. Without a recipient its row is marked
  executed though nothing happened; with one it is marked failed, as no provider is
  wired (`Notify`). `RecordsAreTrue` is stated accordingly: of a notification
  "executed" says that a run found nobody to send it to;
- a state that is initial already cannot be made initial again: its own row is
  cleared first and the second update is a version conflict (`SetInitial`);
- a transition may join states of another workflow, and a state is deleted without
  asking for tasks enrolled in it: the foreign key refuses (`CreateTransition`,
  `DeleteState`);
- a user who is not assigned and is reassigned "to itself" leaves a second primary
  assignee (`Reassign`);
- an invitee whose address counts as verified is still sent a verification mail, and
  an accepted invitation can be revoked afterwards (`AcceptInvitation`,
  `RevokeInvitation`);
- a refresh does not look at the status of its user (`Refresh`);
- a walk up the teams that meets a cycle it is not part of never ends, and a deleted
  team cuts a walk short (`WalkRound`, `WalkUp`).

## 6. Limits of the models

What is left out of modules that are there:

- Permissions, validation of texts, wording, pagination and rate limits; every
  request is one its caller may make.
- Ids are never reused (uuid7); a row that is deleted and inserted again under the
  same unique key carries the request that inserted it. `MaxAudit`, `MaxChain`,
  `MaxApprovals` and `MaxFaults` are the only bounds besides the sets of ids;
  `MaxChain` is the code's own.
- `TicketActor` names exactly one account: the routers fill one field.
- `TicketBot`: the backend is atomic (overlaps are `TicketLifecycle`'s subject); a
  ticket is opened from the web only for a channel of the bot; nobody deletes
  channels in Discord by hand.
- `WorkflowExecution`: states and transitions are fixed (their editing is
  `WorkflowDesign`) and the workflow is not edited otherwise than by enabling,
  archiving, restoring and deleting; approvals are requested for gated transitions
  only, since nobody reads the others; a request executes one transition.
  Checklists are one more rule that may refuse. Records are kept in the order of
  their commits; the code lists them by `occurred_at`, which is the same order for
  moves that do not overlap.
- `WorkflowAutomation`: the rows of a batch are taken in any order; a process that
  crashes is one that stops. Whether a recipient is found is chosen at each run. An
  action of an unknown type, which the executor would pass over too, cannot be
  stored: the types are an enumeration and each has its branch.
- Positions of tasks, columns and cards are floats that no guard reads: a reordering
  only touches its row. That two moves may get one position is a listed hazard
  without a property.
- `Accounts`: a password, code or token is right or wrong by choice, and one that has
  expired is a request that is not made, but for the lock, which a step of its own
  opens (`LockExpires`); the ten recovery codes of an enrolment are one row. No OAuth provider is configured. The brute-force guard, IP rules and
  trusted devices of `security.py` only refuse requests.
- A request always gets its connection; the pool is not modelled, nor the nested
  transaction of an MFA challenge that could exhaust it (a listed hazard).

Not modelled, and why: ticket categories and messages (a versioned insert and update
each, read by nothing else); the bot's other cogs (one call per command, or a
stateless reply); the permission engine and login policy (pure functions); domain
events and the outbox (the one handler with an effect is a step of `Identity`, the
outbox has no caller); messaging, storage, plugins and AI (interfaces); dependency
injection, API, errors, logging and configuration (wiring and formatting); the web
application and the API client (their calls are the requests of the models).
Migrations are modelled by the constraints they create.

## 7. The plan

All of the plan is carried out: the ticket system and its abstract desk, the guild
link, the bot, the workflow engine's execution, automation and design, tasks, boards,
projects and identity, with the safety of each proved.

What would come next:

1. the connection pool as a resource of the requests, with the nested transaction of
   `verify_mfa_challenge`, and its timeout as the only way out;
2. positions as dyadic rationals of bounded precision, for the property that two
   moves never share a place unless they overlapped.
