# Bracket Craft in TLA+

Bracket Craft organises football tournaments for many organizations: a FastAPI
backend over PostgreSQL and Redis, a worker that drains a transactional outbox,
and a Nuxt client that follows the results in real time. This directory holds
TLA+ models of the parts where the order of events matters, the TLC instances
that check them, and proofs, checked by TLAPS, of what holds for every value of
the constants.

A module is translated from the source it names in its header. Every action is
a whole handler, or one of the steps between which something else can run; what
its guards and updates leave out is said in the header of the module and in the
last section of this page.

```
tlc -workers 2 -config Outbox.cfg Outbox.tla     # every .cfg names its module below
tlapm OutboxProofs.tla
```

## 1. Inventory of the system

PostgreSQL holds all durable state, one transaction for each request, READ
COMMITTED with explicit row locks. Redis holds the stream the worker writes and
the API processes follow, rate limits and login attempts. Nothing else is
shared between processes.

| Component | State | Operations | Talks to |
|---|---|---|---|
| Outbox: `workers/outbox.py`, SQL `claim_`, `complete_`, `fail_`, `requeue_outbox_events` | `outbox_events` rows, their claims and attempts | insert with the domain transaction, claim a batch, publish, complete, fail, requeue by an operator | every writing handler fills it; it appends to the Redis stream |
| Relay: `main.py` | position in the stream, `run_id`, connected sockets | start, check continuity, read, emit, announce a RESYNC | reads the stream, emits over Socket.IO |
| Tournament versions and elimination stages: `tournaments/router.py`, `matches/service.py`, `advancement/service.py` | `tournament_versions`, `matches`, `advancement_links` | generate, publish, clone, regenerate, first segment, close, walkover, advance, activate the repetition of the final | closing writes into the matches ahead, standings, suspensions, outbox |
| Draw of brackets and calendars: `tournaments/scheduling.py` | none (pure) | single and double elimination, Swiss pairings, round robin, groups | called by the generating handlers |
| Swiss stage: `tournaments/router.py`, `pairings.py` | `stage_teams`, `matches`, placeholders of the rounds | two transaction draw, assign and remove teams, add a match by hand | publication and closes run beside it |
| League and group stages: `tournaments/router.py`, `pairings.py` | `stages.schedule_legs`, `groups`, `stage_teams`, `matches` | enrol, assign and remove teams, draw and clear, add a match by hand | publication and clones run beside it |
| Suspensions: `matches/service.py`, `rules_engine/engine.py` | `match_events`, `player_suspensions`, `player_suspension_serves` | refuse a squad, derive, serve, complete | one organization, all of its tournaments |
| Match operation: `matches/router.py` | `match_segments`, `match_rosters`, officials | segments, interruptions, lineups, publication, officials | the close reads them under the row lock of the match |
| Report of a match: `matches/service.py`, `rules_engine` | none of its own | ordered validation, replay of substitutions, outcome | inside the close |
| Standings and head to head: `standings/` | `standings` | recompute a stage | inside the close |
| Lock order: `core/locking.py` | row and advisory locks | stage, version, matches by id, segments, players | every handler above |
| Rosters, players, teams: `tournaments/` | `rosters`, `players`, `teams`, photos and consents | enrol, import, deactivate | the close and the lineups |
| Invitations and members: `invitations/` | `organization_invitations`, memberships | create, resend, reopen, revoke, accept, expire, change a role, disable | mail server after the commit |
| Identity: `identity/` | users, sessions, Google attempts in Redis | register, log in, link, log out | Google, Redis |
| Crests and photos: `crests/`, `core/storage.py` | object keys in rows, objects in S3 | store, replace, delete, sign | object storage outside of the transaction |
| Public statistics: `public_stats.py`, `02_public_projections.sql` | none (reads) | projections | — |
| Heartbeat, scripts, request guards, migrations | a file; the development data; counters in Redis; the schema | — | — |
| Web client: `frontend/app` | views, drafts, the socket | reload what an event names | API, Socket.IO |

What is hard here, and what correctness means for each part:

* **Outbox.** Claims carry no owner: after five minutes another worker takes an
  event that the first one may still complete or fail. No committed event may be
  lost, none may be marked as processed before it is in the stream, and every
  one must be settled at last.
* **Relay.** Redis trims, restarts and loses a suffix; calls raise between two
  assignments of the state. No client may miss an entry without being told to
  reload, and a failure may repeat the last entry but never go further back.
* **Elimination stages.** A team reaches a match through one slot filled by the
  close of another match, in any order of reports; the repetition of a grand
  final (GF2) exists only if the team from the losers' bracket won GF1; a new
  version is a copy made at any moment. Results must be final, versions must not
  reach into each other, and no order may leave the bracket stuck.
* **Swiss draws.** The pairings are computed outside of any transaction from
  data read without locks. What is then written must still be right.
* **Suspensions.** They belong to the organization, while the locks belong to a
  tournament. Nobody may play while suspended, no card may be missed, and no
  suspension may be cut short or prolonged by closes that overlap.
* **League and group stages.** Teams are dealt out again, matches are added by
  hand, and one request works with what it read before it held the locks. No
  match may be left in a group its teams are not in, and no two teams may meet
  more often than the mini-table can take.
* **Match operation and report.** A segment, a lineup or a registration accepted
  under one state of rules and version is closed under another. No match may
  end in a state from which its report can never be filed, nobody may score
  who is not on the field, and the balance of substitutions must be the one the
  report leads to.
* **Rosters and pictures.** Imports upload first and write later; a document or a
  dorsal must be registered once, not after the lock, and no row may name an
  object that is not in the storage.
* **Invitations, identity.** One pending invitation for an address, one use of a
  link or an attempt, whatever requests race; a session is of the account its
  owner signed in to; the organization keeps an owner.
* **Standings, head to head, calendars.** Pure functions: the table adds up, no
  criterion is applied out of turn, every pair meets as often as it should.

`PROJECT.json` lists the hazards, each at the line where it bites, with the
properties that would show it going wrong.

## 2. Plan

Each component is a module with its parameters as CONSTANTS under a named
assumption, one action for each operation or step, and invariants that are
conjunctions of named parts. `MC...` modules give TLC its instances. Modules
that are proved about use no recursive operator; their theorems are in a module
`...Proofs` that extends them.

1. `AtLeastOnce` (abstract), `Outbox`, `OutboxProofs` — done.
2. `BracketDraw` (pure), `BracketDrawProofs`, `Bracket`, `BracketProofs` — done;
   `MCBracket` composes the two: the brackets that are played are those that are
   drawn.
3. `Relay`, `RelayProofs` — done.
4. `SwissDraw` and, for the other formats, `League` — done; `DrawsProofs` has the
   theorems of both.
5. `Calendar`, `Standings` (pure) — done, checked with `BracketDraw` in `MCDraws`;
   the theorem on calendars is in `DrawsProofs`.
6. `Suspensions`, `MatchOperation`, `MatchReport`, `Rosters`, `Media` — done,
   side by side in `MCMatchDay`; `MatchProofs` (operation and report) and
   `MatchDayProofs` (suspensions, rosters, pictures, and the five together).
7. `Accounts`, `Members` — done, side by side in `MCAccess`; `AccessProofs`.
8. Theorems to come: what `Standings` computes without recursion (that the points
   of a table add up).
9. `LockOrder`: the locks of `core/locking.py` taken one by one, and freedom from
   deadlock; officials and their assignment in `MatchOperation`.
10. `Delivery`: `Outbox` and `Relay` composed over one stream, with an abstract
    specification "a client that stays sees every committed event or reloads".

## 3. Modules and the code

### Outbox, AtLeastOnce

`status`, `attempts`, `expired` and `delayed` are the columns of
`outbox_events`: time is abstracted to whether `locked_at` is over five minutes
old and whether `available_at` is still to come. `pc`, `batch` and `current` are
where each worker is in `process_once`; `published` is the set of events that
`XADD` has appended. `Claim`, `Complete`, `Fail` and `Requeue` are the SQL
functions; `PublishRaises` and `CompleteRaises` include the call that took effect
although its answer was lost. `Crash` stands for a dead process and for an
exception that leaves `process_once`. `SKIP LOCKED` is the choice of `skipped`
among the rows some transaction holds.

`AtLeastOnce` says what the README of the repository promises: a committed event
is owed until it is in the stream, acknowledged only afterwards, and never
dropped. `ImplementsAtLeastOnce` maps the status of a row to that debt.

### BracketDraw, Bracket

`BracketDraw` computes the matches and links that `scheduling.py` builds; a
match is its lane, round and number. `IsABracket` is what makes them a bracket:
every team enters once, the winner of every match but the last and the loser of
every match of the winners' lane go on to one slot each, the lanes count defeats,
codes are unique, there are as many matches as it takes, and the calendar can be
played in order. `Bracket` plays them: `version`, `status`,
`slot`, `winner` are the columns of `tournament_versions` and `matches`;
`operated` says which matches have operational data. Each handler holds the row
of the version or of the match to the end of its transaction, so it is one
action. `File` is what the three ways to close have in common: the result, the
advancement (`Advanced`, guarded by `CanAdvance` as `advance_from_match` is) and
the repetition (`Repeats`, `CanRepeat`). `Clone` copies the matches of the
published version with the teams they have.

### Relay

One process of the API. A step ends where the code awaits Redis or emits, so
that an `XADD`, a trim, a restart of Redis or a client can come between any two.
`position`, `started` and `runId` are `RelayState`; `current` is the `run_id`
read when the connection was made; `first` is what `resolve_first` returned.
`owed` is a history variable: the entries appended while the client was there
that it has neither been sent nor been told to reload for. `env` is chosen once
and says what the environment may do beyond the ordinary: trim between the check
and the read (`trim_unchecked`), trim before there is a position
(`trim_unpositioned`), raise in the lookup after a reset (`raise_in_reset`),
refuse INFO (`no_info`).

### SwissDraw

`Read` is the first transaction of `draw_stage_schedule` with the calculation,
which depends on nothing else: it returns any pairing that the search may return
(each pair once, nobody twice, no rivals that have met). `Write` is the second
transaction: locks, `_revalidate_swiss_draw_state`, the trigger of the database,
the placeholders and the places of the round. Between them other draws, teams
that come and go, matches added by hand, publication and results.

### Suspensions

A close is `Begin` (locks, squad and report), `Validate`, `Serve` (derivation
and insertion of serves), `Mark` and `Commit`; each reads what has been committed
and what it wrote itself. `VersionFree` is the row lock of the version, held to
the end; closes of two tournaments therefore overlap and those of one do not.
`RolledBack` is a refusal or any failure. A suspension is named by the card event
it comes from, as `dedupe_key` does. `closed` keeps the order of the commits.

### League, Calendar, Standings

`League` is a stage of type `round_robin` or `custom_group` from its first team
to its publication and on into its clone. `groupOf` is `tournament_teams` and
`stage_teams` in one: a team is absent, registered outside the stage, in the
stage without a group, or in a group. Every request but one is an action, for it
reads and writes under the locks of stage and version; `create_match` is two
(`CreateRead`, `CreateWrite`), because `_load_draft_stage_context` reads
`schedule_legs` before `lock_stage_and_version`. `Calendar` is what
`build_round_robin_schedule` and `distribute_groups` compute, `Standings` what
`StandingsService.recalculate` computes from a stage; `Schedule` and
`Distributions` of `League` keep of the first what `IsFair` and `AreEven` check.

### MatchOperation

One match: `segments` with their `interruptions`, the sheets and formations of
each segment (`snapshots`, `formations`, `matchRoster`), the `events` of its report
and the status of its row, with the rules and the status of the version and the
registrations around it. A write of the operation holds the row of the
match, so it is one action; saving and publishing a lineup are two each (`writer`
is what such a request will write), for registrations and rules change without
that row. `Close` validates segments and
events as `_validate_segments` does and ends the active segment.

### MatchReport

A behaviour is a report, event by event in the order of `IsNext`, as
`replay_report_state` goes through it. `spells` keeps the intervals of each player
(`OnFieldState`), `usage` the substitutions; `SegmentBalance` is what
`_rewrite_segment_team_state` writes at the end.

### Rosters, Media

A request of `Rosters` is a transaction of several steps; an insert that collides
with a row of an open transaction waits for it (`MustWait`), as a unique index
makes it. `Media` has the upload, the transaction and the deletion of the old
object as separate steps of each request, any of which may fail, take effect
without an answer, or be the last thing a process does.

### Accounts, Members

`Accounts` splits a sign-in with Google where the code awaits the provider or
ends a transaction: `Return` takes the attempt, `LoginRead` looks for the account,
`LoginCreate` inserts it and `LoginConflict` is the insertion that loses and looks
again; `LinkRead` and `LinkWrite` are the same for a link. `Members` splits a request where it has read what it
does not lock: the pending invitations of an address, the owners of the
organization. Time enters as the expiry of an invitation.

## 4. Runs

Cases that share no state are checked by one run, as initial states that go
separate ways: `part` in `MCMatchDay`, `case` in `MCDraws`.

| Run | Module, cfg | What it shows |
|---|---|---|
| `outbox` | Outbox, Outbox.cfg | Two workers, two events, one crash, one requeue: `ProcessedWasPublished`, `FreshClaimIsExclusive`, `ProcessedIsFinal`, refinement of `AtLeastOnce`, and `EverythingSettles` |
| `bracket_double` | MCBracket, BracketDouble4.cfg | Four teams, every order and outcome of the seven matches: `ResetOnlyIfNeeded`, `EndsWithOneChampion` (who is alive plays, and one is left), `NeverStuck` |
| `bracket_clone` | MCBracket, BracketClone.cfg | Three teams (one bye), three versions, clones and publications between reports: `ClosedFeedsTarget`, `OnePublishedVersion`, `ResultsAreFinal`, `ArchivedIsFrozen` |
| `bracket_clone_reset` | MCBracket, BracketCloneReset.cfg | violation: the clone of a double elimination has an open GF2 |
| `relay` | MCRelay, Relay.cfg | `RepeatsAtMostTheLast` in every environment; `NoSilentGapIfChecked` and `Served` where nothing is lost unchecked |
| `relay_reset` | MCRelay, RelayReset.cfg | violation: a raise after a restart of Redis hides the loss |
| `draws` | MCDraws, Draws.cfg | Two Swiss draws under way, up to four teams, two rounds: `PairingsHold`, `PublishedStays`. The life of a league and of a stage of two groups of up to four teams: `LeagueHolds`. Every bracket of up to 40 (single) and 32 teams (double), every league of up to 16, every dealing out of up to 7 teams to two or three groups, every table of three teams: `DrawIsABracket`, `CalendarIsFair`, `TableIsRight` |
| `access` | MCAccess, Access.cfg | Two addresses, identities, browsers and callbacks; two rows of invitations with three links: `AccountsHold`, `SessionOfTheLinked`, `LinksNeverRevive`, `AcceptedByItsPerson` |
| `access_owners` | MCAccess, AccessOwners.cfg | violation: the last two owners are disabled at once |
| `matchday` | MCMatchDay, MatchDay.cfg | Four matches of two tournaments: `SuspensionsInOrder`, `NoSuspendedPlays`. One match from draft to close: `OperationInOrder`, `NeverStranded`. Three requests on a roster: `OneRegistration`, `LockHonoured`. Three on its pictures: `PicturesInOrder`. Every report of four events: `ReportAddsUp`, `PlayedByThoseOnField` |
| `suspensions_over` | MCSuspensions, SuspensionsOver.cfg | violation: a suspension of one match is served twice |
| `report_order` | MCMatchReport, ReportOrder.cfg | violation: a goal by a player who has left |

`matchday` and `report_order` check the same `PlayedByThoseOnField`. It holds in
the first because there only the last segment has added time, so that the order
of the events and the order of their effective minutes agree; the second has
added time in the first segment, and they do not.

**Bounds.** The outbox needs two workers for a stale one to meet a fresh one,
two events for a batch, two attempts for both outcomes of a failure. Relay uses
a stream of two with four entries: one more than a batch and one more than a
trim, one entry malformed. The double elimination of four teams is the smallest
with a losers' round fed from two lanes; three versions are the fewest in which
an archived, a published and a draft one exist together. Four teams are the
fewest with a second round without rematches and the fewest for two groups; two
draws are the fewest that can race, and one creation is enough in `League`
because its write is one step. Three teams are the fewest for a mini-table that
is not the whole table of the pair. In the suspensions one player is enough because the
rules of a player read no other player; two
tournaments of two matches let a suspension of two be earned in one and served
while matches of both overlap, and each match is a stage of its own, with the
clearing of yellow cards in one of the tournaments. A match has
one starter and one registration on each side, of which one may be retired: what
the operation says of a formation is its size, and what it says of a player is
whether he is registered. Two segments suffice for an interrupted one that is
resumed and for regular and extra time. Three requests on a roster or a picture
are one more than a race: the third retires, locks or deletes. Four events are
two substitutions, so that a player may come back, with an event on each side.
Two callbacks, two browsers and two identities are the fewest for an attempt to
be used by another browser or account; three links let one be renewed twice.

Symmetry is only taken of sets whose members nothing tells apart: teams and
requests of `MCDraws`, requests, rows and addresses of `MCAccess`. No run that checks liveness has it.
Counters that the code does not bound are
bounded by guards: `MaxId`, `MaxRuns`, `MaxFaults`, `MaxCrashes`, `MaxRequeues`,
`MaxByHand`, `MaxAdded`, `MaxGroups`, `MaxSegment`, `MaxEvents`, `MaxReport`,
`MaxState`, `MaxToken`, `MaxCards`. Deadlock is not checked where the system may stop:
everything played, or the bounds used up.

**Fairness.** `Outbox!Fairness` assumes that `_run_loop` keeps calling (each
call returns or raises) and that the clock advances; nothing makes producers,
operators or crashes happen. `Relay!FairSpec` assumes that the loop of the
process goes on; nothing is assumed of Redis, of trims or of clients. The other
modules claim no liveness: a stage waits for people.

## 5. What is proved

For every value of the constants that satisfies the assumption of the module.
Each bullet names the theorems, with the property where it has another name, and
why the property is not inductive as it stands: the parts of the invariant that
say more than the property are the argument.

* **OutboxProofs.** `TypeCorrect`, `NothingLost` (`ProcessedWasPublished`),
  `ProcessedStays` (`ProcessedIsFinal`), `ClaimsAreExclusive`
  (`FreshClaimIsExclusive`) and `Refinement` (`ImplementsAtLeastOnce`). A worker
  that is about to complete an event must have appended it
  (`CompletingWasPublished`) and hold one (`HasEvent`); the refinement also needs
  `HeldIsCommitted`: what a worker holds has been committed, so that appending it
  is a step of the promise. Exclusive claims need `FreshInv`: a row whose lock has
  never expired is held by one worker, in one place (`HoldsInTurn`), and while it
  is held it cannot be claimed (`HeldByOne`), for its status is `processing` but
  for a completion whose answer was lost.
* **BracketDrawProofs.** `SingleIsABracket` and `DoubleIsABracket`: what is drawn is
  a bracket, for every number of teams not below two and for every power of two
  not below four. `IsABracket` counts slots and links; the proofs say where each
  entrant is (`BracketBySlots`). The rounds of a double elimination halve, so that
  its matches are numbered as in a heap (`PlacesAreCounted`), and who comes to a
  slot can be read off its round (`ComesTo`). The single elimination is a loop over
  entries, some of them empty: `SoFar` says that after each round whoever is left
  stands in front of the empty places, that everybody else has one slot, and how
  many matches there are. No induction theorem of the library is needed: the rounds
  for which `SoFar` holds are a set of numbers that has 0 and the successor of each
  of its members (`AllNumbers`).
* **BracketProofs.** `TypeCorrect`, `OneVersionPublished`, `ResultsStay`
  (`ResultsAreFinal`), `AdvancementHolds` (`ClosedFeedsTarget`), `ArchiveStays`
  (`ArchivedIsFrozen`), for any bracket whose links satisfy `BracketAssumption`:
  each side of a match is fed by one link at most and is not placed by the draw,
  no link touches GF2, and GF1 comes with a GF2. TLC checks for every drawn
  bracket of the instances that the assumption holds. The argument rests on
  `FileEffect`: what filing a report changes, slot by slot, and that it writes
  into no closed match. Of the version that was drawn more is proved, from
  `DrawnIsKept` (nothing is written over it): `NobodyEarly`, no team is in a match
  before it has earned it; and `ResetOfTheDrawn`, GF2 is on if and only if the
  visitor has won GF1. `ResetWithoutClones` is `ResetOnlyIfNeeded` where there is
  one version: with a clone it is false, as the run `bracket_clone_reset` shows.
  `NeverWedged` (`NeverStuck`) and `ChampionInTheEnd` (`EndsWithOneChampion`) for a
  bracket that was drawn, single or double, of any number of teams
  (`DrawnAssumption`; that it is one is `DrawnIsABracket`, from the theorems of
  `BracketDrawProofs`). `LinksInTurn`, `EntriesOnce` and `DefeatsAdd` are its shape in
  terms of what is played. `Playing` says that a slot is full once what feeds it is
  closed, so that the first open match of the calendar has both its teams: it is
  the one whose report is accepted. `Championship` ties the matches to the defeats:
  a team has lost as often as the lane of its match says (`DefeatsCounted`), is in
  one open match at most (`OnePlace`) and in one as long as it may win
  (`AliveHasPlace`); when the last match is closed nobody else is alive.
* **RelayProofs.** `TypeCorrect` and `RepeatsLast` (`RepeatsAtMostTheLast`) for
  any stream, batch and number of faults, in every environment: `Ordered` says
  that whatever the relay may still read or holds in its batch is at or past the
  last emission. `NothingSkipped` (`NoSilentGapIfChecked`) for an environment that
  loses nothing unchecked: `GapInv` says that what is owed and no longer in the
  stream will be noticed, since Redis is another one than the state remembers or
  the oldest entry left is past the position (`Detectable`); that a connection is
  to one Redis as long as it stands (`Connected`, `Following`); and what each
  await of a cycle has established (`InCycle`).
* **DrawsProofs.** `PairingsAlwaysHold` (`PairingsHold`) and `PublishedAlwaysStays`
  (`PublishedStays`) for any number of teams, rounds and draws under way. The
  second transaction of a draw checks part of what the first one read; `SwissInv`
  says why that is enough. A first round is written in a draft, over nothing
  (`Calculated`: without replacement it was read from an empty stage). A later
  round was computed after the publication (`DraftIsUndrawn`), when the teams of
  the stage do not change any more, from rounds that are played to the end
  (`StillHolds`); and if the places it found are still free, no round after it can
  have been drawn. `OneIsLeftOver` and `EveryPairPlaced` give the completeness of
  a round. `LeagueTypes` and `LeagueIsSound` (`LeagueHolds`) for any number of
  teams, groups, requests and matches added by hand: `AtMostTwice` speaks of the
  teams and groups of the stage at the time, `FewMeetings` says it of every two
  teams and every group. That a request may have read the legs of an older
  calendar costs nothing, for it never reads more than two; that a match stays
  with its group rests on `_clear_stage_schedule` deleting every match before the
  teams are dealt out again, and on `remove_stage_team` refusing who plays.
  `DrawsTypes` (`DrawsTypeOK`): the composition implements the specification of
  each stage. `EveryDrawIsABracket` (`DrawIsABracket`) for any bound on the teams,
  from `BracketDrawProofs`; `SameDraw` and `SameBracket` carry a theorem from one
  instance of `BracketDraw` to the other.
  `EveryCalendarIsFair` (`CalendarIsFair`) for any bounds, in one leg or two:
  `PlaceOf` says where the rotation puts a team in each round, and two teams sit
  opposite each other in exactly one of them (`OppositeOnce`: for two that move, the
  round in which their places add up to one more than there are places). So each pair
  meets once in a leg, `NumbersInOrder` counts the matches of a round without the
  pair of the bye, and the second leg turns the sides around. `MembersOf` is taken
  apart by chunks (`ServedAre`): every chunk but the last serves every group, so
  groups differ by one team at most.
* **AccessProofs.** `AccountsTypes`, `NobodyTakenOver` (`AccountsHold`) and
  `SessionsOfTheLinked` (`SessionOfTheLinked`), from `CallbacksKnow`: what a
  callback has learnt of the provider, of its attempt and of the account it found
  stays true, for identities are never taken away and attempts are taken once.
  `MembersTypes`, `LinksStayDead` (`LinksNeverRevive`) and `AcceptancesAreRight`
  (`AcceptedByItsPerson`), from `RowsRight`: links are numbered as they are
  issued, and no address has two pending rows. `AccessTypes` (`AccessTypeOK`) for
  the two together. That the organization keeps an owner is not a theorem: the
  run `access_owners` refutes it.
* **MatchProofs.** `MatchTypes`, `OperationIsInOrder` (`OperationInOrder`) and
  `NobodyStranded` (`NeverStranded`), from `SegmentsInOrder`, `EventsInOrder`,
  `InterruptedOnce` (an interruption is of a segment that ended with it) and
  `PublishedIsComplete` (a request that is about to publish has found the lineup
  complete, and it stays so). `ReportTypes`, `ReportIsRight` (`ReportAddsUp`) and
  `OnlyThoseOnField` (`PlayedByThoseOnField`) for any squad, limits, segments and
  number of events: `SpellsInOrder` and `FieldIsOpen` tie the intervals to the
  field, `UsageIsOfReport` the counters to the report. The last two hold under
  `TimesAgree` (the order of the events is that of their effects), the condition
  under which intervals are of the past (`InThePast`); `MCMatchDay` assumes it of
  its times and TLC evaluates it, and the run `report_order` shows what happens
  without it.
* **MatchDayProofs.** `SuspensionTypes`, `SuspensionsAreInOrder`
  (`SuspensionsInOrder`) and `NobodyPlaysSuspended` (`NoSuspendedPlays`) for any
  players, matches, tournaments and limits. One close of a tournament is under way
  at a time (`OneClose`), so what its validation found is so until it commits
  (`SquadIsClear`), and what it is about to write is what the state derives
  (`WritesAreDerived`); the converse, that closes of two tournaments overlap, is
  why the run `suspensions_over` finds a suspension served twice.
  `RostersTypes`, `NobodyTwice` (`OneRegistration`) and
  `LockIsHonoured` (`LockHonoured`): that two registrations do not collide must be
  said of those of every transaction, committed or not (`PlayersOnce`,
  `NoneCollide`); that is what waiting for the row of another transaction is for.
  `MediaTypes` and `PicturesAreInOrder` (`PicturesInOrder`): until a request is
  over nobody knows its key (`WrittenOnce`), a key is of a photo or of a crest
  (`KindOfKeys`), and what is about to be deleted is in no row (`DropsAreLoose`). `DayTypes`
  (`DayTypeOK`): the composition implements the specification of each part.

The assumptions are those the code gives: sizes are natural numbers, the sets
that are counted (teams, players, squads, segments) are finite, and a name that
stands for nothing names nothing. Two say more: no player has more cards in a
match than `MaxCards`, and one that sends off at most (`Suspensions`); and the
links of a bracket are as above. Inductions over numbers (`MultiplesReached`,
`SoFar`, the powers of two) go through the least member of a set of numbers
(`LeastExists`), since the induction theorems of the library take an operator.

Only model-checked:

* liveness (`EverythingSettles`, `Served`): the prover does not do ENABLED, on
  which fairness rests;
* what tables compute (`TableIsRight`): folds over sequences, which take an operator
  and so are out of reach of the provers;
* the violations, which are counterexamples.

## 6. Disagreements between the code and its documents

1. **A cloned double elimination opens GF2** (`bracket_clone_reset`). The clone
   inserts every match as `scheduled`; `docs/contrato-reglas.md` says GF2 starts
   cancelled and is activated only when the visitor wins GF1.
2. **A loss that is never announced** (`relay_reset`). The new `run_id` is stored
   before the tail is looked up; if that call raises, the next cycle sees the
   `run_id` it expects. The docstring of the relay promises a RESYNC.
3. **A suspension served twice** (`suspensions_over`). Two overlapping closes of
   two tournaments insert a serve each; spec 018 says the matches served are
   exactly the configured ones.
4. **An organization without an owner** (`access_owners`). Each request counts the
   active owners under the lock of the one it disables; the code answers that the
   organization must keep one.
5. **A goal after leaving the field** (`report_order`). Events are ordered by
   minute and added minute, presence is decided by their sum; spec 007 says a goal
   after a player has left is refused.

Seen while modelling, and checked by no run:

* **A first Swiss round without a team.** The second transaction of a draw compares
  the matches of the stage and not its teams (`_revalidate_swiss_draw_state`,
  router.py:3484), although its docstring says that nothing is written if the
  stage changed. `SwissDraw` reaches it: `PairingsHold` asks for completeness from
  the second round on. The team then stays without a match until the round is
  drawn again; with one pair more than there are placeholders, a published stage
  refuses every later round.
* **The legs of an older calendar.** `create_match` compares with the legs it read
  before the locks (router.py:4103), so a pair may meet twice in a stage that was
  drawn again with one leg; specs/008 RF-009 says such a match is in no case
  created. `League` reaches it, and `LeagueHolds` says how far it goes.
* **Home and away with one leg.** The sides follow from the parity of round and
  pair (scheduling.py:209): a team may play all its matches of one leg at home,
  where the hint of the draw dialog says they are balanced. `CalendarIsFair` asks
  for balance between two teams over two legs.
* **Formations made public late.** `_update_version_rules_record` looks for public
  formations before it writes the rules (router.py:882), under the lock of the
  version; `publish_match_lineup` takes the one of the match. `MatchOperation` has
  both orders.
* **Two documents inserted in opposite order** by two imports wait for each other;
  PostgreSQL refuses one, which `Rosters` models as a failure.
* **An object left behind.** When two requests replace a photo at once, the object
  of the first stays in the storage without a row: `PicturesInOrder` asks that no
  row names a missing object, not the converse.

## 7. What is not modelled

* The modules meet at the interfaces named above and not in one state: `Bracket`
  and `SwissDraw` take any outcome a report may give, `Suspensions` any squad and a
  fixed set of registrations, `MatchOperation` any report whose events fit.
* In `SwissDraw`: the order of preference of the search and its budgets, and
  segments opened while the version is a draft.
* In `League`: the heads of groups, dates and codes (`Calendar` has the first), the
  limits of the size of a roster, knockout and Swiss stages (`Bracket`,
  `SwissDraw`); a team is never taken out of the tournament, for no route does it.
* In `Suspensions`: voided events and serves (columns no code writes), and the
  wait for the row of another close is one step, in no order of rows.
* In `MatchOperation`: officials and their assignment. In `MatchReport`: which
  error is told first, the minutes a sheet declares, and old substitutions that
  name no pair; the score is the one of `Bracket` and `Standings`.
* In `Rosters`: teams and their contacts, and the limits of the size of a roster.
* In `Members`: one organization; its creation and its status are left out.
* Lock order: what holds a lock to the end is one step, so that the modules cannot
  deadlock; that the handlers take their locks in one order is planned.
* Public statistics and projections only read. Request guards, settings and
  permissions decide on a single request without state of the domain. The
  heartbeat and the maintenance scripts are left out; the web client is
  represented by what it may miss or see twice in `Relay`. Migrations and grants
  are taken as the schema they lead to.
