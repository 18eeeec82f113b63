# Formal model of Stammtisch

TLA+ specifications of the Stammtisch server, the TLC configurations that
check them on small instances, and the TLAPS proofs of what holds for every
instance.  Paths in this file are relative to the repository's root.

The repository is a voice and chat server in the making.  `main.go` reads the
configuration and exits: no owner wires the parts together yet.  What is there
is a set of packages with complete state machines and complete tests: the
domain rules (`internal/orchestration`), the stores behind them
(`internal/store`), the connection and its negotiation
(`internal/signalling`), accounts and sessions (`internal/auth`), the contract
with the media plane and a faulty stand-in for it (`internal/media`), a
transport adapter, a log that cannot hold content, and a latency bench.

## 1. The system

### 1.1 Components, what they keep, what they do

| Component | State | Operations | Talks to |
|---|---|---|---|
| Presence projection, `orchestration/presence.go` | per member the newest accepted report's sequence and published presence; per channel an occupancy count kept beside them | `Apply`, reads | the hub, which owns it |
| Presence hub, `orchestration/presence_hub.go` | known channels, attached clients with their viewer and subscriptions, the changes pending since the last flush | `AddChannel`, `Attach`, `Detach`, `Subscribe`, `Unsubscribe`, `Apply`, `Flush` | the projection; the store, through `Allow`, for every question of visibility; the transport, by the messages it returns |
| Resume register, `orchestration/resume.go`, `grace.go` | the revision; per suspended session its member, deadline, starting revision and missed channels; the order of suspension | `Published`, `Suspend`, `Resume`, `Reap` | the clock; its owner, which feeds it what a flush moved and acts on whom it reaps |
| Space, `orchestration/domain.go` | channels, rooms (one per channel at most), occupancies (one per member at most) | `AddChannel`, `OpenRoom`, `CloseRoom`, `Enter`, `Leave`, `Switch` | callers only |
| Always-on flag, `orchestration/always_on.go` | a flag in a `*Channel` | `SetAlwaysOn`, permission first | `Allow`, the channel, the store that persists it |
| Permissions, `orchestration/permission.go` | none | `Allow`: default deny; nothing on a channel is allowed to who may not see it; a bot is a principal like a person | a `Grantor`: the store |
| Clock and identifiers, `orchestration/clock.go`, `id.go` | the fake clock's instant; nothing else | `Now`, `Advance`; `Parse`, `New` | everything above |
| Store port and in-memory store, `store/store.go`, `memory.go` | channels, members, grants, gains, under one mutex | `Put*`, `Grant`, `SetGain`, reads | the domain objects it keeps pointers to |
| SQLite store, `store/sqlite/sqlite.go`, `migrate.go` | the same in tables; the schema version in the file | the port; `Open`, which migrates | a file that survives the process and that two processes may open |
| Signalling connection, `signalling/conn.go`, `negotiation.go`, `frame.go` | per connection: authenticated, refused | `ReadFrame` with the unauthenticated gate, `WriteFrame`, `Negotiate` | a byte stream; `auth.Admit` |
| Sessions and authentication, `auth/session.go`, `authenticate.go`, `credential.go` | session table by token digest, under one mutex | `Open`, `Lookup`, `Revoke`, `List`; `Authenticate`, `Admit` | the connection it admits, the clock |
| Media plane port and its fake, `media/port.go`, `media/fake/fake.go` | rooms, admissions, sources, subscriptions, gains, induced faults, under one mutex | twelve port operations, twelve switches for faults | the orchestration side that will call it |
| Transport, `transport/*.go` | none | websocket messages as a byte stream | the connection |
| Logging, `logging/logging.go` | a writer under a mutex | `Record` | every part |
| Configuration, `config/config.go` | none | `Load` | `main.go` |
| Latency bench, `bench/` | a delay line, signal buffers | measuring | nobody |
| Bot API, `botapi/` | none yet | none yet | nobody |

How they meet at run time, once an owner exists: a connection is negotiated,
authenticated and admitted; its client attaches to the hub of a space and gets
the counts it may see; members' reports reach the hub, which folds them into
the projection and collects what moved; once per `PresenceCoalesceInterval`
the owner flushes, sends each client what it may see, and tells the register
which channels moved.  A connection that drops is detached from the hub and
suspended in the register; a ticket inside the window attaches it again; the
owner reaps the rest and reports a leave for each.

The hub, the projection, the register and the space are not safe for
concurrent use and say so: one owner makes one call at a time.  The
concurrency of this layer is therefore the *order* of calls, of reports and of
the clock, and not the interleaving of statements.  `Reap` is the one
exception: it reads the clock once per suspension, and the clock is not the
owner's.  The stores, the sessions, the fake and the log have mutexes and
real threads.

### 1.2 What is hard, and what makes each part correct

- *Projection.*  Reports of one member arrive late, twice, reordered or never.
  What is shown must be the newest that arrived, leaves included; the counts,
  moved one at a time on four paths, must remain the occupancy.
- *Hub.*  Changes are collapsed into the last one per member and channel and
  filtered per client at the moment of the flush, by permissions that change
  in between and may be unreadable.  What a client ends up showing must be the
  truth or have a correction coming; it must never have been sent what it may
  not see.
- *Register.*  A map and a slice kept beside each other; a set given up at a
  bound; a deadline that races a ticket and a walk that races the clock.  A
  place must end in a resume or in a leave, never in both and never in
  neither, and the difference named must cover what was missed.
- *Hub and register together.*  Suspensions are per session, occupancies per
  member, and a suspension whose ticket came too late stays until `Reap`.  Nobody
  may be shown without a connection or a place, a drop inside the window may
  move nobody, and a resumed client must be told of what it missed.
- *Space.*  One room per channel, one occupancy per member, nobody seated
  where no channel is, whatever calls were refused before.
- *Stores.*  Two implementations of one port; a pointer shared with the
  caller in one and not in the other; a multi-row write outside a transaction.
- *Migrations.*  A crash between steps, a version read outside the
  transaction that raises it, two openers.
- *Signalling and sessions.*  A gate that must hold for any bytes; a refusal
  that must be final; a session revoked or expired between its lookup and the
  admission it justifies.
- *Media.*  Every operation may fail after or before its effect; a publish is
  answered and the source never arrives; a drain gives up.

`PROJECT.json` lists these hazards one by one, each at its line, with the
properties that would catch it going wrong or the reason there is none.

## 2. The modules

```
 PresenceRegister (abstract)        Resumptions  resume.go, grace.go
        ^ refined by                 |         |
 PresenceFeed --- PresenceProjection |         +-- ResumptionsAlone --- ResumptionsProofs
        |           presence.go      |
 PresenceFeedProofs     |            |
                   PresenceHub       |
                 presence_hub.go     |
                    |        |       |
      PresenceAudience      ResumeServer   resume_test.go's owner
          |        |             |
 PresenceAudience  MCPresence   MCResumeServer
   Proofs          Audience
```

```
 Permissions   permission.go       Sessions   auth/session.go,     MediaPort   media/port.go
      |                                |      authenticate.go          |
    Space      domain.go,              |  Signalling               MediaFake --- MediaFakeProofs
      |        always_on.go            |    |  signalling/*.go         |   media/fake/fake.go
   Stores      store/memory.go,     Admission                          v implements
      |        sqlite/sqlite.go        |    transport/, Admit      MediaPlane (abstract)
 StoredSpace --- MCStoredSpace     MCAdmission
```

A line down is EXTENDS, but `Admission` takes `Sessions` by INSTANCE.
Beside each module with a specification stands one with its proofs, which
begins with the lemmas about the operations it is composed of: `PresenceFeed`,
`PresenceAudience`, `ResumptionsAlone` (`ResumptionsProofs`), `ResumeServer`,
`MediaFake`, `Admission`, `StoredSpace` and `Migration`.  The last, with
`MCMigration` and `MigrationProofs`, stands apart: `store/sqlite/migrate.go`
and the `Open` that calls it.

### PresenceProjection, PresenceRegister, PresenceFeed

`PresenceProjection` is the type of `presence.go`.  `seq` is the map of
registers, 0 for a member never heard; `present` the published presence;
`counts` the map of counts, where a missing entry is 0.  `Refused` is the
three early returns of `Apply`, `ChangesNothing` its two "no change" returns,
`CountsAfter` the calls of `decrement` and the increments of the last path.
`Publish` truncates the arrival instant to whole seconds (`Unix`), so two
reports with different instants may publish the same thing.

`PresenceRegister` is the promise: what is shown of a member is the newest
report that was ever heard, without sequence numbers and without counts.  `PresenceFeed` drives the projection with every member's own numbered
reports, delivered in any order, any number of times, malformed ones included,
and `RegisterSpec` states that it implements the register under
`shown <- present`.

### PresenceHub, PresenceAudience

`PresenceHub` adds the hub's maps: `known`, `attached`, `subscribed` and
`pending`, and the store's `grants`.  One operation of the hub is one action.
`pending[c]` is the entry of channel `c` in the map of changes (`Quiet` when
there is none): whether the count moved, and the last update of every member.
`Visible` is `Allow(store, viewer, SeeChannel, channel)`; its argument
`failed` names the questions whose read fails, which the SQLite store answers
with an empty set.

`PresenceAudience` adds the clients.  `told` and `seen` are their screens,
folded from the messages exactly as the messages say: a count replaces a
count, an update replaces or removes a member.  They make it possible to ask
whether what people look at is right, and who was sent what.

### Resumptions, ResumptionsAlone

`Resumptions` is the register.  `held` is its map, `order` its slice,
`revision` its counter, `now` the injected clock.  `Refusal` gives the four
errors of `Resume` in the order the code decides them, `Difference` the
`Missed` of an accepted ticket, `Collected` what a batch does to a suspension
(`None` is the nil set of a suspension that has given up naming).  `Reap` is
`ReapBegins`, `ReapJudges` per suspension and `ReapReturns`: `walk` is the copy
of the order that it ranges over.  While it is under way no other call starts,
and the clock moves.

`ResumptionsAlone` drives it with every order of calls and every ticket,
tickets for other members and for revisions never published included.  `log`,
`answer` and `asked` are history: the batches, the last answer, and when the
last `Reap` began.

### ResumeServer

The hub and the register under one owner.  That owner is not in the tree; its
steps are those of the rig in `internal/orchestration/resume_test.go`
(`newResumeRig`, `flush`, `settle`), which is the only code that makes both
sets of calls.  `Connects` is the normal connection, which `Hub.Attach` grants
without a look at the register: the first one, one without a ticket, and the one
that follows a ticket refused because its window had passed, whose suspension is
still held.  `Drops` detaches and suspends; a session that is held already is
refused and its window goes on.  `Resumes` resumes and attaches,
`IntervalEnds` flushes and publishes the channels that stand in any delivery,
`Settle...` reaps and `LeaveIsReported` reports each leave with the member's
next sequence.

`place`, `found` and `unsent` are history.  `place` is the channel a member's own
last report asked for, or was shown in when a connection of theirs last began or
went; reaping and reporting a leave do not touch it.  `found` is what was held
for a session when its connection began: nothing, a place, or, "late", a place
whose window had passed; and "rejoined" once such a member joined again.
`unsent` is what a client has missed.

`PlaceIsKept` speaks of whoever dropped, while their window runs, and of
whoever came back inside it or connected with nothing held.  It does not speak
of a connection that found a place still held, since what becomes of that one
`LeaveThenJoin` states and finding 1 refutes.  The rig's owner is not preempted between
`Reap` and the leaves it reports, which is `Idle`; the clock is not held up by
it.

### Migration

`stamp` and `schema` are what the file has committed: its `user_version` and
its objects, each named by the migration and the statement that created it.
`version[o]` is the migration that the loop of process `o` is at, which follows
from a stamp that was read once, outside every transaction, and may be old by
the time it is acted on.  `writer` and `done` are the one transaction that
writes and how far it has come.  `Executes`, `Stamps` and `Commits` are the body
of the loop, statement by statement; `Stops` is every error `Open` returns, a
store that is closed and a process that dies, anywhere.  Processes may be of
different builds: `Latest[o]` is the end of the list that `o` was built with.

SQLite is external and modelled from what `migrate.go` relies on: one writer,
nothing left of a transaction that did not commit, a `CREATE` that fails for
what exists.  The last is what stops a process whose stamp is old, and it does
so only because every statement of the present history is a `CREATE`: a
migration made of statements that can be repeated would be applied twice, and
the stamp could be taken back.  The mutation `ExecutesIfNotThere` shows it.

### Permissions, Space, Stores, StoredSpace

`Permissions` is `Allow`, as a function of what the Grantor answers.  A
permission is its name, as it is in the store, and `Retired` is a name that no
longer parses.

`Space` is the live space.  `heap` holds the channels there are, and a member
of `Handles` is a `*Channel`: `NewChannel` allocates, `AddChannel` keeps the
handle, `SetAlwaysOn` writes through it.  `live` is history, the rooms callers
were given and nobody closed.

`Stores` is the port behind both implementations; `Backend` says which.  The
three places where they differ are operators: `Kept` (memory keeps the handle,
SQLite a row), `Batch` (memory writes a grant at once, SQLite one statement per
permission) and `Answers` (a read of grants that fails answers the empty set).
`granting` is the calls of `Grant` under way and what they have left to write;
other calls run between their statements.

`StoredSpace` composes them in one process: any sequence of the callers' calls,
a grant whose statement fails, and `Restarts`, the end of the process anywhere
and a new one on the same file, with an empty space that lists the channels
again.  `Legacy` is rows an earlier build left.  `called`, `answered`,
`lastPut`, `lastSet` and `joined` are history: what was asked for and answered,
kept in a second way that does not pass through the code's maps.

### Sessions, Signalling, Admission

`Sessions` is the table and `Authenticate`.  A token is a model value, its
digest the same value.  `Open` draws a token and reads the clock before it
takes the lock: `Authenticates` and `Opens` are the two steps, and other
logins, revocations and the clock run between them.  `proven`, a set of
tokens each with the member whose credential matched, `given` and `revoked` are
history, so that it is checked whose list holds a token and whose connection it
admits.

`Signalling` is a connection seen from the server: `wire` is what the peer has
written and nobody read, frame by frame; `FrameError` is the order of the
checks of `ReadFrame` and its gate, `ReadError` puts an earlier refusal before
them, `NegotiationError` that of `Negotiate` and
the decoding of a hello, field by field.  `authenticated` and `refused` are the
fields of `Conn`; `result` is history, the error `ReadFrame` last returned.
`RefusalsAreFinal` says of a refused connection that every later read returns
that error and takes no frame off `wire`, in every stage a caller may be in.

`Admission` composes them with the transport's check of confidentiality.
`Admit` is three steps: it reads a frame, looks the session up, opens the gate.
The function that serves an accepted connection is not in the tree; its steps
(negotiate, admit, try again when that fails, read frames) are those of the
tests of the three packages, and each may be followed by a close.  The peer
writes anything at any time.

### MediaPort, MediaPlane, MediaFake

`MediaPort` is the vocabulary of the port and the errors each operation
declares.  `MediaPlane` is what a media plane promises, without errors and
without faults: nothing flows but between two members of one room, nothing
survives the member or room it belonged to, and a room that drains takes
nobody in.  `MediaFake` is the stand-in: twelve operations, the misbehaviours a
test can induce (`unit`) and those it lets happen (`DropSubscription`,
`SetSpeaking`, `SetHop`).  Every operation holds the lock from its begin to its
return and is one step.  `PlaneSpec` states that the fake implements
`MediaPlane` under `inside <- Seats, closing <- draining, flows <- subs`.

### Mutation operators

An operator commented "Mutation of X" is X with one plausible mistake: a guard
dropped, a mark forgotten, a walk over a list while it shrinks.  No
specification uses them.  `PROJECT.json` names, for every property of every
passing run, the mutation under which TLC finds that property violated, so
each property is known to depend on what the code does.

## 3. The runs

Run one with `tlc -workers 2 -config <cfg> <module>`.

| Run (cfg, module) | Instance | Shows |
|---|---|---|
| `feed` (PresenceFeed, PresenceFeed) | 2 members, 2 channels, 2 reports each, 3 instants at 2 ticks per second | `CountsMatchOccupancy`, `HoldsNewest`, and the refinement `RegisterSpec` |
| `audience_one_client` (PresenceAudienceOneClient, MCPresenceAudience) | 1 client, 2 members, 2 channels, sequences to 3 | `HeldCountIsCurrent`, `ShownListIsCurrent`; `StaleCountIsCorrected` under a flush per interval |
| `audience_disclosure` (PresenceAudienceDisclosure, MCPresenceAudience) | 2 clients of 2 members, 1 channel, every subset of the reads failing | `NothingHiddenIsHeld` |
| `resumptions` (ResumptionsAlone, ResumptionsAlone) | 2 sessions, 2 members, 2 channels, window 2, breadth 1, 2 revisions, clock to 4 | `OrderMatchesHeld`, `OrderedByDeadline`, `MissedIsTheGap`, `AnswerCoversTheGap`, `ReapTakesTheExpired`, `PlacesEndOnce`; `EveryPlaceIsSettled` under fairness |
| `server` (ResumeServer, MCResumeServer) | 2 members on a device each and 1 watcher who is a third, 2 channels, window 1, clock to 2, up to symmetry | `TypeOK`, `NobodyIsAGhost`, `PlaceIsKept`, `MissedNamesWhatMoved` |
| `server_live` (ResumeServerLive, MCResumeServer) | 1 member on 2 devices, 1 channel | `AbsenteesLeave` under fairness |
| `server_late_join` (ResumeServerLateJoin, MCResumeServer) | the instance of `server` | violates `LeaveThenJoin`: finding 1 |
| `migration` (Migration, MCMigration) | 3 processes of 3 consecutive builds, migrations of 2 statements | `StampMatchesSchema`, `OpenHasItsSchema`, `StampOnlyRises` |
| `media` (MediaFake, MCMediaFake) | 2 rooms, 2 members, audio, 2 seats, 1 misbehaviour at a time | `TypeOK`, `Rights`, `AnswersAreDeclared`, and the refinement `PlaneSpec` |
| `admission` (Admission, MCAdmission) | 1 connection, 2 tokens, 2 logins, 2 accounts, lifetime 2, clock to 3, versions 1 to 2, 1 frame ahead | `TypeOK`, `OnlyTheProvenAreAdmitted`, `DeadTokensAdmitNobody`, `RefusalsAreFinal`, `BothHoldTheVersion`, `SessionsAreAccountedFor` |
| `store` (StoredSpace, MCStoredSpace) | SQLite; 2 channel values, 2 channels, 2 spaces, 1 principal, 2 rooms, a left-over grant, restarts | `TypeOK`, `SpaceHolds`, `AllowedIsAsked`, `AnsweredIsHeld`, `OnlyManagersChange`, `ReadsAnswerTheLastWrite` |
| `store_memory` (StoredSpaceInMemory, MCStoredSpace) | the same in memory | violates `ReadsAnswerTheLastWrite`: finding 2 |

All these properties but the liveness ones are proved for every instance as
well (section 5).  The type invariants of `PresenceFeed`, `PresenceAudience`,
`ResumptionsAlone` and `Migration` are proved and not checked again.

### Bounds

Every bound is a constant named in its module: `MaxReports`, `MaxSeq`,
`MaxRevision`, `MaxTime`.  Two members are enough for a count to differ from
zero and one and for one member's report to be mistaken for another's; two
channels for a switch; three sequence numbers for join, switch, leave and for a
late report between two others.  A breadth of one with two channels lets a
suspension name everything, give up, and be published to after it gave up.  A
window of two with a clock to four lets a window run out before, between and
after the steps of a `Reap`, and lets two windows overlap; nothing is suspended
so late that the bound would keep its window open.  In `server` a window of one
with a clock to two lets a window pass with its ticket presented before, at and
after its end, and lets the other member's follow; two reports of a member are a
join and what comes after it, and every leave takes a sequence beyond them.  Its
symmetry exchanges the channels, and the two members together with their devices:
nothing in the modules or the properties tells either apart, and no liveness is
checked under it.  In the disclosure run one
channel is enough, since no operation relates one channel's visibility to
another's, and two viewers are what distinguishes them.  Three builds put a
process behind, level with and ahead of the file, two statements put a crash
between them; `Migration` needs no bound beyond its constants.  In `media` two
seats put both members in one room or apart, and one setting away from the
fake's own, `MaxInduced`, is every misbehaviour by itself and each one set and
taken back at any moment; two at once only add refusals.  In `admission` two
tokens and two logins let sessions enter the table in an order they were not
opened in; a lifetime of two and a clock to three let a session expire at every
step of an admission; one frame written ahead of the server is enough, since
the server never looks past the first, and a second connection would share
only the table, which `Logins` and revocations already move.  In `store` two
values let a channel be held by the space and read back beside it; the
identifier built for two spaces, two rooms and one principal are what the
properties tell apart; `Requests` holds a grant of one row, of two rows, on the
space, one that names nothing and one that does not parse; `Percents` a level,
unity and one out of range.  `Callers` is one goroutine: the table of grants
only grows and its rows are independent, so a second could only do what a call
that failed half-way and a second call do.  Where these arguments
are not to be relied on there are the proofs, which have no bounds on members,
channels, clients, sessions or processes.

`CHECK_DEADLOCK FALSE` stands where the bounds stop the system: after the last
report, the last instant and the last batch nothing is left to do.  It stands in
`admission` as well, where a closed connection with every token spent is an
end.  In `migration`, `media` and `store` deadlock is checked.

### Fairness

`PresenceHub`'s comment says that its owner calls `Flush` once per
`PresenceCoalesceInterval`: weak fairness of `IntervalEnds`.  `Reap` is called
by the owner whenever time has passed, returns, and its leaves are reported:
weak fairness of `StartsReaping`, `Reaps`, `SettleBegins`, `SettleJudges`,
`SettleReturns` and `LeaveIsReported`.  Time passes: weak fairness of
`ClockMoves`.  Nothing is assumed of clients, members or connections: no ticket
need ever be presented, no member need ever report.

## 4. Findings

Each is a disagreement between what the code does and what a comment or a
record says of it; `PROJECT.json` quotes both.

1. A ticket that comes too late is refused and its suspension stays held until
   `Reap`; the client is told to join normally, and the hub lets it.  If it does
   so before the next `Reap`, the leave that the old place still owes is reported
   after the new join and with a later sequence: the member is connected, has
   joined, and is in no channel.  `resume.go` promises "one leave and then one
   join" (run `server_late_join`, with one device to a member).
2. The in-memory store keeps the caller's `*Channel` and returns it, so a flag
   that `SetAlwaysOn` changes is what the next read answers although nobody put
   it; `memory.go` says that its implementation and SQLite's answer alike (run
   `store_memory`; `store` checks the same property over SQLite, where it
   holds).

Four more behaviours a reader should know of are listed under "hazards": a
channel that becomes visible after a client attached is not announced to it; a
flush clears an update that was withheld because a grant could not be read; a
member with two expired sessions is named twice by one `Reap`; and a flush with
nobody attached leaves its caller no channel to publish.  The properties are
stated, and the runs configured, where these do not happen: `audience_one_client`
lets every read succeed, and `server` has a watcher.

## 5. Proofs

`tlapm <module>` checks them; no step is left unproved.

| Theorem | Module | Says |
|---|---|---|
| `TypeCorrect`, `CountsAreOccupancy`, `NewestIsHeld`, `ImplementsRegister` | PresenceFeedProofs | the projection's types, its counts, the newest report, and the refinement of `PresenceRegister` |
| `TypeCorrect`, `NothingIsDisclosed`, `ScreensAreCurrent`, `CountsAreCurrent` | PresenceAudienceProofs | types; that no client ever held what it was not granted, nor a name it did not subscribe to; that what a client shows is current or about to be corrected |
| `CountsAreOccupancy`, `PendingIsTrue`, `QuietScreensAreTrue` | PresenceAudienceProofs | the counts and the pending updates are true under any calls; so a screen of which nothing is pending shows the number of members in a channel and exactly who they are |
| `TypeCorrect`, `OrderAndMapAgree`, `SuspensionNamesTheGap`, `AnswersCoverTheGap`, `DeadlinesAreOrdered`, `ReapLeavesNobody`, `PlacesEndInOneWay` | ResumptionsProofs | every safety property of the `resumptions` run |
| `TypeCorrect`, `NoGhosts`, `PlacesAreKept`, `MissedIsNamed` | ResumeServerProofs | every property of the `server` run: hub and register together keep no ghost, a place is kept while its window runs and for who comes back inside it, and a suspension names what it missed |
| `TypeCorrect`, `StampNamesTheSchema`, `OpenStoresHaveTheirSchema`, `StampNeverGoesBack` | MigrationProofs | every property of the `migration` run, for any number of processes of any builds |
| `TypeCorrect`, `RightsHold`, `AnswersComeFromTheList`, `ImplementsPlane` | MediaFakeProofs | every property of the `media` run, for any rooms and members and any number of misbehaviours at once |
| `TypeCorrect`, `AdmittedAreProven`, `DeadStaysDead`, `VersionsAgree`, `Accounted`, `RefusedForGood` | AdmissionProofs | every property of the `admission` run, for any number of connections, logins and tokens and any hello |
| `TypeCorrect`, `SpacesHold`, `AllowedWasAsked`, `AnsweredStays`, `FlagsAreManaged`, `ReadsAnswerWrites` | StoredSpaceProofs | every property of the `store` run, for any spaces, channels, members and callers inside `Grant`; all but the last on either store |

*Assumptions.*  Those named in the modules: `Zero` names nothing, `None` is
neither a presence nor a number nor a suspension, `Members` and `Channels` are finite
where they are counted, the window and the breadth are positive, a build knows
at least one migration and a migration has at least one statement (`checkList`
enforces both).
Nothing is assumed of the bounds beyond their being naturals.  In `Admission`
`Invented` is no token that was ever drawn, and a hello is a sequence of fields
(`Messages`).  In `StoredSpace` a row of `Legacy` carries a name this build
does not have: a row it can read is one that some call of `Grant` wrote, and
those are in the model.

Four theorems have a hypothesis of their own, and each is needed.
`ScreensAreCurrent`, and what follows from it, assume `ReadsFail = FALSE`: a
count withheld because a grant could not be read is cleared by the flush that
withheld it.  `PlacesAreKept` assumes one device to a member (`OneDevice`):
suspensions are per session and occupancies per member, so with two the window
of one device may end, or a report from it move the member, while the other is
connected.  Beyond that hypothesis the property says itself which connections it
is about (`found`); of those that follow a late ticket it claims nothing, and
could not: finding 1 has one device.  `MissedIsNamed` assumes that somebody
watches (`Watchers # {}`), a client that stays attached and is shown every
channel, as in the rig: the register is told the channels that stand in a
delivery, so what nobody was sent is never named to it, and TLC finds the
counterexample with `Watchers = {}`.  `ReadsAnswerWrites`
assumes `Backend = "sqlite"`: in memory it is false, which is finding 2.

*Counts.*  `CountsMatchOccupancy` is inductive by itself once the types are
known: an accepted report moves one member between two sets of occupants, and
the lemma `ApplyCounts` computes the cardinalities of both.
The refinement rests on `HoldsNewest`: a report at or behind the sequence held
was heard before or is overtaken, which is the register's stutter.

*Disclosure.*  `NothingHiddenIsHeld` is not inductive: an update of a list is
sent to subscribers, so what must be carried along is that a subscription was
granted.  `Access` is that strengthening, per client and channel.  Grants are
never withdrawn by the store port, and the proof uses it.

*Screens.*  `Currency` is the conjunction of the held counts, the shown lists
and the pending updates.  The lists need the pending updates to be current:
what a flush folds into a list must be the member's presence now, and not the
first or the last of a longer interval's.

*The register.*  `Lists` says that the order lists every held session once
and nothing else, that what a `Reap` still walks is held and listed once, and
that nothing is walked when none is under way.  `Gaps` relates what a suspension
recorded to the history of batches; the step that publishes uses that a set
that outgrew the breadth does not shrink.  `Ordered` adds to the order of the
deadlines that no deadline lies beyond `now + Window`, without which appending
a new one would not be in order.  `Judged` says that whoever was due when a running
`Reap` began and is still held has yet to be walked, which needs that the clock
does not go back.

*The owner of both.*  `NobodyIsAGhost` leans on two facts that neither part
states.  `Places` says who is in the register: a session that is not attached,
with the member it authenticated as; without it a judgement could report the
wrong member.  `OneSettle` says that no leave is still to be reported while a
`Reap` is under way; without it the members that `Reap` returns would replace
those still waiting.  `Lists` is needed for the types already: what is judged
must be a suspension.  The argument is then `StayConnected` (only connecting
makes a session connected, only a judgement ends it) with `DepartingStep` (who
is judged is departing until the leave is reported).  For `PlaceIsKept` two
more are carried along.  `AttachedOver` says that a connection which began over a
held place is remembered in `found`: the hub does not ask the register, so a
session may be attached and held at once.  `DepartingAreGone` says that a member
whose leave is coming has no place held any more and no connection but one that
`found` marks, which is where one device is needed.  For
`MissedNamesWhatMoved` it is `UnsentIsPending`, the same promise for a client
that is still attached, which is what it becomes when the client drops, and
`WatchersWatch`, from which a flush names every channel with an entry pending.

*Admission.*  `TableInv` says that the table is the tokens given out and not
revoked, each under the member who proved to be its owner, and that a login under way has drawn a token that is nobody else's
yet.  That is what keeps a dead token dead: a token found dead was given out
before, or never drawn, and no login that finishes later can put it back.
`TokenInv` follows a connection through the three steps of `Admit`, `GateInv`
says that before the gate opens nothing was refused, and `VersionInv` that the
version returned is the one written to the peer; `RepliesRead` is then the
client's reading of that reply, for every pair of fields.

*Space and store.*  `CallInv` splits the request of a call of `Grant` into what
is in the table and what is left to write, so that a failure, a restart or
another call between two statements leaves both halves true; `GrantInv` adds
that every row this build can read was asked for by a call that wrote.
`HeapInv` says that whatever reaches a channel reaches one in use, `RoomInv`
that rooms and members are where the space has a channel, `RowsInv` that
memberships and gains are within range, and `FlagInv` that a flag is up, in the process or in a
row, only where it was managed up: a restart copies one to the other, so
neither half is inductive alone.  `WrittenInv`, for SQLite only, says that the
rows are what was last accepted.

*The migration.*  `NotAhead` says that a process is never past the migration
after the stamp, `WriterIsNext` that the process which writes is at exactly that
one: were it behind, its first statement would have met an object that exists,
because the schema is that of the stamp.  `SchemaGrows` is the step from one
version's objects to the next.

*The media fake.*  `RoomsOK` types the relations a room is made of, and with
`Rights` it is inductive as it stands: there is one lemma per operation, of
which those that destroy, revoke and unpublish have the work, since each takes
several relations back at once.  The refinement needs it for one step: revoking
a member who has no seat must change nothing, not even for an identity that
names nobody.  `AnswerOK` is the other invariant: each operation's error, as
the order of its checks decides it, is in that operation's list.

*Only model-checked.*  The liveness properties (`StaleCountIsCorrected`,
`EveryPlaceIsSettled`, `AbsenteesLeave`): they rest on fairness, and `ENABLED`
is out of the prover's reach.  Every other property of a passing run is a
theorem.

## 6. What is left out

Inside the modelled parts: names, the order of entries in a message and of
`Occupants`, the text of errors, `String` methods, the bytes of frames and of
identifiers, `Grace.Remaining` and `Grace.Extend`, which have no caller outside
their tests.  Withdrawal of grants, which the store port does not offer.  A
space is one hub; nothing in the code relates two.  A `Space` has no lock, and
two goroutines inside one at once would be a data race: nothing in the tree
calls it from two, and every operation is one step here.  The hashing in
`credential.go` and the time it takes: a credential matches or it does not.

Outside, because there is nothing for these methods to say about them yet:

- the log, a writer of lines with one mutex and no other state, which nothing
  in the tree writes to;
- the configuration, a pure parser read once at start, whose settings do not
  depend on each other;
- the program entry, which starts none of the parts;
- the latency bench, whose state is floating-point signals;
- the bot API, a package comment without code.

## 7. Plan

Done, in the order of importance: presence and resume, alone and together, with
the abstract register; `Migration`; `MediaFake` with the abstract plane;
`Sessions` and `Signalling`, composed in `Admission`; `Permissions`, `Space` and
`Stores`, composed in `StoredSpace`; the proofs of section 5.

Every safety and action property that a run checks is proved.  Left is to take
the proofs further where the runs cannot follow: that the register inside
`ResumeServer` keeps what `ResumptionsProofs` shows of it alone (the order of
the deadlines, and that a `Reap` leaves nobody behind), that its hub counts who
is there, and the safety half of the liveness properties, that what must be
settled can only get closer to it.

When an owner that wires the parts together is written, `ResumeServer` and
`Admission` are where its steps replace those of the tests.
