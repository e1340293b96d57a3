# NEctroverse in TLA+

NEctroverse is a tick-based browser strategy game: a C daemon that serves pages,
keeps all of its state in files, and every few minutes runs a *tick* over all
players. These modules model the parts of its own code in which a sequence of
legal requests has to keep several files, lists and indices in agreement. TLC
checks them on small instances, and for eight of the parts TLAPS proves what TLC
checked for every value of the constants.

## 1. The system

The daemon is one loop (`main.c`, `daemonloop`): expire sessions, answer the
requests that are waiting (`WWWSelect`, each handler runs to its end), reread
settings, and when `ticks.next` has passed run `cmdTickInit`, `cmdTick`,
`cmdTickEnd` and `cmdExecuteFlush`. `MULTI_THREAD_SUPPORT` is 0, so handlers and
ticks never overlap. One thing does run beside the loop: `cmdEndofRound`, a
thread that an administrator starts. An action of a module is therefore a whole
handler, except where the handler itself is a loop worth taking apart (placing a
bid), where the other thread is involved (`Daemon`), and where the process may be
killed between two writes (`Accounts`).

| component | state | operations | what is hard | what makes it correct |
|---|---|---|---|---|
| market file (`db.c`) | header, ends and total per level, slots with links, free list; every owner's list of bids | add, remove, change quantity, walk | slots are unlinked on the word of another file; ids are reused | no list is ever cut, joined or closed; totals and free list exact; each level is a queue |
| market trading (`cmdexec.c`, `cmdtick.c`, `specop.c`, `html_admin.c`) | bids, lists, players' resources | place, fill, withdraw, decay, theft, irradiation, deactivation, clearing | a copy of the player's record held across the loop; two copies of every bid; own bids met by own requests | nothing negative, nothing made or lost by trading, book never crossed, copies equal |
| relations (`cmdexec.c`, `db.c`, `cmdtick.c`) | a file of records per empire | alliance, war, pact, cancellation, end by the rankings | two copies of a state machine, records addressed by index in swapped arrays, a copy walked while the file changes | records paired, notices kept, pacts mutual, wars end |
| government (`cmdexec.c`, `cmd.c`, `map.c`) | seats, votes, offices; tags on users | join, leave, vote, appoint, election | votes are indices of seats that move; tags repeat offices in other files | officers sit, leaders have votes, tags are earned |
| planets, construction, exploration (`cmdexec.c`, `cmd.c`, `battle.c`, `specop.c`, `cmdtick.c`, `db.c`) | map records, planet lists, build queues, two kinds of counts | join, leave, build, cancel, raze, explore, be given, conquer, control, nuke, offer, take, tick | the same fact in up to four files, changed by hand in a dozen handlers; arrays whose last element moves into a gap; a count that is stale between ticks | every owned planet listed once by its owner, builds where their planets are, counts exact, but for what one kind of gift leaves behind |
| fleets and battles (`cmd.c`, `cmdexec.c`, `cmdtick.c`, `battle.c`) | a player's array of fleets, units stationed on planets | send, split, merge, recall, disband, station, arrive, fight, decay | the tick walks a copy of the array backwards and writes it back by position, while arrivals merge and remove fleets in the file | no unit is lost or in two places, journeys shorten, operations happen once |
| tick and rankings (`cmdtick.c`) | tick number, empires' totals, rankings | tick, rank | copies of records held over the walk; lists sorted while they are built | each part with the module it changes |
| artefacts and victory (`cmdtick.c`, `main.c`) | artefacts in the empires' records, the victory timer | count, start, take back and fire the timer | counted player by player while fleets take planets; the timer's empire may be passed over | a victory is earned, and comes to whoever holds on |
| daemon loop, round end, restart (`main.c`, `cmdexec.c`) | `ticks`, `sysconfig`, `ticks.ini` | loop, end of round, regeneration, signals, kill, start | a second thread without a lock; a clock saved after the tick it counts | servers come back; due ticks happen; players get the ticks that are counted |
| accounts and ids (`db.c`, `cmdexec.c`) | list of users, next number, two directories per user | register, delete, read at a start | neither is one step on disk; opening a missing file makes it | nobody is lost, nobody comes back, registration goes on working |
| forums (`db.c`, `html_forum.c`) | index, linked lists of threads with a free list, chains of offsets for posts | post, reply, edit, delete, purge | links, offsets and six counts changed by hand; pages kept open name numbers that were given again | lists and chains whole; order of threads and posts as promised |
| operations and spells (`specop.c`) | timed effects per player | cast, expire | removal by index while walking | not modelled, but for what they do to bids, planets and artefacts |
| aid and fund (`cmdexec.c`) | resources, fund | send, fetch, tax | both records read before either is written | not modelled |
| news, mail (`db.c`) | linked lists and offset files | add, remove, list | as forums and market | not modelled |
| observations (`db.c`) | a file per empire | write, search, expire | a sentinel value stored | not modelled |
| sessions (`http/http.c`) | list of sessions, users' session ids | create, expire, remove | point at users that may be freed | not modelled |
| map generation, pages, configuration, logging | - | - | sequential or input and output | not modelled |
| `http/` (libmicrohttpd), `ircbot/`, `extras/`, `read/` | - | - | vendored | not modelled |

There are no tests. What the program claims of itself is in the comments of
`db.c`, `db.h` and `cmdexec.c` and in the text of the pages.

## 2. Modules

| module | models | read first |
|---|---|---|
| `BidBook` | what a level of the market promises: a queue, new bids last, any bid may shrink or go | `Place`, `Withdraw`, `Shrink` |
| `MarketFile` | the market file slot by slot | `MarketAdd`, `MarketRemove`, `MarketSetQuantity` |
| `MarketFileProofs` | theorems about it | `FileNeverCorrupt`, `FilesComplete`, `FileImplementsBook` |
| `Market` | trading and everything that touches bids | `Place`, `Fill`, `Rest`, `Theft` |
| `MarketProofs` | theorems about it | `BooksAgree`, `TradesConserve`, `EnergyKept` |
| `Relations` | wars, alliances, pacts | `OfferPact`, `Deleted`, `Ended` |
| `RelationsProofs` | theorems about it | `PactsStayPaired`, `WarsEnd` |
| `Empire` | seats, votes, offices, tags | `Elect`, `Without`, `FamMemberFlags` |
| `EmpireProofs` | theorems about it | `LeadersBacked`, `TagsAgreeWithOffices` |
| `SwapArrays` | the arrays in files out of which an element goes by moving the last one into its place | `SwapRemove`, `Swept` |
| `Planets` | who owns which planet and what is built there | `Passes`, `Leaves`, `Serve` |
| `PlanetsProofs` | theorems about it | `ListsNameOwners`, `QueuesStayInStep` |
| `Daemon` | the loop of `main.c`, the thread that ends a round, crash and restart | `Judge`, `Clock`, `Leave`, `EndofRound` |
| `DaemonProofs` | theorems about it, `Accounts` and `Victory` | `PlayersTicked`, `PromisesKept`, `VictoriesEarned` |
| `Fleets` | one player's fleets and the tick's walk over them | `FleetAction`, `Visit`, `Walk` |
| `FleetsProofs` | theorems about it | `ShipsAreAccounted`, `JourneysGoOn` |
| `Board` | what a forum promises: threads by last reply, posts in the order written | `Changed`, `Dropped` |
| `Forum` | the forums' files slot by slot and offset by offset | `Raised`, `Removable`, `Cut` |
| `ForumProofs` | theorems about it | `FilesStaySound`, `ForumImplementsBoard` |
| `VictoryRecords` | artefacts and the victory timer: state and properties | `CountedOnce`, `VictoryEarned` |
| `Victory` | how they change: the tick and the rankings | `Visit`, `Timer`, `GenRanks` |
| `AccountFiles` | accounts on disk and in memory: state and properties | `AccountsKept`, `NoStrangers` |
| `Accounts` | how they change, cut off at any step | `MakeData` to `SetMain`, `Start` |
| `MC...` | instances for TLC | |

**MarketFile.** `num` and `listfree` are the two integers at the head of the
file, `head` the per-level array, `slot` the slots, and `entry[i]` the level
which the bid list of the owner of slot `i` records (`users/user%d/market`). The
callers pair every `dbMarket...` call with the `dbUserMarket...` call on the
owner's list, and so do the actions; `cmdUserDelete` only makes the first call,
because the owner's whole directory goes with the account. `Walk` follows the
links from a slot, as the pages and the ticks do, and `Qty` adds up what it meets. The
variables are related to `BidBook` by reading each level's list from its first slot
(`ImplementsBidBook`).

**Market.** Here a bid has a place `pos` in the queue of its level instead of
links. `list` is what the owner's file says and `market` what the market file
says. `cmdExecAddBid` is taken apart into `Place` (checks, stake taken from the
copy of the player's resources), `Fill` (one turn of the loop) and `Rest` (the
copy written back, what is left added), with `request` holding the local
variables; no other action is enabled meanwhile, because nothing else runs, and
the invariants are checked between the turns as well. The price levels start at
1, as every accepted request does. What players own of a resource (`Total`) is
what lies in their records (`Purses`, with the copy of the request being served), in
the waiting bids (`Stakes`: a seller's goods, a buyer's energy) and in
the bid that is being placed; there are finitely many
players (`UsersFinite`), as the sums need.

**Relations.** `rels[f]` is the file of empire `f`, in the order of its records.
`Deleted` is `cmdExecDelRelation` as a function of the files, so that the tick
can apply it several times; `Ended` walks the copy of the list that
`cmdTickGenRanks` took, and `Rankings` does so for every ranked empire in turn. Which empires may declare war on which depends on sizes
and is left open: any empire may. Who asks for a relation (the war minister, a
leader without one, a moderator) is not part of the module. `Ranked` is the set
of empires the rankings look at: one whose members have all left is passed over. A removal in the middle of that walk
moves a record to where the walk has already been: a war may be missed, and `NoEndlessWar` says
by how many sweeps it may be late.

**Empire.** `empire[e]` is the record `dbMainEmpireDef`, `home` the players'
`maind.empire`, `flags` the tags on the users' records. The array of seats has
one entry more than the empire has seats, because an appointment reads it.
`Elect` is `cmdEmpireLeader`, part of every departure and every vote. `Resubmits`
says whether the activation form may be sent by somebody who is already a
member: the handler does not refuse it, the page that has the form is only
offered to players without an empire. `stripped` is history: whose tag an appointment in an
empire he has left took (section 5, item 7).

**Planets.** `planet` is the map file (owner, `CMD_PLANET_FLAGS_PORTAL` as
`portal`, `CMD_PLANET_FLAGS_PORTAL_BUILD` as `rising`, the number under
construction, the offer), `list` and `queue` are the players' files of planets
and builds, `counted` is `maind.planets`. A tick is a walk over the users, and
`serving` is what is left of it: its first player has just had his builds
advanced and his planets counted (`Serve`), and his fleets act until the walk
goes on (`TickOn`). An exploration ship always flies for a tick and arrives
only then; agents and ghosts sent within a system act at once, so that `MindControl` and
`NukePlanet` are possible between ticks too; battles are ordered on a page and never in a
tick. Fleets, odds and prices are left out: whatever an arrival may do to the
planets, it may do at any time. An ancient civilisation (`ancient`) may lay the planet waste
(`LayWaste`, `nuked`) or give planets near by to the explorer (`Gift`), in any number up to `MaxGift`;
distances, chances and what else it may give are left open. The walk over the map that picks them
does not leave out the planet that is being explored (section 5, item 12), so `Explore`
may list it twice and count it off twice. No file holds that this has happened: `spare` is
history, the player whose list has an entry too many for a planet, and `short` how often the
system has counted one off in vain. Whether the owner of a home planet is independent and
his account a day old is left open as well. The planets that are no homes lie in one
system, whose `unexplored` counter is followed; that of home systems is shown
nowhere. Builds are those of planets; units in the same queue touch no planet.

**Daemon.** `main` is where the main thread is in `daemonloop` and `main`, and
`reset[t]` where a thread of `cmdEndofRound` is. The two share `ticks` and the flags
of `sysconfig` without a lock, so everything either does between two accesses is a
step: `Judge` looks at the lock and the dates, `Clock` writes what follows from it a
moment later. `ini` is the file `ticks.ini`, which is all that a start knows of the
clock; `account` is what the users' files say, which are closed at every write.
`Gone` is the end of the process, by `Leave` or by `Crash`.

**Fleets.** `fleet` is the player's array, element 1 the main fleet. `Walk` is
the part of `cmdTick` that goes from the last position of a copy to the first:
`Visit` lets units of a position decay, writes the copy back, and carries out the
order of a fleet that has arrived (`cmdFleetAction`), by which the file loses or moves
elements. Ships are told apart, so that one that is lost or copied is noticed.
Distances, losses and luck are anything the code can compute; whether somebody else
takes the planet is `Attacked` and `Settled`. The ghost variable `crossed` records that two merging
fleets crossed in the way described in section 5, after which the run looks no further.

**Forum** keeps a file of threads (`used`, `free`, `slot`) per directory, and for
each thread a file of posts that are found by walking from offset to offset. A
request may come from a page that is out of date: numbers are taken from everything
that was ever a thread. `Read` walks the files as the pages do, and that reading is
what implements `Board`. The loops of the code are functions of the number of turns:
`Following` (the walk over links), `Offset` (the walk over offsets), `Cut` and
`RewrittenWith` (the rewriting behind a post), `Swept` and `Cleaned` (a moderator's
purge, thread by thread). The public forums are modelled; those of the empires are
written by the same functions.

**Victory.** A tick clears `bits`, the artefacts in the empires' records, visits the
players in the order of `dbUserList` (`Visit`: count, then let the fleets act), and
ranks the empires (`GenRanks`), which decides about the timer as it comes to each
of them: `Timed` folds `Timer`, the decision at one empire, over a ranking. The rankings also run while time stands still (`Idle`). Sizes are any of
`Size`, so that every order of the empires is met.

**Accounts.** `doing` is the handler that is registering or deleting somebody, with
a step for every directory and group of files, and `Crash` may come between any
two. `data` and `info` are the two directories of a number. `Start` is
`dbInitUsersReset` and the loop of `dbInit`: `dbFileUserOpen` makes the file it
does not find if only the directory is there. `promised` and `cut` are history:
what the page confirmed, and whose handler was cut off.

Operators whose comment begins with "Mutant of" are not part of any
specification. Each is a plausible slip in the operator below it, and states
what one property is there to catch.

## 3. What TLC checks

| run | instance | shows |
|---|---|---|
| `MCMarketFile` | 2 levels, 1 owner, 4 slots, quantities to 2 | links, totals, completeness and free list; refinement of `BidBook` |
| `MCMarketTrade` | 2 players, 2 resources, 2 prices, 3 bids, shares of 50 percent | types and balances, book not crossed, copies equal, queues dense, trading conserves, no energy out of operations, decay and moderation |
| `MCPacts` | 2 empires, pacts for ever, 1 and 2 hours, 6 ticks | pairing, mutual timed pacts, timed pacts run out |
| `MCWars` | 3 empires (2 ranked), wars and alliances, 3 records each, 4 ticks | pairing, one alliance, notices, no endless war |
| `MCEmpire` | 3 players, 1 empire of 3 seats, 2 ministries, forms sent again | record types, officers seated, one ministry each, leaders backed |
| `MCEmpires` | 2 players, 2 empires of 2 seats, 2 ministries, forms sent once | tags agree with offices across empires, ties keep the leader |
| `MCPlanets` | 2 players, 2 homes, a planet with a civilisation and one it may give away, 2 builds or offers, one tick to build | lists, portals, constructions, counts and queues agree; who is out owns nothing |
| `MCDaemon` | 2 accounts, 1 thread, start by date, 1 tick, 1 round, 1 crash, 1 restart | rounds end in order, ticks received are ticks counted; live: servers come back, a due tick happens |
| `MCFleets` | two ships that fight, alike, a phantom, an agent, an explorer, one planet, 2 fleets besides the main one, journeys of 2 | ships accounted for, journeys shorten, operations happen once, a battle changes no other fleet |
| `MCForum` | 2 forums, 3 threads each, 4 posts of two lengths | links, free list and chains sound, six counts agree; refinement of `Board` |
| `MCVictory` | 3 players, 2 empires, 2 artefacts, 2 ticks to hold them, 3 sizes | counted once, timer names the holder, a victory is earned; live: the holder wins |
| `MCAccounts` | 3 names, 4 numbers | promises kept, no strangers, logins unique, registration goes on working |

Why these bounds are enough. A removal from a doubly linked list has four cases
(only, first, last, inner); inner needs three slots, and four leave one for
another level or the free list. Three bids let a request be filled in part, in
full, across two levels and by its own owner; the fourth would repeat one of
these. Quantities of 2 and shares of one half show both the rounding up and a
bid that vanishes; `BuyDecay` and `SellDecay` have the code's values, and on such
quantities always take the whole unit that rounding up costs, which is the case
that matters. A pact has two sides and its tables do not look further. A copy of
a list differs from the file after one removal and misses a record with two, so
three records per empire show a miss and its repair. `Notice` is 26 ticks in the
code and 1 or 2 here, with `EndWars` at least as long. Three players are the
fewest in which a departure moves a seat that somebody on either side of it
votes for. Two players and two planets that are no homes, one with an ancient civilisation, give lists
in which an entry moves when another goes, gifts of either planet, of both in either order and of none,
a planet that is listed twice with another one behind or between, and every way a planet can change hands and
come back; two builds are enough for a sweep that would go wrong in the other direction;
a build that takes one tick is started, cancelled, lost and finished in every
order with the two halves of a tick. There are two builds or offers at a time, and while somebody has the
second planet none (`Bounded`): building with one planet fewer, where gifts are of the explored planet only, is the
other part of the instance. Without that bound, but with one build each and records that count at
most one planet before a conquest, 924 192 states were explored once, to the end and without an error. One thread of the round's end is what the administrator's page starts; a second
one is possible in the code (section 5) and adds no new place to either. One crash and one restart meet every
place the two threads can be in. One ship of each kind is enough for one to be lost or copied, and two fleets
for one to move into the gap the other leaves. Three threads give the list a first,
an inner and a last one, and posts of two lengths an edit that moves what follows.
Three players give an empire of two members and another that may take planets in
the middle of the walk. Four numbers leave a deleted account between others, last and alone.
Symmetry is declared only over names, players and homes that no constant tells
apart and only where the run checks no liveness. `MaxQty`, `MaxBids`, `MaxTotal`, `MaxTick`,
`MaxRels`, `MaxQueue`, `MaxGift`, `MaxCount`, `MaxLoss`, `MaxNumber`, `MaxRound`, `MaxCrashes`, `MaxStarts`,
`MaxTime`, `MaxFleets`, `MaxSlots`, `MaxForums`, `MaxPosts` and `MaxId` are bounds of the models; each is named in the guard it stands in.

Three runs have a `CONSTRAINT`. That of `MCPlanets` is a bound (`Bounded`, above); two stop
at the states behind a known disagreement of section 5: `BeforeCrossing` (fleets that merged wrongly) and `InStep` (a forum that
was not the last was deleted).

**Fairness.** Two specifications state it. In `Daemon` the main thread is weakly
fair (`WF_vars(MainStep)`), since a pass of the loop serves the requests that are
waiting and goes on, and so is every thread of `cmdEndofRound`: both are scheduled by
the system, hold no lock, and wait for nothing but the two flags they poll. Requests,
signals, crashes and the operator are not fair. Under it a wait for the new round
ends, unless the map cannot be made (`ComesBack`), and the rankings after a due tick
are reached (`DueTickHappens`). In `Victory` only the loop is fair
(`WF_vars(Loop)`), for the same reason; that players stay and hold their artefacts is a hypothesis of `HolderWins`.

All runs check for deadlock but `MCDaemon`: a process that has ended and is not
started again stands still, rightly.

Neighbouring invariants are checked as one where they are about one thing
(`FileComplete`, `BookSound`, `PactsSound`, `TiesSound`, `GovernmentSound`, `TagsAgree`, `QueuesAgree`,
`MapSound`, `RoundsEndWell`, `ShipsAccounted`, `FilesSound`, `TimerSound`); their
parts keep names and comments of their own.

## 4. What TLAPS proves

Assumptions are the named `ASSUME`s on the constants, which TLC evaluates in
every run, and what a theorem itself states. Each theorem is about every number of
players, empires, planets, slots or threads, where a run has two or three of each.

| theorem | says | from the invariant | where |
|---|---|---|---|
| `FileNeverCorrupt` | `[]FileSound` | `FileSound` itself | |
| `WalksEnd` | no list is a ring | a numbering of the slots | |
| `FilesComplete` | `[]FileComplete` | `Complete` | |
| `FileImplementsBook` | `Spec => ImplementsBidBook` | `Complete` | |
| `BalancesHold`, `MarketNeverCrossed` | `[]TypeOK`, `[]NeverCrossed` | `Sound` | |
| `BooksAgree` | `[]BookSound` | `Book` | |
| `TradesConserve`, `EnergyKept` | `TradeConserves`, `EnergyNeverMade` (steps) | `Book` | |
| `PactsStayPaired` | `[]PactsSound` | `RelsInv` | pacts only |
| `TiesStayPaired` | `[]TiesSound` | `RelsInv` | no pacts |
| `NoticesHold` | `NoticeKept` (steps) | `RelsInv` | `Unmixed` |
| `TimedPactsRunOut` | `TimedPactRunsOut` (steps) | `RelsInv` | `Unmixed`, an hour has a tick |
| `WarsEnd` | `[]NoEndlessWar` | `RelsInv` and where a late war stands | `Unmixed` |
| `OfficersSit`, `LeadersBacked` | `[](TypeOK /\ OfficersSeated)`, `[]LeaderBacked` | `Governed` | |
| `GovernmentsSound`, `TagsAgreeWithOffices` | `[]GovernmentSound`, `[]TagsAgree` | `TagsInv` | forms sent once |
| `TiesKeep` | `TiesKeepTheLeader` (steps) | `Governed`, `Seating` | forms sent once |
| `ListsNameOwners` | `[]OwnerLists` | `IInv` of `PlanetsProofs` | |
| `PortalsStayInStep`, `QueuesStayInStep`, `CountsStaySound` | `[]PortalsAgree`, `[]QueuesAgree`, `[]MapSound` | `MapInv` of `PlanetsProofs` | |
| `PlayersTicked` | `[]TickedAsCounted` | `TickInv` | |
| `WaitersServed` | `[]SomebodyEndsTheWait` | with `Typed` | |
| `RoundsEnd` | `[]RoundsEndWell` | `MapInv` of `DaemonProofs` | one thread ends rounds |
| `ArtefactsCountedOnce` | `[]CountedOnce` | `ArtefactsInv` | |
| `TimersSound`, `VictoriesEarned` | `[]TimerSound`, `VictoryEarned` (steps) | `TimerInv` | |
| `PromisesKept`, `DeletedStayDeleted`, `LoginsStayUnique`, `RegistrationStaysOpen` | `[]AccountsKept`, `[]NoStrangers`, `[]LoginsUnique`, `[]RegistrationOpen` | `AccountsSound` of `DaemonProofs` | |
| `ShipsAreAccounted`, `BattlesStayAlone` | `[]ShipsAccounted`, `BattleAlone` (steps) | `IInv` of `FleetsProofs` | |
| `JourneysGoOn`, `OperationsHappenOnce` | `JourneysShorten`, `OperatesOnce` (steps) | `IInv` of `FleetsProofs` | |
| `FilesStaySound` | `[](InStep => FilesSound)` | `Sound` of `ForumProofs` | only the last forum is deleted |
| `CountsStayEqual` | `[]CountsAgree` | `Sound` of `ForumProofs` | (in `CountsAgree` itself) |
| `ForumImplementsBoard` | `Spec /\ []InStep => ImplementsBoard` | `Sound` of `ForumProofs` | only the last forum is deleted |

Sums, folds and walks are recursive functions. Wherever something holds of one for
every length, the proof takes the least length for which it fails (`Least`, from
the well-foundedness of the naturals) and contradicts it, since the induction
theorems of the library take an operator that no installed prover can instantiate.

**Market file.** `FileSound` is its own inductive invariant and a local one: links
agree with their neighbours (`LinksMutual`), ends with the slots they name
(`EndsSound`), the free list with itself (`FreeSound`), and every bid is alive
(`BidsLive`). For `WalksEnd` there is a numbering of the slots that falls along
every link; it is the witness carried from state to state: an added slot gets
a number below that of the slot in front, a removed slot one above the free list.
`Complete` adds what a list contains as a whole: for every level
there is a sequence without doubles that has exactly its bids and that the links spell out (`Chain`), for the
free list one with exactly the free slots (`FreeChain`), and totals are sums over
bids. Appending, cutting an element out and changing a quantity are shown on
sequences and carried over to the links; a walk from the first slot is then that
sequence, which is the mapping to `BidBook`: an addition is `Place`, a removal
`Withdraw`, a change `Shrink`.

**Market.** `TypeOK` and `NeverCrossed` are not inductive alone: a fill is within
a bid only when the types hold, and `Rest` adds what is left only when no waiting bid
accepts it; every other action leaves bids at their prices or removes them
(`StaysUncrossed`). `Book` adds that the lists and the market file have the
same bids (`Mirrors`), that ids are not shared and positions count from 0 without
gaps (`InOrder`, `Inside`). For conservation each operation is compared
before and after as sums over players and bids: closing the gaps in a queue keeps stakes
(`LineKeepsStakes`), a bid taken returns what was staked (`TakenPays`), a fill moves what
it takes (`TradePays`), shrinking takes the difference (`ReduceTakes`). A theft is
right by rounding: what a bid loses is rounded up and what the thief gets is rounded
down, so the victim's loss is at least the thief's gain (`ShareArithmetic`).

**Relations.** The files of all empires are one value, since the rankings change
them several times in a step. `Sound` says of it that every record is answered by
exactly one counterpart in a state that agrees with it (`Answered`, by the table of pairs `Agree`).
`Deleted` keeps it, hence the walk over a copy (`Ended`) and the rankings do. The
hypotheses are the code's own limits, not conveniences. Counterparts are looked up without
their type, so a pact beside a war can end the wrong record: `Unmixed` says that
there are only pacts or none (section 5, item 6). If `ticks.speed` were above an hour, `TicksPerHour`
would be 0 and a cancelled timed pact would end at once. `NoticesHold` follows
from what a cancellation may do (`Respects`), `WarsEnd` from `Slipping`: a sweep that misses a war has
moved its record to an earlier place in the file, so it can be missed once for each
place at most.

**Empire.** `Governed` is that officers sit and that a leader has a vote. It holds
also when forms are sent again, since an election counts the votes of
all the seats after every renumbering. `Seating` (nobody has two seats, and the member records and seats agree)
needs forms sent once. In `TagsInv` the tags follow: a leader wears his (`LeaderTagged`), tags stand for
offices (`TagsEarned`), offices are worn but by who was stripped (`TagsWorn`), and nobody
wears two (`OneTag`).

**Planets.** For `ListsNameOwners`, `IInv` says besides `OwnerLists` only that
records have their fields, lists their types and spare entries a player to hold them. Lists are
compared by counting: how many entries a list has for a planet is the size of a set of positions
(`Entries`), which a planet that is appended raises by one (`Added`) and a removal, whose last
element moves into the gap, lowers by one for that planet only (`Removed`); `Due` is the number that
an owner and a spare entry make together. A gift and the explored planet lengthen a list by one
entry each (`Lengthened`), hence by two for a planet that is both (`ExploreKeeps`). The other
handlers are one of five changes (`Gains`, `Frees`, `Moves`, `Left`, `Stays`). The larger
`MapInv` adds, planet by planet, that what is under construction is what its owner's queue holds for it
and no other queue has anything there (`QueueAgrees`), the portals, the number of unexplored
planets, and that who is out has nothing. For the portals it is enough that an entry with a single
place in its list is the one that is marked (`Single`); for what is left to explore, that a gift
without doubles has as many planets as it is long (`GiftSize`), so that `FreeLess` accounts for
the one counted off in vain. The sweep of a queue that runs backwards while
elements move (`Swept`) is shown to remove exactly the builds it is meant to.

**Daemon.** `TickInv` follows one tick from the clock to the last player: what a player has had is
what the clock in memory says, or the one on the disk after a restart, within
one for each crash; the clock on the disk is that in memory except where the loop is about to
save it (`ClockSaved`); walks are over when a round ends (`WalksDone`). For `RoundsEnd`
`MapInv` says where thread and loop may be at the same time (`OneRound`) and that the map is
that of the clock but while it is being made (`MapMatches`). That needs `OneThread`, which the code
does not enforce: an administrator's second request can start another (section 5, item 16).

**Victory.** The planet of an artefact that was counted never belongs to a player
whom the tick has still to visit (`CountedBehind`), and nobody is visited twice.
`TimerInv` ties the timer to how long its empire has held on (`kept[holder] + left > AutoVictory`)
through a fold over whatever ranking a tick makes, so that a round is locked only by a timer that ran its whole length.

**Accounts.** One invariant: where a registration or a deletion is and what it has
left on disk so far (`Registering`, `Deleting`), that a record's directory is made
second and removed first (`DirectoriesPaired`), that memory says what the files say
but for the number being worked on (`ListedAsFiled`), and that every record was
promised, cut off or is being worked on (`Accounted`). `DirectoriesPaired` is what
makes a start right: the highest number is looked for among the game's directories only.

**Fleets.** `Shape` holds of the files whatever happens. Until merging fleets have
crossed (`crossed`), every ship is in exactly one place (`Kept`), and a fleet that is to merge
has arrived or has a way to go, as one that operates does (`Timed`).
The tick is the hard case, because the walk writes back the positions of a copy while the
orders it carries out shorten the file. `Walking` is what holds between two visits: each position
still to be visited holds what the copy says of it, or the copy has a fleet there to which a
visit does nothing (`Still`). An order removes its own position, into which an element from
behind moves, or that of the fleet it merges with; that this partner is then one the walk has
passed or one that is `Still` is what the negation of `Crossing` says, and no less will do: the proof
failed at first because the model's `Crossing` left out a waiting fleet that
was disbanded down to its last ship, whose position the walk empties after the merge
(section 5, item 13). For the two step
properties a ship is followed through the visits: `Ahead` while its fleet is not yet reached
or already a tick further on its way, `Unvisited` for an operation not yet done.

**Forum.** A file of posts spells out a list of lengths, at positions that follow from
them (`Holds`); a file of threads spells out a list of threads, linked both ways, and
a list of free slots, linked one way, which share no slot and leave none out
(`Listed`). `Sound` says that there are such lists for every directory, that the six
counts agree, and that directories and records of the index are the same forums. Each operation is
shown to be one on those lists: `AppendedIs`, `RewrittenIs` and `CutIs` for posts, where
the loops are followed turn by turn (in `MovesLay` the posts that are still to be read lie behind what has
been written, which is why reading and writing the same file works);
`AddThreadIs`, `RemoveThreadIs` and `RaisedIs` for threads. The walks of the pages read exactly the
lists (`FollowingIs`, `OffsetIs`), so that what is seen of a directory is its lists
(`ViewIs`), and the refinement follows handler by handler (`Leads`): one forum
changes as `Board` allows, or threads go and the others keep their order (`Thinned`, which a purge repeats).
The hypothesis is the code's own defect: after a forum is deleted that is not the last,
its successors' directories stay where they were, a record then has no directory
or another's, and `CreateForum` finds files left over (section 5, item 21).

**What stays with TLC.** Liveness under fairness (`ComesBack`, `DueTickHappens`, `HolderWins`) is
out of the prover's reach. Every other property that a run checks is that of a theorem.

## 5. Where code and words differ

The models have these as the code has them, but for the last. No run is about them: the properties
are stated so that they leave out exactly the cases below, and say so.

Market, relations, government, planets:

1. *Clear Market* (`db.c:2893`) opens the pattern `%s/market`, not the market
   file: stakes are returned and the bids stay. `Market` keeps that button out of
   `Next`, since everything is lost behind it.
2. A timed offer followed by an infinite one puts the other empire into an
   infinite pact (`cmdexec.c:1469`), which `db.h:281` says both have to want.
3. A departure renumbers only the votes of later seats (`cmdexec.c:491`), so that a
   vote may come to name another member. In the loop over wars (`cmdexec.c:428`) the bound
   is overwritten when an ally is found.
4. A home planet may be attacked while its owner has another planet
   (`battle.c:252`): the number compared is counted at the start
   of the owner's turn in a tick, before his ships explore, and neither
   exploring, taking an offer nor mind control changes it.
5. *Steal Resources* (`specop.c:551`) computes the loot from the reserves and the
   selling bids but only shrinks the bids that hold energy, so that what a thief
   gains of another good may be lost by nobody. `EnergyNeverMade` is therefore
   about energy.
6. A cancelled pact takes the first record naming the empire for its counterpart
   (`cmdexec.c:1775`); with a war or an alliance beside the pact, a timed pact
   ends without notice. `TimedPactRunsOut` is checked where there are only pacts.
7. An appointment strips one seat too many (`cmdexec.c:1363`): the entry behind
   the last seat may be a player who has left and holds office elsewhere. His tag there goes while
    the office stays, and he may be appointed to a second one. `TagsAgree` and `OneMinistry`
    leave out who was stripped so; with forms sent again neither holds over several empires.
8. A player with two seats of an empire (form sent again) may lose the leadership
   on a tie: the election looks at the last of his seats, the vote page at the
   first. `TiesKeepTheLeader` is checked where forms are sent once.
9. Razing a portal that is still being built leaves its build in the queue
   (`cmd.c:1766`); the portal then comes all the same, and a second one may be ordered.
10. An offer (`planetd.surrender`) outlives the ownership of whoever made it: after
    a conquest or a nuke the player it was made to can take the planet from the
    next owner, if that one is in his empire (`cmdexec.c:2490`).
11. The number of planets in the record can fall to 0 before the home planet falls,
    when planets that were never counted are conquered; the home's fall then makes
    it -1, and the player, who owns nothing, stays in the game (`battle.c:1125`).
12. The walk that picks the planets an ancient civilisation gives away (`cmd.c:1190`) passes over homes and over
    planets that are owned or nuked, and not over the one that is being explored, whose owner is
    written behind it (`cmd.c:1308`). When it is picked, it is added to the list twice (lines 1204 and 1275) and
    counted off twice (lines 1208 and 1290). From then on the tick works on it twice, only the first of
    the two entries gets its flags (`db.c:1494`), one of them stays behind when the planet goes
    (`db.c:1459`), and the system has one planet fewer to explore than there are. `OwnerLists`,
    `PortalsAgree` and `UnexploredExact` say that this is the only way to such a difference, and how large it is.

Fleets:

13. The planet of a merging fleet is -1, so `cmd.c:1355`, whose comment (`cmd.c:1352`)
    has the fleets meet at a planet, merges with any fleet that waits. The flag of waiting
    survives a change of orders, and a fleet about to merge may find one before it in
    the array that the walk has still to write back from its copy, or to remove because all its
    ships were disbanded: ships are then in two fleets, or in none (`crossed`).
14. When nobody survives a battle the fleet is removed, and the standing order to
    recall is then given to the fleet that moved into its position (`battle.c:1059`).
15. Agents without a portal to return to repeat their operation at every tick
    (`cmd.c:1416`). A fleet whose partner is gone waits until it gets other orders.

Daemon:

16. The flag "to prevent double calling of round reset" (`html_admin.c:1538`) is raised
    behind the creation of the thread and asked for only by the loop: a second request that is
    served in the same pass starts a second thread. With two, a round may be made
    twice or be waited for without need; `RoundsEnd` assumes that there is one.
17. If the loop is left before the thread has raised `regen`, the process exits in the middle
    of the walk that deactivates accounts. A SIGTERM during the wait for a new round is forgotten
    (`main.c:885`).
18. The configured start of time (`main.c:322`) starts a stopped round again at a
    restart, except when a victory timer has run out. Rankings are made also while time stands still.

Victory:

19. The rankings pass over empires without members (`cmdtick.c:47`), so one whose
    members have all left keeps the timer for ever: nobody else can win, and the page
    goes on naming it (`cmdtick.c:268`).
20. The file of the artefacts' timer (`db.c:4549`) is never deleted, and
    `dbDeleteArtifactTimer` returns -1 where its comment says 1. `CMD_USER_FLAGS_FROZEN` is
    read but never set.

Forums:

21. Deleting a forum that is not the last renames directories in another tree
    (`db.c:3619`); index and files disagree from then on.
22. Posts that are edited beyond `FORUM_MAX` cannot be read back by the list
    (`db.c:4048`). The forum of a new empire is made from a record whose number of threads was
    never set (`html_admin.c:1341`).

Accounts:

23. Numbers of accounts that were deleted last are given again after a restart, though
    `db.c:827` says that this is disabled: `dbInitUsersReset` looks for the highest one
    that is left. A start on an empty database skips number 0, which mails take for the administrator.
24. The file of blocked players keeps a deleted account's directory, for ever
    (`db.c:971`). A crash in the middle of a registration or a deletion leaves an account with a
    record of zeros, who is a member of empire 0.
25. `dbUserTable` is not zeroed when it grows (`db.c:425`): numbers that no user has are read from
    memory nobody wrote. Renaming a faction changes only the file, so the copy in memory against which
    `cmdexec.c:655` compares is an old one. The purge of accounts walks on from a record it has freed
    (`html_admin.c:1525`), and sessions point at records of users who were deleted.

Timed effects, which are not modelled:

26. A beacon is a flag on the map that the effect of whoever set it takes off when it runs
    out (`cmdtick.c:1340`). The deactivation of that player drops the effect and not the flag
    (`cmdexec.c:521`): the beacon stays for good, and `specop.c:705` refuses another one.

## 6. Limits of the models

* Shares are exact integers; the code multiplies floats, whose rounding may cost
  one unit more or less on large quantities.
* Requested quantities are positive and small; the width of `int` is not modelled.
  The code bounds the product of price and quantity (`MaxWorth`) and the models
  keep that guard.
* Operations that fail on files (missing records, full disks) are not modelled. A
  kill between two writes is modelled where a start makes sense of what it
  finds (`Accounts`, `Daemon`); elsewhere the handlers are whole.
* `Daemon` takes every access to a flag as a step of its own and memory as sequentially
  consistent; the variables are plain `int`s shared by two threads.
* `Fleets` is one player's; units that travel inside carriers, the decay that comes
  with a lack of energy, and what an ancient civilisation gives are left out.
* The forums of the empires, which an administrator makes and a round's end removes, are
  outside.
* Of planets: the moderators' buttons that give planets away, remove builds or set
  a planet's construction (`html_admin.c`) change some of the copies and not the others; the
  properties of `Planets` are about a game without them. What an ancient civilisation gives instead of
  planets (research, units, buildings) touches neither owners nor lists nor builds and is left out.
* `ChangeVote` lets every member be voted for; the page refuses frozen candidates,
  so the model has more behaviours, all of which the handler itself allows.

**Not modelled**, and why: the amounts of production, combat, research and spells are
arithmetic on floats without state of their own; aid and the fund are single handlers
that read two records and write both; news and mail repeat the lists of the market file and the chains of
the forums; observations are one search in an array; sessions are identified by random
strings whose collisions are the question; the map's generation runs once before a round; pages and
`http/`, `ircbot/` and `extras/` are input and output, or vendored. The greater part of the lines
of this repository is of those last kinds.

## 7. What is left

1. Proofs: the lemmas on sums and least counterexamples, stated in each module that needs
   them, could be shared; and what still holds of the forums' files once a forum in the middle
   was deleted (each thread's own file does) has no statement yet.
2. Models: timed effects of operations and spells (`dbUserSpecOp...`), walked backwards
   in the tick; news and mail; aid and fund; sessions against freed users.
