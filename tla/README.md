# TLA+ models of dht-rpc

This directory holds TLA+ specifications of the core of dht-rpc, the TLC
configurations that check them on small instances, and TLAPS proofs of what
matters most. The code in `src/` is the reference; `PROJECT.json` maps every
definition to the lines it models.

## The system

dht-rpc is a Kademlia-style RPC node over UDP. Everything runs on one JavaScript
event loop: a handler runs to its end before the next one starts. What
interleaves is handlers: messages, timers, intervals, the continuations of
`await`, and the calls of the program that uses the node. Packets are lost,
duplicated, delayed and reordered by the network. Nothing is persisted, so there
is no crash recovery; what takes its place is `suspend()`/`resume()`.

| Component | State it keeps | Operations | Interacts with |
|---|---|---|---|
| Request table, `lib/io.js` `IO`, `Request` | `inflight`, `_pending`, `_tid`, per request `sent`, `retries`, `destroyed`, timer, socket; `stats.requests` | `createRequest`, `send`, replies in `onmessage`, `oncycle`, `_drain`, `_bindSockets`, `_clear`, `suspend`, `resume`, `destroy` | one callback (`onresponse` or `onerror`) per request to the DHT, a query or the program; `ontimeout` to the DHT |
| Congestion window, `lib/io.js` `CongestionWindow` | four slots and their sum | `isFull`, `send`, `recv`, `drain`, `clear` | called by the request table and by sessions |
| Session, `lib/session.js` | an array of requests, their indices in it | `_attach`, `_detach`, `destroy` | destroys requests, takes them off the table |
| Round-trip tokens, `lib/io.js` | two secrets, a countdown | `token`, the check in `onmessage`, rotation in `_drain` | replies carry tokens, requests bring them back |
| Node lifecycle, `index.js`, `lib/io.js` | `suspended`, `destroyed`, the bind promise, sockets, intervals, watcher | `suspend`, `resume`, `destroy`, `bind`, `_rebind` | overlapping calls share promises |
| Routing table maintenance, `index.js` | the table, the list `nodes` ordered by age, ticks per node, `_checks`, `_repinging` | `_addNode`, `_removeNode`, `_onfullrow`, `_repingAndSwap`, `_check`, `_pingSome`, DOWN_HINT, `_ontick`, `_onwakeup` | pings through the request table, told of every sender |
| Health, `lib/health.js` | a ring of four readings, two counters, a status | `update`, `reset` | reads `stats.requests`, publishes through the DHT |
| Query, `lib/query.js` | nodes seen, pending, in flight, slow; closest replies; the stream | `_open`, `_read`, `_readMore`, `_onvisit`, `_onerror`, `_oncycle`, `_flush`, commit, `_destroy` | asks through the request table, reads the routing table, sends down hints |
| Bootstrap and network state, `index.js` | `firewalled`, `ephemeral`, `_nat`, table id, `_stableTicks`, `_lastHost` | `_bootstrap`, `_natAdd`, `_updateNetworkState`, `_checkIfFirewalled`, `requestAll`, `_ontick`, `_onwakeup` | pings nodes through the request table, runs queries, replaces the routing table |
| Delayed ping, `index.js` | `_pendingTimers` | `delayedPing`, `_ondelayedping` | replies from a timer |
| Peer ids, wire format, commands, errors | none | encoding | |

What makes each correct:

* *Request table*: one callback per request, whatever arrives twice or late;
  nothing is left in the table without something that will act on it;
  `destroy()` leaves nothing behind; counters match the table.
* *Window*: the sum is the sum of the slots, within the limits.
* *Session*: array and indices agree in every order of leaving, so that the loop
  of `destroy()` always finds live requests.
* *Tokens*: valid for at least one rotation period and less than two.
* *Lifecycle*: every call returns, `close` is emitted once, and nothing that must
  be released is held at rest.
* *Routing table*: table, list and counters in step; a node that answers stays.
* *Health*: counters kept incrementally agree with the ring; the published
  status is the computed one.
* *Query*: the k closest that answered, none skipped, none asked twice, and an end.
* *Network state*: persistent only under the address it has, after it was stable
  long enough; bootstrap always ends; a node that can become persistent does.
* *Delayed ping*: no timer outlives `destroy()`.

The hard behaviours are listed under `hazards` in `PROJECT.json`, each at its
line, with the properties that watch it or the reason none does.

## Modules

| Module | What it is |
|---|---|
| `CongestionWindow` | the window as a record and its methods as operators; used by `IO` |
| `SessionList` | the array of a session with its index swaps, as operators; used by `IO` |
| `IO` | the request table and the destruction of a session: one action per handler |
| `RequestContract` | what the table promises, in five actions; `IO` implements it (`ContractSpec`) |
| `IOProofs` | theorems about `IO`, `CongestionWindow` and `SessionList` |
| `IOLimitsProofs` | theorems about `IO`: the window's limits, nothing forgotten, statistics, ids, attempts |
| `Lifecycle` | overlapping `suspend()`, `resume()`, `destroy()`, from await to await, and the timers of delayed pings |
| `LifecycleProofs` | theorems about what overlapping calls leave behind |
| `NetworkState` | bootstrap, NAT samples, the firewall probe, turning persistent and back |
| `NetworkStateProofs` | theorems about when a node turns persistent |
| `RoutingTable` | routing table maintenance for one row |
| `RoutingTableProofs` | theorems about the table, the list, the counters and what pings captured |
| `Health`, `HealthContract` | the ring with its counters; the plain window of verdicts it implements |
| `HealthProofs` | the counters count the ring, and the contract is implemented |
| `Token`, `TokenProofs` | round-trip tokens, and the theorems about their lifetime |
| `Query` | one iterative lookup |
| `QueryProofs` | theorems about what a query asks, counts, keeps, hints and commits to |
| `MCIO`, `MCNetworkState`, `MCRoutingTable`, `MCToken`, `MCQuery` | constants for TLC |

Definitions that stand under a comment beginning with "Mutation:" are not part of
a specification. They are plausible mistakes in the code: `PROJECT.json`
pairs each checked property with one that breaks it when put in place
of the definition it varies.

### IO

A handler is one action. `_clear()` and `Session.destroy()` call user code for
every request they settle, so their loops are one action per iteration
(`ClearOne`, `SessionDestroyOne`); `loop` says which loop runs. What that code may
do is an action that a running loop does not exclude: create requests (`Create`),
destroy the session (`Enters` says which loop that interrupts), destroy the node,
or bind it. What it may also call but what only acts after an await is as if
called after the loop. `destroy()` may overlap a `suspend()` here, but a `resume()`
follows the end of its `suspend()`, and binds succeed; `Lifecycle` has the other
overlaps and the binds that fail, without requests. `Create` is `createRequest()` with the `send()` that follows. A reply is any packet that ever went out
(`wire`), so loss, delay and duplication need no action of their own. Timers that
are armed may fire at any time. `inflight` is a set, its order abstracted; the
session's list is the array of the code, with the index every request keeps
(`SessionList`). A socket is the number of the `_bindSockets()` that made it: a
request keeps the socket it was created with and a packet of an old one goes
nowhere.

### Lifecycle

Each call is a process whose `pc` names the await it stands at. Calls are
numbered in the order they are made, and a promise by the call that made it (0
for the first bind, of `_bootstrap()`). Any call may come at any moment and any
bind may fail. `awaited` remembers whether the program so far awaited `suspend()`
and `resume()`; `destroy()` may still come at any moment except during a
`resume()` (which is where the finding below is). Properties that only an
awaiting program can expect are conditional on it.

A delayed ping is received by the newest sockets and its timer holds the
generation to answer from. Continuations run before the next message is
delivered (`Ready`), as microtasks do; without that a ping could come between
`destroy()` clearing the timers and `_clear()` closing the sockets.

### NetworkState

`_updateNetworkState()` is a process: `Check` is the code up to its `await`,
`Resolve` and `Answered` are what it awaits, and the last answer runs the rest
(`Verdict`, `Open`, `Closed`) with whatever the node has become by then. Calls are
made by `_bootstrap()`, which waits for them, and by ticks, which do not, so that
several overlap. A NAT sampler shows any host and port after any message: that
covers consistent networks, ones whose port changes with the destination, and a
move between networks. Nodes to ask are a number, 0 up to the five of the code.
A suspension appears as what it does to these variables: pings that fail, no
ticks for a while, and the wakeup of `resume()`. After `destroy()` the ticks stop,
and what is under way goes on: the bootstrap query may end or fail, pings settle.

`owed`, `steady` and the field `earned` are not in the code: the ticks that must
pass before the node may count as stable, whether the network has shown one
address and lost no probe so far, and whether nothing was owed when a check began.

### RoutingTable

A node is an object, because `_check()` and `_repingAndSwap()` act on objects
they captured while the table may meanwhile know the id through another. The
state is a record and the methods are operators on it, composed in the handlers
as the code composes them. Operators with a choice (which of equally old nodes,
which new object) return the set of states that may result. One row is modelled,
the node is bootstrapped, and `table.add()` of an id that is held puts the new
object in place of the old one, as the external kademlia-routing-table does.

### Health and Token

`Update` is the whole of `update()` with the publication that follows. Its
counters only grow, so the runs use `View`, which keeps the differences that
`update()` looks at. In `Token` a secret is which of the two random values it
came from and how often it was hashed since; a token is its secret and its host,
with its age in drains, the only clock the secrets have.

### Query

A node is its rank by distance to the target, so `_compare()` is `<`. `fast` and
`slow` are the requests in flight before and after their first cycle; beside them
the counters of the code are kept as the code keeps them. `ReadMore` composes
`Visits`, `AddFromTable` and `Flush` without recursion: the recursion of
`_readMore()` happens at most once. `AddAll` says
what the loop of `_addPending()` over a whole list adds, and `Visits` what the loop
of `_readMore()` pops and asks, both by the positions in the list and not by steps,
so that the prover can reason about them. A query may be given a node twice; since
`_addPending()` puts it in once, the lists of `Starts` have no repeats. The lists
that replies name may have some, and need not be in order of distance. That a request gets exactly one callback is taken from
`RequestContract`. The stream is a count of unread replies and a flag that says
whether `_read()` will be called again. A background query reads its own replies
and changes its concurrency each time; the requests of a query made with the
program's session live on after it is closed.

`named`, `asked` and `verified` are not in the code. `named` holds who named whom in
its replies, the whole lists, and with each pair whether the query got to that name:
`_onvisit()` reads a list no further than the first name that is not closer (a TODO
at `query.js:277` says that such names are lost to the down hints), none when the
query commits already, and none with `onlyClosest`. `HintsMatch` is about the names
it got to; who gave the others is not told, in the code and here. A reply comes
from the node that was asked (`m.from` is `req.to`), and hints are always sent but
by a destroyed node, where `_request()` returns null.

## Runs

| Run | Question | Bounds |
|---|---|---|
| `io_table` | one callback each, is anything forgotten, is the window sound, do ids collide, are retries bounded, does the session's array stay linked | 3 requests of one session, window 1, 3 ids, 1 retry, 1 bind |
| `io_liveness` | does every request settle, does `destroy()` complete, is the contract implemented, do the statistics agree, through suspend and resume | 2 requests, one in a session, window 1, 2 ids, no retry, forced or not, 2 binds |
| `io_stale_retry` | finding | 1 request |
| `lifecycle` | do all calls return, is nothing held at rest or left of a delayed ping, `close` once, no doubled interval | any 5 calls, binds may fail |
| `lifecycle_race` | finding | 3 calls |
| `routing_table` | counters, list and table in step, answers keep the place | 3 ids, 2 objects each, row of 2, ticks to 2, 2 pings |
| `routing_hint` | finding | as above |
| `health` | counters count the ring, contract implemented | up to 6 settled requests per tick, real window and threshold |
| `token` | lifetime of a token | 2 hosts, real period of 10 drains, 2 tokens, 2 hashes |
| `query` | what a query returns, asks and hints, and that it ends | 3 nodes, k = 2, 2 at a time, 1 when slowed or in the background, buffer of 1, six kinds of query |
| `network_state` | when does a node turn persistent, does bootstrap end | 2 hosts, 2 ports, probes of 2 nodes, 1 bootstrap node, 2 checks by ticks at once, 1 wakeup, countdowns of 1 and 2 ticks |
| `network_forced` | finding | 1 host, 1 check by ticks at once |

Why the bounds are enough to meet the interesting cases:

* Two requests and a window of one packet are what it takes for one to wait in
  the drain queue while the other is in flight; the third in `io_table` lets two
  wait, and is what it takes for a request to move in the session's array before
  it leaves it. With as many ids as requests the id counter wraps: in `io_table` it
  starts at the last id (`FirstTids`; all else is the same for any other start), in
  `io_liveness` anywhere. A second bind is where requests are sent again.
* Five calls reach suspend, resume, suspend, resume, destroy with every overlap.
* A probe of two nodes with a quorum of both, one bootstrap node and a table with
  0 to 2 nodes give both quorums of the code, an empty list and a lost ping. Two
  hosts and two ports tell every comparison of addresses apart. Two checks by
  ticks overlap each other and that of the bootstrap; a countdown of 1 is over at
  the first tick, one of 2 is not.
* `PingEvery` is 2, `RecentNode` 2 and `OldNode` 1 instead of 8, 12 and 360: the
  model has ticks on both sides of each. Two objects of an id are needed for a
  captured one to be replaced, three ids for a full row of two with a newcomer.
* Six settled requests per tick lie on both sides of the threshold of 4 with
  every majority; the ring has its real length, so it fills, wraps and is reset.
* Three nodes with k = 2 give a full result and one to be cut off. With
  concurrency 2 a slow and a fast request coexist, and a buffer of one is full
  after the first reply.

TLC also shows that the invariants do not depend on chance: the passing runs fire
every action, and every property has a mutation of the code that breaks it.

### Fairness

* `IO`: a timer that is armed fires, the drain interval fires while it is set,
  closing sockets close, and a loop or continuation that can run does. Replies
  need not come. This is what the event loop does with timers and callbacks; no
  call of the program is fair. `EverySettles` is conditional on the sockets
  staying open: a request made before the bind has no timer.
* `Lifecycle`: a continuation whose promise has settled runs.
* `NetworkState`: the bootstrap query ends (`Terminates` of `Query`), names are
  resolved and pings settle (`EverySettles`), and the tick interval fires. No pong
  is assumed; `OpenTurnsPersistent` is conditional on a network that answers.
* `Query`: the stream calls `_open()`, `_read()` and `_destroy()`, the program
  reads, commits settle, and the timers of requests fire (`EverySettles`).
  No answer is assumed. The condition is `WF_vars(Progress)` with its ENABLED
  written out as `Due`, which TLC evaluates much faster.

`CHECK_DEADLOCK FALSE` stands only where the system may stop for good (all
settled and destroyed, no more calls, a bound reached); each cfg says which.

## Findings

* `io_stale_retry`: a reply clears the timer but leaves a queued retry of the
  request in `io._pending`; the retry is sent after the promise was resolved,
  times out, counts as a timeout, and its live node is dropped from the table.
* `lifecycle_race`: `destroy()` right after `resume()`: `_rebind()` awaits
  `_destroying` and `_destroy()` awaits that `_rebind()`; neither settles.
* `routing_hint`: a node heard from in this tick and hinted as down answers its
  ping within the tick and is removed, because `seen <= lastSeen` still holds.
* `network_forced`: a node created with `ephemeral: false` checks its network only
  in `_bootstrap()`, and gives up at the first check that fails, for instance
  because nothing has told it its address yet; it then stays ephemeral for good on
  a network where README.md promises that it turns persistent.

## Proofs

`IOProofs` proves, for every finite set of requests, every window, number of
retries, id space and number of binds (`IOAssumption`, `MaxWindowAssumption`):

* `Invariance`: `IInv == Typed /\ Settling /\ Counted` is inductive.
  - `Typed` is `TypeOK` with the balance of the window: without the balance
    `drain()` could take more from the sum than it holds and leave Nat.
  - `Settling` is `InFlightIsWaiting`, `SessionTracksFlight` and
    `DestroyedIsEmpty` with what they need: unused requests appear nowhere, the
    timer of a destroyed request is not armed, and loops fit the mode.
  - `Counted` is `stats.active = Cardinality(inflight)`, needed for the type:
    otherwise `active - 1` could be negative.
* `TypeCorrect`, `TableIsOutstanding`, `SessionProgress`, `DestroyedStaysEmpty`
  follow from it.
* `NeverTwice`: no settled request gets another callback.
* `Implements`: every step is a step of `RequestContract` or leaves its
  variables alone.

`IOLimitsProofs` proves the other safety invariants of `IO` from `IInv`, each with
the strengthening it needs:

* `WindowStaysSound` (`WindowSound`): forced requests aside, `send()` is the only
  way up and comes after `isFull()`.
* `NothingIsForgotten` (`NothingForgotten`): from the first bind on every request in
  flight has a socket to be sent from (`GivenSockets`), so that sending it arms its
  timer or queues it.
* `AccountsStayBalanced` (`AccountsBalance`): a reported request is destroyed, and a
  destroyed request has no timer, so none is counted twice (`Tallied`).
* `TidsStayDistinct` (`TidsDistinct`): that the ids in use differ is not inductive,
  since the counter may wrap into any of them. `Recent` counts back from the counter:
  every id has an age, the number of ids given out since, that is below the number
  of requests made; so the one that comes next belongs to nobody.
* `AttemptsStayBounded` (`AttemptsBounded`): before the first bind nothing was sent;
  after it a request is in the queue once at most, with a send left and its timer
  off (`Budgeted`). A second bind ends this, as the property says.

`LifecycleProofs` proves, for every number of calls, `TypeCorrectness`, `ClosesOnce`
(`CloseOnce`), `IntervalsAreKept` (`NoStrayInterval`), `PingsEnd` (`NoLatePing`) and
`RestsAsAsked` (`AtRestAsAsked`). The invariant has two parts. `IInv` holds however
calls overlap: who needs a bind finds one (`Bindable`), a promise settles once
(`Pending`), ticks and drains belong to the newest handle (`Intervals`), one call
closes down (`Closing`). `AwaitedInv` holds of a program that awaits its calls: a
`resume()` runs alone (`Alone`), no message comes to a node that is suspended or
whose last bind failed (`Refused`), and at every await between two calls it is known
which sockets, intervals and watchers are held (`Kept`). `AtRestAsAsked` speaks of
nodes at rest only and follows from the last of these.

`RoutingTableProofs` proves, for every set of ids, row, number of objects and limit,
`TypeCorrectness`, `CountersStayRight` (`CountersMatch`), `ListsAgree` (`SameNodes`),
`OrderIsKept` (`OldestFirst`) and `AnswersKeepPlaces` (`AnswerKeepsPlace`). The
invariant is a predicate `Good(s, t)` on the state of the table and the tick, and
there is one lemma per operator of the model which says that it keeps it, so that
the proof of a handler composes lemmas as the handler composes operators. Beside
the properties it says that a node was not heard from later than it was pinged
(`Timed`), from which it follows that what a ping of an old node captured lies
before its tick (`Captured`): that is why its answer, which refreshes the node
first, never finds it stale. A ping caused by a hint may be made in the tick in
which the node was heard from, which is the finding `routing_hint`.

`HealthProofs` proves, for every threshold and number of requests between two
updates, `TicksAreCounted` (`TicksCountVerdicts`) and `Implements` (`ContractSpec`).
That the counters count is inductive only with the shape of the ring: it fills from
its first slot (`Warming`) and then stays full (`Full`). The contract also needs
that the node publishes what health keeps (`Published`): the early returns of
`_online()`, `_degraded()` and `_offline()` compare with what was published before,
and drop no change, because a node is never degraded and offline at once.

`TokenProofs` proves for every rotation period that a token is accepted for a full
period and for less than two (`GoodForAPeriod`, `BadAfterTwo`). The two bounds
are not inductive: the invariant dates every token by where its secret now is
(in the newer place, in the older one, hashed since) and relates its age to the
countdown in each case.

Of `SessionList`, `IOProofs` proves for every set of requests that a new list is
linked, that `Attach` of a request that is not in it and `Detach` of any request
leave it linked, and what either makes of the set of requests in the list. The rest
uses these facts and never the array itself, but for the head of the list that
`Session.destroy()` takes.

`NetworkStateProofs` proves, for every number of hosts and ports, of calls under
way, of ticks to wait and of nodes to ask (`NetworkStateAssumption`), `TypeCorrect`
and the two action properties `NeverStale` (`PersistentIsCurrent`) and `NeverEarly`
(`PersistentIsEarned`). The types do not imply the second: `IInv` adds that an
adaptive node counts down at least what it owes (`owed <= stable`), so that a
check begun by a tick owes nothing, and that a call under way which may turn such
a node persistent was begun so. `OpenTurns` and `CheckTurns` are the only two ways
to turn persistent, after a probe and without one.

`QueryProofs` proves, for every number of nodes, k, concurrency, buffer, routing
table, list that a reply may name and set of options (`QueryAssumption`),
`TypeCorrectness`, `RequestsAreCounted` (`CountsKept`), `ClosestAreKept`
(`ClosestKept`), `NobodyIsSkipped` (`NoneSkipped`), `NamersAreTold` (`HintsMatch`),
and the action properties `CommitsSettleFirst` (`CommitsDecide`) and
`NobodyIsAskedTwice` (`AskedOnce`). The invariant is a predicate `Good` on the state of the query, and
there is a lemma per operator and per handler which says that it keeps it. Its parts,
and what each adds to the property it proves:

* `Waiting`: the nodes in `pending` are there once, are open and were never asked, so
  that popping one asks it for the first time; the others asked are not new, so
  that no list brings them back.
* `Counts`: once the node is destroyed `inflight` counts visits that made no request,
  so it may be too large from then on, never too small.
* `Kept`: while fewer than k replies are kept, all that answered well are, which
  a bound on the length alone does not say when the next one is inserted.
* `Told`: an open node remembers exactly those at whose name for it the query got.
  This is why the order of naming and timing out does not matter. A node named and
  not taken up is not closer than the k kept, and these only get closer, so that it
  never will be taken up.
* `Reached`: a node passed over was no closer than the k kept when it was popped, and
  these only get closer, since `_pushClosest()` drops the farthest.
* `Decided`: what the phase of the stream says of requests and commits; before
  `_open()` nothing is in flight, and a stream that commits is ended by the last
  commit only. `CommitsDecide` says both ways what the last commit does: with
  one fulfilled the stream ends, also when the last one failed; with none it is
  destroyed.

A timeout without retries is `_oncycle()` and `_onerror()` in one action, each with
its own `_readMore()`, and the proof composes their lemmas in that order.

The proofs are laid out with one lemma per action and per part of the invariant
where the action can disturb it, and the temporal step last.

Only model-checked: the liveness properties (`EverySettles`, `DestroyCompletes`,
`CallsReturn`, `DestroyedCloses`, `Terminates`, `BootstrapEnds`,
`OpenTurnsPersistent`), which are outside the prover's reach under fairness. Every
safety invariant, action property and contract of a passing run is proved. The type
invariant of `IO` is proved and not checked by a run; that of `Token` is part of
what is proved.

## Not modelled

* What the move to a new table id does to the routing table (`index.js:856-874`):
  the copy needs rows around two ids, and `RoutingTable` has one row. The hazard
  there is listed without a property.
* `addNode()`: for an unknown id it is what hearing from the node is; the ticks it
  starts a node with differ, which multiplied the states of `RoutingTable` beyond
  what TLC can check here.
* The `filterNode` option, the rate limit of down hints and the option
  `sendDownHints`, which only leave out nodes or hints.
* Requests over a bind that fails, or over `resume()` before its `suspend()` ended:
  `IO` has neither, and `Lifecycle`, which has both, has no requests.
* `_onnetworkchange()`: it only emits events.
* NAT sampler, kademlia-routing-table, time-ordered-set, streamx, udx-native:
  external; what the code relies on is part of the modules that use them.
* Encoding, hashing, errors, commands, the examples: no state.

## Plan

1. Done: the modules above with their runs, the contracts of requests and health,
   and the proofs above.
2. Done: proofs of every safety property that the runs check.
3. An abstract specification of a query, for a caller who sees only replies, their
   order and the end, with the proof that `Query` implements it.
4. A module for the copy into a new table, with rows around the old and the new id.
