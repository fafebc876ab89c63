# Link: a TLA+ model of the relay and its clients

Link connects the nodes of a network through a relay. A *network* is a key pair; its signed
*roster* lists the member nodes and names one of them *primary*. Members register with the relay
over a WebSocket, present their roster, and send each other end-to-end encrypted frames that the
relay routes by node id. A *newcomer* joins by a pairing channel that the relay opens between it
and the primary's connection.

This directory models the relay (`src/relay/internal/relay`, Go): its registry, its accounting,
its connections and their goroutines; and the Go client (`src/client-go`): its sessions, their
credit and stamps, its connection to the relay, how rosters reach the members, and pairing. The
modules are checked with TLC on small instances, and safety properties of thirteen of them are proved with
TLAPS for every value of their constants.

## Inventory

### Parts and their state

| Part | Source | State | Operations |
|---|---|---|---|
| Registry | `network.go`, `server.go` | shards of networks; per network its roster and `members` | `register`/`admit`, `pushRoster`, `adoptLocked`, `demote`, `unregister`, `janitorLoop` |
| Idle rosters | `idle.go` | per address a queue of idle networks, bytes per address and in all | `syncIdleLocked`, `resizeLocked`, `removeLocked`, `trimIdle` |
| Pairing | `pairing.go` | channels by id, `conn.pairs`, a timer each | `pair`, `pairEnd`, `endChannel` |
| Writer | `conn.go` | two lanes, the frame under way, `queued`, `writing`, `closing`, `below` | `enqueue`, `kickLocked`, `drain`, `closeWith`, `abort`, `ping`, `waitFor` |
| Slow peers | `conn.go` | `slowTimer`, `fullSince`, `lastDrain` | `enqueue`, `releaseLocked`, `checkSlow` |
| Reader | `read.go`, `poll_linux.go` | `reading`, `armed`, `noPark`, the epoll set | `run`, `park`, `wake`, `finalize`, the poller's loop |
| Keepalive | `server.go`, `conn.go` | `paused`, `awaitingPong`, read deadlines | `pingLoop`, the pong handler, `unpause` |
| Shaping | `network.go`, `limits.go`, `limits_file.go` | the hour window, `rateNow`, `slowed`, `slowNets`, the limits | `chargeLocked`, `reshapeLocked`, `shapingLoop`, `ReloadLimits` |
| Control budgets | `network.go`, `limits.go` | `memberCtl`, `ctlTAT` | `allowControl` |
| Admission | `server.go`, `limits.go`, `admin.go` | connection table, per-address counts, `closing`, the WaitGroup | `upgrade`, `acquire`, `registered`, `release`, `Shutdown`, `Drain` |
| Sessions | `client-go/sessions.go` | per peer: sessions, the current one, the handshake under way, the message at the head | `startHead`, `initiate`, `onInit`, `onResp`, `onData`, `onReset`, `sweep`, `dropAll` |
| Credit | `sessions.go`, `member.go` | per session: credit, bytes in flight, credit owed, the message in progress; per peer: bytes and messages held | `pumpOnce`, `runFragment`, `onFragment`, `flushCredit`, `release` |
| Stamps | `sessions.go`, `member.go` | last stamp of each member, stamps retained of those that left, two clocks | `nextStamp`, `lastStamp`, `rosterChanged`, `rosterAdded` |
| Relay connection | `relay.go`, `transport.go`, `member.go` | state, generation, timers, channels with their queue, messages sent offline | `dial`, `onText`, `onClose`, `afterClose`, `stop`, `SendAsync`, `admit`, `wantDrain`, `drained`, the writer |
| Rosters | `member.go`, `primary.go`, `role.go` | the roster held, pushes per peer, retries, requests, the claim | `publish`, `sendRoster`, `pushed`, `offerRoster`, `askPrimary`, `onPeerVersion` |
| Pairing codes | `primary.go`, `newcomer.go`, `pairing.go` | codes with slots, failures and claim; channels with their stage | `OpenPairingCode`, `onPairing`, `onPairFrame`, `endChannel`, `failAttempt`, `withdraw` |
| Other clients | `client-rust`, `client-typescript` | the same | not modelled |
| Data | `internal/link`, `internal/vectors`, client encodings | none | encodings, canonical JSON, signatures, SPAKE2, Noise |

### How the parts interact

Each connection has one reader goroutine at a time, at most one writer, and timers. The ping loop,
the shaping loop, the janitor, the poller, a reload and a shutdown are goroutines of the relay.
Locks are taken in the order `netShard.mu`, `network.mu`, then one of `slowMu` and `idle.mu`;
`chmu` (pairing) and `conn.wmu` (the writer) are separate. What a handler decides under
`network.mu` it often does after unlocking: closing the connection it replaced, demoting the
former primary, trimming. Most of what is hard about the relay lies in these gaps. The modules
therefore have one action per critical section, and a handler's local variables are state while
it is between two of them.

A reader that routes to a full queue waits for it (`waitFor`), which couples the writer of one
connection with the reader of another. A reader that waits is `paused`, which couples it with the
ping loop. An end of a connection (`finalize`) goes through `unregister`, which couples it with the
registry, the idle accounting, the per-address counts and pairing.

A client is a monitor: everything runs under the member's lock, tasks put off to its release
included, so a handler is one action. What is left to interleave are timers, messages, the dial,
resolver and reader goroutines, which look at a generation when they get the lock, and the writer
of a channel, which does not take the lock at all. Between two members there is a relay that keeps
the order of frames of a connection, and loses what is on a connection with it.

The hazards this leads to, each with its place in the code and the properties that guard it, are in
`PROJECT.json`.

## Modules

Each module opens with a comment on its scope and atomicity. The `MC` modules give the constants
small values; four of them run several modules, see below. A definition marked *Variant* is a plausible mistake in the code at that
place; with the variant in place of the real definition the property named in `PROJECT.json` fails,
which shows that the property depends on that code.

- **Registry**: one network id. `held` is the object in the shard's table, `roster`, `compact` and
  `members` belong to each object, and `net`, `id`, `closing` to each connection. `evict`,
  `demoted` and `old` are the locals of the handler that has unlocked. `Register` is the critical
  section of `admit` in its four outcomes (a new object, refused with a new object, a newer roster,
  the held roster or an older one presented); `PushRoster`, `CloseEvicted`, `Demote`,
  `CloseReplaced`, `CloseRefused`, `Unregister` follow the code; `Forget` is the janitor's or
  trimming's deletion and `Compact` trimming's cut. `latest` is history.
- **IdleRosters**: several networks and addresses; what the registry's steps do to the idle
  accounting, and `trimIdle` in its two steps (choose under `idle.mu`; lock the network, look again,
  cut or forget).
- **Pairing**: the registry as far as it names the primary's connection; `pair` as look-up, open,
  tell the primary, tell the newcomer; every `endChannel` under way is a record in `calls` with its
  place in the code.
- **ConnWriter**: the lanes, `cur`, the inline drain and the writer goroutine. `Feeder` is a
  sending reader, the relay's own messages and the connection's replies; a frame says whose it is and
  which lane it is for, since a reply may go in either. `part` says that a frame is partly out. `out`
  is what the peer received, as far as the order in each lane needs it.
- **SlowPeer**: the same queue as a length, with time. A timer may fire late, and its callback may
  have started when it is stopped (`calls`). `late` is history: something was not on time.
- **Park**: reader goroutines (`Slot`) of one connection, the parked flag, the epoll set and a
  peer that sends and hangs up.
- **Keepalive**: the two flags, the reader's deadlines and a peer that answers, falls silent or
  leaves.
- **Shaping**: one network, the hour window, the loop and a reload. The clock counts slots, and
  charges come with times taken before the lock. Under a quota every look at the shaping brings the
  window up to date (`QuotaLocked`); a usage request does so without a quota too, and tells nobody.
- **ControlBudget**: two budgets as theoretical arrival times; `mark`, `spent` and `netSpent` are
  history: a window that starts anywhere and what it gave.
- **Admission**: connections from the first look at `closing` to `conns.Done`, the per-address
  counts and the shutdown that walks the shards.
- **Session**: two members. `st[n]` is the peer state of one for the other with its socket's frames
  (`wire`). A frame names the session by its receiver's index. Messages have two fragments, so one
  can be part-way across when something happens. `cause` and `lost` are history: whether something
  that may lose a session has happened, and whether a frame found none without it.
- **Delivery**: what `Send` promises: whole, in order, at most once, maybe lost. `Session` implements
  it, with `asked` and `got` mapped to themselves.
- **Credit**: one direction between two members, up to three sessions, with the reverse direction as
  far as it carries credit and resets. Sizes are small numbers; `inbox` is what the application has
  not taken.
- **Stamps**: one responder and the members that send it handshakes. Time is in ticks of the
  responder's monotonic clock, `off` and `roff` are what the wall clocks are ahead of it, and `sent`
  is every init ever sent, each of which may arrive at any time and again.
- **RelayLink**: the connection of a client and the messages sent through it. `gen` counts dials, a
  channel is named by the generation that dialled it, and goroutines of earlier generations stay
  about. `lock` is where the pump is while it holds the member's lock, since the writer goroutine
  runs in between.
- **RosterSync**: the members and the relay's `admit`, `pushRoster` and `route`, with the frames in
  each socket and on the way to each node. `mine` and `handed` are history for the last publication;
  `lost` is the newest version a node will not get, since the frame was lost or the primary ended
  while it still owed it.
- **PairingCodes**: the primary, its codes by entry, and the attempts, each a channel with a queue
  each way. SPAKE2 is whether the two sides hold the same code; any message of the exchange may turn
  out malformed, and an attempt may name an id no code was issued under. `admits`, `malformed` (the
  channels that ended on such a message) and `unanswered` (refused in silence, the budget for unknown
  ids being spent) are history.
- **ArithmeticTheorems**: sums over finite sets, for the two proof modules that count by sums.
- **RegistryProofs** (Registry, ControlBudget), **IdleProofs** (IdleRosters), **ConnWriterProofs**
  (ConnWriter), **ConnectionProofs** (Park, SlowPeer, Keepalive), **AdmissionProofs** (Admission,
  Shaping), **LinkProofs** (RelayLink, Stamps, Pairing), **PairingCodesProofs** (PairingCodes): the
  theorems. Modules that are proved together share no state; they are together because each is short.
  Their definitions have names of their own for that reason (`PairSpec`, `StampInit`, `BudgetNext`).

**MCConnection** (Park, SlowPeer, Keepalive, Shaping), **MCBudgets** (IdleRosters, ControlBudget),
**MCSessions** (Session, Stamps, RelayLink) and
**MCMembership** (PairingCodes, RosterSync) each run modules that share no state at their grain: the
variable `part` names the one whose behaviour it is, and the others stay as they started. A run of
such a module checks each part on its own instance, and no more than that. What does couple two
parts is inside each of them as a choice: a full queue in `Keepalive`, a dropped connection in
`Session`, an admission in `RosterSync`.

Payloads, signatures, challenges and encodings are left out. What a check of data decides is a
choice in the model: which roster a connection presents, whether a frame is malformed.

## Runs

All but three runs are expected to pass. `CHECK_DEADLOCK FALSE` stands in every configuration for
the same reason: connections, messages, reloads or ticks come from finite supplies, and a relay
whose connections have all gone stops in the model. A stuck system shows as a violated
liveness property instead.

| Run | Instance | What it shows |
|---|---|---|
| `registry` | 3 connections, 2 nodes, 2 objects, rosters of versions 1 to 3 (one revokes, one re-admits with another primary) | Live members are reachable and on the roster, the last connection of a node is never closed as replaced, rosters never go back |
| `budgets` | idle rosters: 2 networks, 2 objects, 3 connections from 2 addresses, rosters of 2 sizes, a budget of 300 bytes; control: 2 members, one with a replaced connection, frames of 1 and 2, 2 rates, 3 times | The idle totals are exact and a held network is listed exactly while it is empty; no window gives more than a burst and what refilled |
| `idle_trim` | 1 network id, 2 objects, a budget of one roster | Violation: `trimIdle` can run for ever (finding) |
| `pairing` | 2 members, 1 newcomer | A channel ends once for each side, none outlives its primary's connection, the primary hears the end, the newcomer is let go |
| `pairing_demote` | the same | Violation: a channel stays with a demoted connection (finding) |
| `conn_writer` | 1 sender, the relay and the connection itself as feeders, 3 frames, for either lane, 1 ping, a queue of 1 frame | One writer, nothing stranded or torn, order in each lane, exact counts, waiters served, flush, deadline |
| `connection` | reading: 3 reader goroutines, 3 messages; slow peers: a limit of 2 ticks, 6 ticks, a queue up to 3; pings: 3 messages; shaping: 2 members, a window of 2 slots, 4 slot times, 2 charges, 1 reload | One reader and no lost wake-up, what is sent is read or the connection finished; a peer is closed as slow when and only when it was; one that answers is kept but in one gap, and a silent one ends; members know the shaping in force, the trickle is never late to start, and they hear when it lifts |
| `admission` | 4 connections, 3 of them from one of 2 addresses, 2 shards, limits 1 pending and 2 in all | Counts are exact, within limits, and a shutdown ends with no connection missed |
| `credit` | 2 sessions, 2 messages of size 0 or 3 in fragments of at most 2, an initial credit of 1 and a window of 2, 2 messages held at most | Credit is conserved, the counts are exact, an honest sender is not cut off for its bytes, every message begun is finished |
| `credit_buffers` | 3 sessions, 3 messages of the largest size, nothing else | Violation: the third is cut off (finding) |
| `sessions` | sessions: 2 and 1 messages, 3 indices a side, 2 sessions, 1 adverse event; stamps: 2 members, 1 retained, W of 2, clocks 0 to 2 ahead, 3 events; connection: 2 dials, 3 messages, a resolver | Delivery is implemented, rekeying loses nothing, no send is stranded, and after rekeys that do not cross both hold the current session; no init taken twice, no fresh one refused; the connection's next step, each message's one result and the pump's wake-up are coming |
| `membership` | codes: 2 codes, default or separate, 2 attempts by 2 nodes, 2 failures burn a code, one member fits, 1 drop, demotion, malformed message or unknown id; rosters: 2 nodes that both hold the seed, versions up to 3, 1 drop, restart or meeting | Slots add up and only failures cost attempts, a code admits one node, a newcomer of a primary hears the end; the newest roster is handed over or owed, and only a lost frame, or a primary that ended owing, leaves a connected member behind |

Some properties are conjunctions of statements about one component (`IdleKept`, `PairingKept`,
`WriterKept`, `ClosesInTime`, `ReaderKept`, `ShapingSound`, `AdmissionKept`, `CodesKept`). The
statements are definitions of their own with a comment each, and each is broken by a variant of its
own, listed in `PROJECT.json`.

**Why the bounds are enough.** Each hazard names how many actors it takes. Three connections of one
node are needed for a replacement that crosses another, and two objects for a network forgotten
and made again. Three rosters are the least with a revocation and a re-admission. One
newcomer is enough for pairing, since channels share nothing but the lock. Three frames and a
queue of one let the inline write, both lanes and a waiting sender meet. Three reader slots are a
parking reader, its replacement and that one's replacement. Two window slots make every advance
cross a boundary or empty the window. Two sessions in `credit` are a rekey with
a message on each side of it. Two sessions and three indices a side are a
crossing of handshakes followed by one more. One retained stamp with two members is the least that
pushes one out. Two dials have a goroutine of an earlier generation end during a later one. Two
attempts are one that claims a code and one that fails, loses the race or comes late. With room for
one member, that a code admits no second node is settled by the room as well; the proof (`OneAdmission`)
has any number of attempts and members. Clocks 0, 1 and 2 ahead with `W` of 2 are equal, less than `W`
apart and exactly `W` apart. A
module's type invariant is checked as the first conjunct of one of its invariants; that of
`Registry` and `ControlBudget` is proved (`TypeCorrect`, `BudgetTypes`). Symmetry is used
only in runs without liveness properties.

**Fairness.** Only what the code's scheduling gives:

- goroutines that are not blocked run: handlers, `endChannel`, a drain that writes inline, the
  poller, the shutdown's walk, the ping loop and the shaping loop (weak fairness of their steps);
- deadlines and timers fire: the pairing timer, the read deadlines, the write deadline that a close
  with a code sets. `conn_writer` assumes nothing else of the peer, which may never read again;
- nothing makes a peer send, a member register or leave, a limit change or a clock tick;
- in the pings of `connection`, what holds a reader back ends: a shaping hold is a sleep, and a full queue drains
  or its connection is closed as slow (`SlowIsClosed`; with `LINK_SLOW_PEER` 0 this would not hold);
- in `admission`, a connection told to close is finished by its reader, which `SilentPeerEnds`
  shows of one connection;
- in `credit`, frames arrive, sockets drain, timers fire, the application takes what it was given,
  and the sweep ends a session that the peer has forgotten; nothing makes a member begin a message,
  rekey or end a session in use;
- in `idle_trim`, the trimming goroutine runs. Without that, its not ending would say nothing.

## Proofs

TLAPS checks all obligations with its SMT and Zenon backends, and LS4 for the temporal steps.

**RegistryProofs** assumes that rosters are records whose primary is a member, and that `None` is
none of the other values. The properties are not inductive: that a live connection is reachable
depends on what handlers between two critical sections are about to do. `IInv` adds to `TypeOK`:

- `Placed`: an entry of `members` and the connection in it agree on object and node, the roster
  lists the node, and the object is the one held, so forgetting an object loses nobody;
- `Made`: the object held, and every object a connection registered with, has a roster;
- `Standing`: a registered connection is in its place, or closing, or some handler will close it;
- `Jobs`: what a handler still has to do after unlocking is there only while it is at that place,
  so a new critical section starts with nothing left from an earlier one;
- `Latest`: the last connection admitted for a node is registered under it, was not closed as
  replaced and is in no handler's `old`.

`Invariance` is `Spec => []IInv`; `TypeCorrect`, `Reachable` and `NotReplaced` follow from it, and
`NeverBack` is the action property, from the types and the version comparisons of `admit` and
`pushRoster`.

**RegistryProofs**, on `ControlBudget`, assumes natural sizes and rates and positive denominators.
`BudgetInv` adds that every time a reader holds is not in the future (`PastTimes`), that what a member spent since the mark
is covered by how far its arrival time is ahead of the mark, which is at most a burst ahead of now
(`OwnInv`), and the same for the network with the burst of one of the rates (`NetInv`). From these
the two bounds follow, for times charged in any order.

**IdleProofs** assumes finitely many addresses, natural sizes and a `None` apart from the networks
(`IdleAssumption`). `IdleKept` says that `bytes` and `owned` are sums over the lists of idle
networks, and that a held network is listed exactly while it is empty. (It says nothing of a network the
relay forgot, which may be listed too: run `idle_trim`.) A step moves one network
into, out of or within a list, or changes what it costs; `Resized` and `Booked` give what that does to
the sums, by the theorems of ArithmeticTheorems. The invariant adds that lists hold no network twice
and each network is in one (`Lists`), what a listed network costs (`Costs`), that a network is held
under its own id and one that was never made is in no list (`Holds`), and that a connection or a trim
under way refers to a network that was made (`Points`): `trimIdle` picks in one critical section and
cuts in another, and between the two its victim may be joined, forgotten or listed again.

**ConnWriterProofs** assumes natural bounds, that `None` is no frame, and that the senders, the relay and
the connection itself are different feeders. The parts of `WriterKept` hold each other up, and
`WriterInv` is their joint strengthening: one drain, exactly while `writing` is set (`Single`); a
drain that writes has taken something (`Busy`); nothing is queued without a drain
(`NothingStranded`); the counts include the block being written (`QueuedExact`); a feeder that waits
was noted in `below` first, on an open connection that is being written (`Waits`); what is queued, the
block taken and what is on the wire are in one order in each lane, and a frame is in the lane it is
marked for (`Lanes`, `Written`); the close frame
comes when nothing is left before it (`Ending`); and `closing` precedes all that ends a connection
(`Shut`). `FramesWhole` is the action property `NeverTorn`.

**ConnectionProofs** has an invariant for each of three parts. `PInv` of `Park`: one owner of the
reading state and none while it is parked or after the end (`Owned`), a parked connection is in the
epoll set, or has its event, or is about to be looked at (`Watched`), and the note `armed` is true but
while its one reader adds the connection (`Noted`). `QInv` of `SlowPeer`:
a full queue has a timer or a callback of it under way, or is sentenced (`Full`), and while nothing
is late it filled or drained within the limit (`OnTime`). `KInv` of `Keepalive`: a ping not answered
yet is owed a pong or has one on the way (`Answered`). `PartSteps` says that a step of the composition is a step of one part.

**AdmissionProofs**, on `Admission`, assumes a finite set of connections, each with an address and a
shard. The counts are cardinalities (`Counts`); for the walk of `Shutdown`, every connection in a
shard behind it was told and those of its own shard are told or in its batch (`Walked`). On `Shaping`
it assumes natural bounds and a window of at least one slot. A network that should be slowed is
slowed, for all that charges, looks and reloads do to the window before the reshape that follows; the
converse fails, since a usage request lets slots lapse without a reshape, so `ShapingCurrent` says only
that a slowed network has limits with a trickle, and that it lifts is liveness (`LiftIsTold`). The
window's sum is that of its slots (`Kept`). That it is
no more than the hour's charges needs a correspondence: a slot that has not lapsed holds charges of
one moment of the hour with that remainder (`Fits`), and a clock that is at most one step ahead of a
handler that has read it (`InStep`).

**LinkProofs**, on `RelayLink`, assumes natural bounds. `LinkInv` says that exactly one of a dial, a
resolver, a timer and an open channel brings a client that is not in a terminal state to its
connection (`Way`), which results a message has at each of its places (`Results`), and what the pump
can count on at each point between its looks at the channel (`Holder`, `Woken`). `PumpIsWoken` is
`Woken` where the lock is free. The writer's swap, which may come between any two of the pump's looks,
is the step that needs the rest.

On `Stamps` it assumes a natural `W` and start and integer offsets. `NeverTwice` needs to know
where the stamp of a taken init is kept. `StampInv` says that every init taken of a member whose stamp
was not pushed out is at or below what is stored for it, `stamps` while it is on the roster and
`retained` while it is off (`Guarded`); that what is stored is the stamp of an init that was taken
(`Earned`); and that starts and admissions are in the past (`Past`).
`FreshNotRefused` is arithmetic over the floor: the two clocks differ by less than `W`, the floor is
`W` below the moment of joining in the responder's wall time, and so below the stamp.

On `Pairing` it assumes that `NoConn` is no connection. `PairInv` follows the ends that were sent along
the calls of `endChannel` under way: one call of a channel is past the lock, and then the channel is
out of the table (`OneRuns`); a channel in the table has had no end (`Fresh`); a call past the lock has
sent what its place says, and leaves the primary out only if that ended the channel or is closing
(`Ends`); who is out of the members table is closing (`Departed`); so a primary that is owed its
`pairEnd` has had it (`Heard`).

**PairingCodesProofs** assumes natural bounds (`CodesAssumption`) and has an invariant in two halves.
`WInv` is about the wires between the primary and its newcomers:

- `WTypes` of channels, attempts and wires; `Placed`: a channel is held exactly while it is on a code,
  and an attempt not made yet has nothing;
- `Ordered`: the primary hears of a channel first and once, and of the newcomer's end only after the
  newcomer stopped waiting, so a channel is never set up twice;
- `Ending`: a newcomer whose channel is gone, with nothing under way, has the end coming last, unless
  it was refused in silence (`unanswered`);
- `Welcomed`: a P6 on its way, or a newcomer that reports success, is of a node in the roster.

`CInv` is about the codes. That a code which burns by its last failure has no
other attempt on it follows from the counts, so `AdmitsOne` rests on them:

- `CTypes`; `Counted`: `inFlight` is the number of channels on the code, and with the failures at
  most `CodeAttempts`;
- `Claims`: a channel that may complete holds the claim of its code, alone, with the right secret,
  and its code is not burned; a claim by which nobody was admitted still has its channel;
- `Admitted`: a code that admitted a node is burned, and admitted one node, whose attempt had it;
- `Listed`: codes are opened in order, a listed one is good and is alone under its id.

`Inductive` combines the two; `OneAdmission`, `SlotsAddUp` and `NobodyWaitsForNothing` are `AdmitsOne`,
`SlotsExact` (half of `CodesKept`) and `NewcomerHears` for any number of codes, attempts and channels.
`OnlyFailuresCost`, the other half, needs each failure tied to an attempt of its own, and is left to
TLC.

**Only model-checked**, on the instances above:

- every liveness property and the three violations: fairness and ENABLED are out of the prover's reach;
- `Session` with `LossHasCause`, `NoSendStranded` and `CurrentIsShared`, and that it implements
  `Delivery`: these rest on what lies on two wires and in two tables of sessions at once;
- `Credit`: its sums run over the fragments in queues, and a step takes from one and adds to another;
  what they add up to needs induction over sequences, which the installed provers cannot do;
- `RosterSync` with `NewestIsOwed` and `NoneLeftBehind`;
- `OnlyFailuresCost`, the second half of `CodesKept`.

## Differences

Where the code does something other than a comment or the protocol document says. Three are runs and
findings in `PROJECT.json`; for the others the statement is a definition in the module, under the heading
"Said of the code and not true of it", and TLC violates it when it is added to the configuration as
described.

1. **Trimming may never end** (run `idle_trim`, `TrimEnds`). A connection that was replaced or
   evicted keeps its network object. If the relay forgets that object and the connection leaves
   afterwards, `unregister` lists the forgotten object as idle. `trimIdle`, over its budget, chooses
   it, finds that the table holds another or none, takes nothing out, and chooses it again. The
   comment at `idle.go:162` counts on somebody having taken it out.
2. **A channel may stay with a demoted connection** (run `pairing_demote`,
   `ChannelsFollowPrimary`). `pair` reads the primary's connection under `network.mu` and enters the
   channel under `chmu` (`pairing.go:61`); a demotion that collects the channels in between misses
   it. The pairing timer ends it. Protocol section 4.2 has the relay end every such channel.
3. **Two rekeys may put an honest sender over the bounds** (run `credit_buffers`,
   `Credit!WithinBuffers`). Protocol section 7.3 has an honest sender stay within what a receiver keeps
   for a peer. That bound is over all the sessions of the peer (`sessions.go:679`) and each has a
   window of its own: with the application taking nothing through two rekeys, a message of the largest
   size waits on two sessions, and a third is cut off. `HonestKept` is about the bounds of a session.
4. **A record may be forgotten before a full roster is cut** (`IdleRosters!FullCutFirst`). A cut
   roster goes to the back of its address's queue (`idle.go:171`), but networks that become idle
   later queue behind it in full. Protocol section 9: "a record is forgotten only once all that
   address's full rosters are cut". To see it: `IdleTrim.cfg` with the
   networks, sizes and objects of `Budgets.cfg`, `Limit = 200` and `PROPERTY FullCutFirst`.
5. **The idle budget may be exceeded at rest** (`IdleRosters!WithinBudget`). A refused
   registration that brings a newer roster, or a push from an evicted connection, makes an idle
   network larger (`network.go:300`, `network.go:400`) and only `unregister` trims. A refused
   connection never had a network, so its end does not trim either. To see it: the same
   configuration with `Limit = 300`, `Expires = TRUE` and `INVARIANT WithinBudget`.
6. **A restored roster may change the primary without a demotion**
   (`Registry!FormerPrimaryDemoted`). A compact record keeps version and members. A registration
   with the same version and members and another primary, which two holders of the seed can sign,
   replaces the roster (`network.go:278`) and demotes nobody. The network has to be empty when it is
   cut, but members that bring an older roster may have registered since. To see it: `Registry.cfg`
   with `Obj = {o1}`, `Rosters <- MCClaims` and `PROPERTY FormerPrimaryDemoted`.
7. **A pong held back may count against the peer** (`Keepalive!NotHeldAgainstPeer`). `unpause`
   clears `paused` and then `awaitingPong` (`conn.go:545`); the ping loop between the two stores
   finds a connection that is not paused and has not answered, and drops it. The comment there says
   "do not hold that against the peer". `AnswererKept` shows that this is the only such gap. To see
   it: `Connection.cfg` with `INVARIANT NotHeldAgainstPeer` (as `K!NotHeldAgainstPeer` in `MCConnection`).
8. **The hour window may lose bytes** (`Shaping!HourExact`). `advance` sets `step` back when it is
   given a time from before the last slot boundary, and the next call empties the slot that the
   newer charge went into. The quota is then counted low by that charge. To see it: `Connection.cfg` with
   `INVARIANT HourExact` (`S!HourExact`).
9. **A code replaced after it expired may still admit** (`PairingCodes!ReplacedAdmitsNobody`).
   Protocol section 5.1: "opening a default code closes the default code open before it, which
   admits nobody from then on". `OpenPairingCode` prunes codes past their time before it looks for one
   to withdraw (`primary.go:656`), and pruning ends no channel, so an attempt under way completes.
   To see it: `Membership.cfg` with `PROPERTY ReplacedAdmitsNobody`.
10. **A fresh init at the edge of `W` may be refused** (`Stamps!NeverBelowFloor`). Protocol
    section 7.1: "A registered member is never refused by `F`: its clock is at most `W` behind." An init
    has to be stamped after `F`, and a clock exactly `W` behind, in the millisecond of joining, stamps
    it `F`. `FreshAccepted` is stated for clocks less than `W` apart. To see it: `Sessions.cfg` with
    `INVARIANT NeverBelowFloor`.

Two more are not contradicted by a sentence of the document, and worth knowing:

- **Crossing handshakes**: when both members initiate at once, each side keeps as current the session
  that the other has retired. After the grace the sweep forgets it, and the next message each way is
  lost to a reset. `CurrentIsShared` excludes this, and its comment says how to see it; nor does
  `LossHasCause` count what is lost after a crossing.
- **A lost push**: a roster handed to the session and lost with the connection counts as pushed; the
  member learns of it by its next registration, handshake or request. A primary that restarts
  forgets its retries. Two holders of the seed may sign the same version.

## Not modelled

- **Encodings, canonical JSON, cryptography, vectors**: pure functions over bytes, which the
  repository tests against fixed vectors.
- **Per-connection pacing** (`charge`, `sleepUntil`): a delay of the reader. `Keepalive` has it as a
  reason to be held back.
- **`ipLimiter`** and its sweep: the budget arithmetic is that of `ControlBudget`.
- **HTTP, the admin pages, configuration, the limits file's syntax, npm packaging, deployment**: input
  and output without concurrent state.
- **A finished reader with a blocked writer**: `finalize`'s `closeWith(0)` (`read.go:442`) sets no
  write deadline, so a writer goroutine blocked on a peer that closed its sending side and does not
  read is freed only by TCP. `ConnWriter` has the reader's end and assumes nothing of such a peer;
  `ClosesInTime` is about closes that set the deadline.
- **The client's events, counters and token buckets**: a bucket that refuses is a choice in
  `Session`, `Credit` and `PairingCodes`; events go through a queue to the application and
  come back to nothing.
- **`SyncRoster`, `Resign`, `WaitConnected`**: callers that wait for what `RosterSync` and
  `RelayLink` do, with a deadline.
- **The directory look-up and the driver**: one request and its answer; a test harness.
- **The Rust and TypeScript clients**: the same protocol again, written separately. A model of each
  would be these modules with other line numbers, and what is interesting, where they differ from
  `client-go`, is what the repository's interop tests are for.

## Plan

1. **Composition**: `PairingCodes` over the relay's `Pairing` (a `pairEnd` queued ahead of its
   `pairing`), and `RosterSync` over `Registry`, in place of the queues that stand for the relay now.
2. **Connection**: `ConnWriter` and `Park` in one module, for the end above.
3. **Proofs** of `RosterSync` (what the primary owes) and of `Session` implementing `Delivery`.
