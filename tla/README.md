# GopherHole in TLA+

GopherHole is a peer-to-peer virtual LAN. A *signaling server* hands out virtual
addresses and host names, tells every client who is online, and passes on
requests to punch holes. The *clients* exchange encrypted UDP packets with each
other directly.

This directory holds TLA+ modules of the server and of what the clients do
with it, the TLC configurations that check them, and TLAPS proofs. Paths such as
`internal/server/service.go` are below `src/`.

## 1. Inventory

| component | state | operations | who uses it |
|---|---|---|---|
| Registry (`internal/server/registry.go`) | cursor, addresses and names in use, name of each address | `Allocate`, `Release`, all under `r.mu` | `Register`, orphan timers, the peer manager's `onRemove` |
| PeerManager (`manager.go`) | the online peers with endpoint, key, time of the last heartbeat | `AddOrUpdatePeer`, `RemovePeer`, `CleanExpired`, `HasPeer`, `GetAllPeers`, under `m.mu` | `Heartbeat`, orphan timers, clean-up loop |
| SignalRouter (`signal_router.go`) | one buffered channel per address | `Register`, `Unregister`, `Route` | `Heartbeat`, `SignalRoute`, the peer manager |
| EventBus (`event_bus.go`) | subscribers' channels with room for one token | `Subscribe`, `Unsubscribe`, `Notify` | `Heartbeat`, the peer manager |
| SignalingService (`service.go`) | none of its own; two goroutines per `Heartbeat` call, one timer per `Register` call | the three RPCs | clients |
| server process (`cmd/server/main.go`) | - | clean-up loop every 10 s, two STUN responders, start | - |
| client control loop (`internal/client/node.go`) | address, name, stream, NAT type | register, detect the NAT, stream, back off, register again | - |
| PeerTable (`peer_table.go`) | an entry per peer: key, cipher, endpoint, state, pending packets | `SyncPeers`, `GetPeer` (makes the cipher), `UpdateState`, queue operations | reader, pump, punches, command line, stream |
| UDPEngine (`udp_engine.go`) | public endpoint | reader, keep-alive, `Punch`, `HandleSignal` | the client |
| SymmetricCipher (`pkg/crypto/cipher.go`) | nonce counter, replay window | `Encrypt`, `EncryptInPlace`, `Decrypt` | UDPEngine |
| hosts file (`pkg/utils/hosts.go`) | a file of the operating system | read, filter, truncate, write | a goroutine per `SyncPeers`, the signal handler of `cmd/client/main.go` |
| STUN (`pkg/stun/stun.go`) | - | request and answer, detection, parser, responder | start of the client, keep-alive, reader, server process |
| authentication, TLS, packet format, TUN, configuration, terminal, stubs | none, or the operating system's | - | - |

How they interact: the RPC handlers call the peer manager, which calls the
router, the bus and (through `onRemove`) the registry while it holds `m.mu`. The
handlers and the timers take these locks one after the other, so that everything
*between* two calls interleaves. A client's goroutines share the peer table in
the same way: each call locks for a moment, and what was read is used later.

What is hard, component by component, with the property that makes it correct:

- **Registry**: three tables that must agree (`BooksAgree`); names that must not
  collide although requested names and suffixed names (`nas-2`) share one set
  (`NamesDistinct`, and at the nodes, which come back with the name they were
  granted, `DistinctNames`); a search that holds a lock others wait for while they hold
  another (`CallsReturn`, `ImplementsRegistry`).
- **Register and its orphan timer**: an address is handed over from the timer to
  the peer table without a lock (`NoLeak`); an answer that never arrives (`Reclaimed`).
- **Heartbeat**: handler and receiver run concurrently and end separately; a
  second call for the same address may start before the first has ended
  (`ChannelsOpen`, `DistinctAddresses`).
- **Updates**: snapshots and one-token notifications (`ListFresh`).
- **Signals**: bounded queues, channels that are closed under a sender (`ChannelsOpen`).
- **Time**: streams that break without the server noticing (`Reclaimed`,
  `RefusedForAnotherNode`), or that the server sees break first (`DistinctAddresses`).
- **Cipher**: the window's shifts and bounds (`TakesExactlyTheNew`), no packet
  twice (`ImplementsChannel`).
- **Peer table**: ciphers made on first use with no lock held, on entries that
  come, go and change (`FitsKey`, `CountsOn`, `CipherInHand`), and nonces that
  must be new to the peer's window (`NextIsNew`).
- **Hole punching**: a peer's state is tested and set in separate steps by
  pump, reader, stream, command line and punches, each a goroutine of its own
  (`NoStuckPacket`, `OpenWhenConnected`); lost packets and requests, endpoints
  that change, packets from endpoints that were left (`Reconnects`).
- **STUN**: answers that are matched to requests by their order only
  (`TypeIsRight`, `PublicWasMine`), endpoints that change while answers are under
  way (`Converges`).
- **Hosts file**: rewrites without a lock (`UserLinesKept`).

`PROJECT.json` lists the hazards one by one, at their lines.

## 2. Modules

    Registry <-------- PeerManager <-- Signaling      (EXTENDS)
       |                                  |
       |                               MCSignaling, SignalingProofs
       |                                                 |
       |                                           AddressProofs
       |                                                 |
       +-- RegistryProofs <--+---------------------------+
       |                     |
       +-- ServerLocks <-----+-- ServerLocksProofs    (EXTENDS; ServerLocks also
              |                                        INSTANCEs Registry)
           MCServerLocks

    DatagramChannel <- ReplayWindow <- ReplayProofs   (INSTANCE, EXTENDS)

    PeerTable  <- MCPeerTable, PeerTableProofs        (EXTENDS)
    Punching   <- MCPunching <- MCReconnect
               <- PunchingProofs
    HostsFile  <- MCHostsFile
    StunDetect <- MCStunDetect, StunDetectProofs

**`Registry`.** Virtual addresses are numbers, names are sequences: the requested
string followed by the suffixes that were appended, so that two ways of
producing `nas-2` give one name. `Allocate(reqName, reqIP, name, ip)` holds for
the result the code returns; the loops over the cursor and the suffixes are
their results: the first free address from the cursor on (`Available`), the
first free candidate (`GrantedNames`). With a full pool `Allocate` has no result
for who asks for any address: the code searches for ever, which `ServerLocks` and
`Signaling` model. `ReleaseAll(S)` is `Release` of
each address of `S`, which `CleanExpired` does in one critical section of `m.mu`.

**`ServerLocks`.** The same operations from lock to lock: who has `m.mu` and
`r.mu`, who waits, the search one probe at a time, a removal one peer at a time.
`Registry`, with the cursor where the search began, is the abstract
specification that it implements: this is what justifies one action for
`Allocate` in the other modules. A sequence of removals in one critical section of
`m.mu` is atomic for whoever takes `m.mu`; a registration, which takes `r.mu`
only, can see some of the addresses free and others not yet. `Signaling` has
`CleanExpired` in one step; the intermediate states are those of
several clean-ups in a row, each of one peer, with the notification after the last.

| action | code |
|---|---|
| `CallRegister` ... `CallOrphan` | a request, a heartbeat, the end of a call, the turn of the clean-up loop, the end of a timer's sleep |
| `AllocateRequested`; `BeginSearch`, `Probe` | `Allocate` with a requested address; without one, round by round |
| `Add`, `Lock`/`Evict`/`GiveBack`/`Unlock`, `Look`, `Drop` | `AddOrUpdatePeer`; `RemovePeer` and `CleanExpired` with `removePeerLocked` and `onRemove`; `HasPeer` and `Release` of the orphan timer |

**`PeerManager`.** The three shared tables and their operations, each one action:
`m.mu` is held throughout, and what happens inside takes leaf locks. A channel is
named by the call that made it. `RemoveBlocked` is a removal that gets as far as the
registry, whose lock it waits for for ever. A peer's `age` is the time since its last
heartbeat, in ticks of 30 s.

**`Signaling`.** Handlers, receivers, timers, clean-up loop, clients.

| action | code |
|---|---|
| `RegisterOk`, `RegisterLost`, `RegisterConflict` | `registerNode` with the handler `Register`: the answer arrives, is lost, or is `AlreadyExists`. The first registration's failure ends the program; a later one is repeated, except after `AlreadyExists` |
| `RegisterSearch` | the same with a full pool, for a node that asks for any address: the search never ends and holds `r.mu`; the node gives up after 15 s |
| `OrphanCheck`, `OrphanRelease` | the two calls the orphan goroutine makes after its sleep |
| `HbFirst` ... `HbSendFirst` | the statements of `Heartbeat` up to its loop, one action per call that touches shared state; `pc[s]` is the next one |
| `HbErr`, `HbUpdate`/`HbRefresh`, `HbSignal`, `HbClosed` | the branches of the `select`; taking the token and taking the snapshot are separate |
| `Return`, `HbRemove` | the deferred calls in the order they run |
| `RecvHeartbeat`, `RecvErr` | the receiver; it may apply what it read after the handler returned |
| `OpenStream`, `SendHeartbeat`, `Disconnect`, `Remap`, `Crash` | the client's control loop, its endpoint, its end at any point |
| `SignalRoute` | the handler of the same name, called by any running client |
| `CleanUp`, `ServerRestart`, `Tick` | clean-up loop, restart with empty tables, time |

A stream is seen to break by each end on its own, in either order: the client's end by
`Disconnect`, the server's when its `Recv` or `Send` fails (the second disjuncts of
`HbFirst`, `SendList` and `HbSignal`, and `RecvErr`), which may happen at any time, or never.
`stuck` says which locks are held for ever: none, `r.mu` (a search of a full pool), or
`m.mu` as well (a removal that waits for `r.mu`, `Blocked`). What needs a lock that is
held for ever is disabled; a restart makes all locks free. Heartbeats in transit
are lost with their stream. One heartbeat at most is under way per stream,
since they are sent 10 s apart and a later one would carry the same or newer
data. The public IP is part of the endpoint the client sends; the code takes it
from the connection.

**`ReplayWindow`, `DatagramChannel`.** One direction of a tunnel. The network may
lose, repeat and reorder packets: any packet sent so far may arrive at any time,
any number of times, and a packet may arrive damaged with any nonce. The window
is a set of bit positions; `W` is 64 in the code. `Decrypt` is one step since only
the reader goroutine calls it. `DatagramChannel` says what the layer above is
promised.

**`PeerTable`.** One peer of a client's table. An entry is an object: a caller of
`GetPeer` works on the one it found, also when a list has taken it out of the table or
put another in its place. A cipher is the peer's key it was made from and its
counter. History variables remember what was sent and accepted under each key
(`sent`, `taken`), which keys a list dropped (`dropped`), and which entries had their
key changed under a caller that was computing (`crossed`); no action reads them,
but `PeerTakes`, which is the peer.

| action | code |
|---|---|
| `SyncGone`, `SyncNew`, `SyncKey`, `SyncAddr` | the cases of `SyncPeers` for this peer |
| `Look`, `Read`, `Store` | `GetPeer`: the table's lock, the entry's lock to read, the entry's lock to store |
| `Check`; `Encrypt`, `Decrypt`, `Panic` | the two calls of `GetCipher` in `sendControlPacket`, `SendDataPacket`, `readLoop`, and what follows the second |

**`Punching`.** Two clients that list each other, and what each keeps of the other:
the state, the queue, the observed endpoint. Each goroutine's place between two calls on
the table is a variable.

| action | code |
|---|---|
| `PumpRead` ... `PumpPunch` | the pump for one packet: state, `EnqueuePacket`, state again, `Punch` |
| `GoSend`, `GoCheck`, `GoTimeout`, `GoDrop` | the goroutine that `Punch` starts: its loop, the look at the state, `UpdateState`, `FlushPendingPackets` |
| `Read`, `ReadLook`, `ReadConnect`, `ReadFlush`, `ReadStun` | the reader: `handleControlPacket` with `UpdateAddr`, the look at the state, `UpdateState`, flush and answer; a STUN answer with a new endpoint |
| `HandleSignal`, `HandlerPunch`, `SyncPeers` | the receiver of the stream |
| `KeepAlive`, `Type` | the ticker, the command line |
| `Remap`, `Lose` | a NAT, UDP and the server |

A NAT lets a packet in once its client sent one to the endpoint the packet comes
from; all a client's packets leave from one endpoint, 0, and 1 once it has changed. A
packet carries the endpoint it was sent from, and arrives if it was sent to the endpoint
its receiver has. When an endpoint changes, packets sent *from* the old one stay in
flight, and may come in at any later time, after the list that tells of the
change too. Of those sent *to* it, the ones that the old NAT has let through wait in
the client's socket, ahead of the STUN answer that tells the client; the others are
lost. Packets in flight form a set: the tunnel drops copies. A `MSG` packet
is not among them: all it does to this state is what `Read` does first. The delays of the
code, 300 ms between two punches and 15 s between keep-alives, are left out: a
punch may time out before its first packet arrives, or long after.

**`StunDetect`.** The one UDP socket of a client, its NAT, and the two STUN ports.
At the start `DetectNAT` asks port by port and takes the next packet that comes in
for the answer (`Receive`), or gives up after 3 s (`Timeout`); then the keep-alive
asks the first port and the reader believes whatever answer arrives
(`ReadAnswer`). An address of 32 and a port of 16 bits are the sets of the positions
of their ones, and are really masked and unmasked, by symmetric differences
(`XorMapped`, `Parse`). The NAT is of one type for the run, and may change its
mappings. Left out: answers of another form than the responders send, and the
data packets of peers, which begin with other bytes.

**`HostsFile`.** The file as a sequence of lines, and its rewrites by system calls: read,
truncate, write. The two marks are lines like others. A longer text that another rewrite
left beyond the end of a shorter one stays, in whole lines. The order
of the peers in a block is the order of a Go map, any. `End` is any way the program may
end: after the signal handler's rewrite (`os.Exit(0)`), after an error of `Run`
(`os.Exit(1)`, which skips the deferred clean-up), or killed.

## 3. Runs

| run | bounds | shows |
|---|---|---|
| `locks` | 2 pool addresses, 1 outside; a goroutine for registrations, one for additions, removals and clean-ups, one for timers; calls without end | `BooksAgree`, `NamesDistinct`, `ImplementsRegistry`, `CallsReturn` |
| `one_ip` | 1 address, 2 nodes, 2 calls, 2 registrations, timers and expiry of any length | `NoLeak`, `ChannelsOpen`, `ListFresh` through every hand-over of the address |
| `lists` | 2 addresses, one of them asked for by the second node; 2 calls, 2 endpoints, 3 registrations, no expiry | `DistinctAddresses`, `DistinctNames`, `ListFresh`, `ChannelsOpen` with addresses that change hands, endpoints that change, and streams that break at either end first |
| `reclaim` | 1 address, 2 nodes that ask for any, 1 call, 2 registrations, 1 restart, with signals | `Reclaimed`; the pool is full when the second node asks too early |
| `punch` | 2 clients, one sends and its user types `punch`; 2 + 1 punches at a time, 1 try, room for 1 packet; the sender's endpoint changes; at most 3 goroutines between two statements, 1 packet on its way to each client | `NoStuckPacket`, `OpenWhenConnected` |
| `reconnect` | 1 punch per client; losses; one client's endpoint changes; the other one sends; both users type `punch`; coarse schedule, 1 packet on its way to each client | `Reconnects` |
| `replay` | window of 3, 9 packets | `TakesExactlyTheNew`, `ImplementsChannel` |
| `table` | 2 callers, 3 entries, 2 keys that work and 1 that does not, 2 endpoints, 1 packet per cipher | `FitsKey`, `NextIsNew`, `CountsOn` |
| `stun` | 2 STUN ports, 3 endpoints on 2 addresses, 2 changes of the mappings | `PublicWasMine`, `TypeIsRight`, `Converges` |
| `refused`, `nil_cipher`, `hosts` | as above; `hosts`: 2 lines of the user's, 2 peers, 2 rewrites and the signal handler's | what comments and messages say and the code does not do, section 6 |

Why the bounds are enough. One address is the worst case for hand-overs: two
nodes, two calls and two registrations make every pair of "who has it" and "who
acts on it" possible, each call, receiver and timer being early or late. A
second address adds lists that differ from the node's own entry and an address that
one node wants while the other may have it; a second
endpoint adds changes that are not new peers. `MaxGrants` and `MaxRestarts` bound the
only counters. A name of a call is used again when nothing refers to the earlier
call (`Unused`), so that behaviours are not bounded by the number of calls. In
the window, distances below, at and above `W`, bits shifted out and a wrap past
several widths all occur with `W = 3` and nine packets. For the table, two callers
are one that computes and one that overtakes it, and three entries are theirs
and the listed one; a second packet per cipher adds nothing to whether the counter
starts again, and the proofs are for any number. For the locks, one goroutine can hold
each lock and one can wait for either; the pool is full with two registrations.

- The *quick* run `lists` (`QuickSpec`) leaves out behaviours that last longer
  than a tick: no peer expires and no orphan timer fires. It ends when the
  registrations are used up, hence no deadlock check; the same holds
  of `replay`, whose packets run out, and of `stun`, since a client without any
  answer ends. `DistinctAddresses` and
  `DistinctNames` speak of the time from the grant until one end of the stream breaks
  (`Holds`), whichever end that is; a node that has not noticed may carry on for longer
  (section 6). Nor do they hold of all behaviours: after a timeout the server may give
  away an address that a cut-off client still uses. They are checked of quick
  behaviours, and proved of *careful* ones (`CarefulSpec`, section 5), which include
  timers and expiries.
- *Silent* runs (the action constraint `MCSilent`) leave out signals, which
  change nothing but the queues; `reclaim` and `refused` have them. Nodes that gave
  up and nodes that ended are then alike, and `MCSilentView` identifies them.
- For a pair, two punches of one client are enough for one to time out while
  another goes on, and one try is enough for a punch that sent and a punch that
  did not. `punch` bounds the goroutines that are in the middle of something
  (`MCBusy`): a race needs two or three. One packet on its way to each client
  may be lost, or stay for as long as one likes, late ones included. The proofs (section 5)
  need none of these bounds.
- `punch` leaves out three kinds of steps (`MCOrderly`). `Interrupts`, for
  `NoStuckPacket`: a changed endpoint resets the state while packets wait for a punch
  (section 6). For `OpenWhenConnected`, `Overtakes`: a list with a new endpoint comes between
  the reader's update of the endpoint and that of the state (`udp_engine.go:163-171`),
  which then calls connected an endpoint that nothing came from; and `Outdated`: a packet from
  the old endpoint comes in after the list, and the reader takes the old endpoint for the
  current one again. Nothing in the code rules these out; all take an
  endpoint that changes at an unlucky moment. Late packets that come in before the
  list are part of the run.
- `reconnect` has all these steps, and `Reconnects` says what the last two may lead to: in
  the end a client that one of them happened to (`fooled`, a history variable) may be
  `Astray` for good. It sends to an endpoint that is no more, or takes the peer
  for connected and cannot reach it, and nothing will tell it. Every other
  behaviour brings the clients together again and again.
- `reconnect` checks liveness under a *coarse* schedule, an action constraint
  (`MCCoarse`): what a goroutine has begun it finishes before another begins, except that a
  list may overtake the reader. It holds nobody up for ever, since what has begun is
  itself subject to fairness. The other interleavings are left to `punch`.
  A packet on its way is read or lost before the next one is sent to the same client;
  it may be read as late as one likes.
- `one_ip` has `OrphanTicks = 0` and `ExpireTicks = 0`: a timer may fire at any
  time, a peer may expire after a single tick. That includes every behaviour of
  the real delays.
- The *prompt* run `refused` (`MCPromptSpec`) keeps a tick, 30 s, from passing between
  two statements of the server that wait for nothing, so that its counterexample
  is a behaviour a real server shows.
- Symmetry and views are used for safety only. `MCSymmetry` exchanges nodes,
  whose requests are equal, and calls; `AnyNode`, which fills
  unused entries, is never read. In `lists` the nodes' requests differ and only calls
  are exchanged. The views identify states that differ in
  values nobody reads again; the comments list them.

## 4. Fairness

Of the server, `FairSpec` in `Signaling` assumes that time passes (`Tick`), that the
clean-up loop runs (`main.go:51-56`) and that a sleeping orphan goroutine runs once
its sleep is over: the Go scheduler and the clock give these. Nothing is assumed of the
network, the clients or the handlers; in particular the server need not notice a
broken stream. `Reclaimed` holds without that. The clean-up loop and the timers get on only
if their locks can be had: once a search of the full pool holds `r.mu` they never
return, and `Reclaimed` excepts that.

`FairSpec` in `ServerLocks` assumes that a goroutine that can go on again and again
goes on (strong fairness of `Step`): a `sync.Mutex` hands itself to a waiter that
has waited for more than 1 ms, and a `sync.RWMutex` lets no reader overtake a
waiting writer for ever. That a call begins is not assumed. `CallsReturn` says that
this is enough, unless the pool is full and somebody searches it.

For a pair, `Fairness` in `Punching` assumes that goroutines run and that the
keep-alive ticks, and that
lists with a new endpoint arrive. A packet or a request may be lost any number of times,
but not every time (strong fairness of `ReadAny`, which leaves open which kind of
packet gets through, and of `HandleSignal`). `TalkingFairness` adds that the
application goes on sending.

For STUN, the client's goroutines run, a request that is repeated for ever is
answered now and then, and an answer that is sent again and again arrives
(strong fairness of `Respond(1)` and of `ReadAnswer` for each answer). `Converges` is a
property of the heartbeats' port; the number of changes of the mappings is bounded,
so that it says: some time after the last one.

## 5. Proofs

All theorems hold for every value of the constants that satisfies the named
assumptions (`PoolAssumption`, `RequestsAssumption`, `GoroutineAssumption`,
`ManagerAssumption`, `NoPeerAssumption`, `SignalingAssumption`, `WindowAssumption`,
`PeerTableAssumption`, `StunAssumption`, and that of `Punching`).

- `RegistryProofs!RegistryTypeCorrect`; `BooksAgreeCorrect`, `NamesDistinctCorrect`: for
  the registry on its own, the latter two under the assumption `Named` that every host
  asks for a name (section 6 tells why). The two invariants need each
  other: a release deletes a name, which must not be another address's.
- `ServerLocksProofs!ImplementsRegistryCorrect`: every step is a step of the atomic
  registry or a stutter. The cursor of the abstract registry is where the search
  began, as long as `r.mu` is held. The invariant `Searched` says that what the cursor
  has passed since is in use: nobody can free it, since `Release` needs `r.mu`. With it,
  the probe that finds a free address is `Allocate`.
- `ServerLocksProofs!LocksTypeCorrect`, `LockedBooksCorrect`: locks belong to who is in the
  critical section; books and names hold between any two steps, by the lemmas
  of `RegistryProofs` about `Allocate` and `Release`.
- `SignalingProofs!TypeCorrect`: `SignalingTypeOK` is inductive. Its conjunct on
  registered and streaming clients is what types the address a handler uses.
- `SignalingProofs!NoLeakCorrect`: `NoLeak` with the type invariant is inductive.
  Removing a peer releases its address in the same critical section, and a
  timer disappears only after it saw a peer or released the address. The exception is
  a removal that waits for the registry for ever: its peer is gone, its address is not.
- `SignalingProofs!ChannelsOpenCorrect`: not inductive on its own, as a channel
  that two addresses shared would stay in the router when it is closed for
  one. `ChannelInv` adds `OneRouteEach`: a call has a channel under one address
  at most, and none before it registered it.
- `SignalingProofs!ListFreshCorrect`: `FreshInv` adds to `ListFresh` that a call in its
  loop is subscribed (`Subscribed`). Every operation that changes an endpoint or a key
  gives a token to each subscriber, so that a call without one has seen no change
  since its last snapshot. It holds in every behaviour, restarts and expiries included,
  but for the removal that waits for ever, which tells nobody.
- `AddressProofs!DistinctUnlessTimedOut`: `DistinctAddresses` in the careful behaviours,
  those without a restart in which an address that expires, or that a timer
  releases, is one that no node holds and that no call serves any more (`Taken`). This
  is exactly what the code's timeouts are meant for and cannot know. Streams may break at
  either end first. The invariant `AddressInv` says why a release never hits another's
  address: the address of a node and of a call is in use (`Placed`, `InUse`), and an
  address has one call at most, that of the node it was granted to (`OneCallEach`); the call
  releases the address in its very last step. TLC found each conjunct to hold before it
  was proved. `DistinctWhileQuick` is the corollary that the run `lists` checks.
- `AddressProofs!ServerBooksCorrect`: `BooksAgree` and `NamesDistinct` for the registry as the
  whole server uses it, in every behaviour, under `Named`. By `RegistrySteps`, every
  step of server and clients is an operation of the registry, its restart, or
  leaves it alone.
- `AddressProofs!DistinctNamesCorrect`: `DistinctNames` in the careful behaviours, under
  `Named`: a node that has an address carries the name the registry keeps for it
  (`NameHeld`), and both stay as they are until one end of its stream breaks
  (`HoldsStays`, `NameStays`).
- `StunDetectProofs!StunTypeCorrect`, `PublicWasMineCorrect`, `TypeIsRightCorrect`: for any
  number of STUN ports and any endpoints. `PublicWasMine` needs that unmasking undoes
  masking, and that answers on their way carry endpoints the NAT gave.
  `TypeIsRight` needs that, while nothing is disturbed, each port asked so far was
  seen with its own mapping and at most one request or answer, of the port asked, is
  on its way.
- `ReplayProofs!ReplayTypeCorrect`, `TakesExactlyTheNewCorrect`, `ImplementsChannelCorrect`:
  for a window of any width. `ReplayInv` says what the bits mean (`BitsTell`), that
  nothing beyond the window's end was accepted (`NothingBeyond`) and nothing twice
  (`OnceAtMost`). The refinement maps sending to sending, accepting to handing
  over, and everything else to a stutter.
- `PeerTableProofs!PeerTableTypeCorrect`, `FitsKeyCorrect`, `CountsOnCorrect`,
  `NextIsNewCorrect`: for any number of callers, entries, keys and packets. `FitsInv`
  adds that what a caller is about to store was computed from the entry's key
  (`ReadFits`). `CountInv` says why nonces stay new: under a key that no list
  dropped, only the listed entry works (`Outdated`), and once something was sent under
  it, that entry's cipher is the one that counted it (`OneCounter`, `Counted`).
- `PunchingProofs!PunchingTypeCorrect`, `NoStuckPacketCorrect`,
  `OpenWhenConnectedCorrect`: for any number of punches, tries and queue places and
  whatever endpoints change, the latter two for the behaviours `Uninterrupted` and `InOrder`
  that section 3 describes. `TendedInv` says for each state who takes care of the
  queue; in particular whoever punches has a goroutine that is not yet past its
  timeout. `OpenInv` adds that a packet from its sender's present endpoint
  went through the sender's NAT unless the receiver's endpoint changed since (`Passed`), and
  that what a reader believes of the packet at hand is so unless a list is going to tell
  (`Believed`); the two excepted steps are those that break `Believed`.
  `SettledIsOrderly`: when no endpoint changes, every behaviour is of both kinds.

Every invariant and action property of the passing runs is thus proved. Only model-checked
are the liveness properties `Reclaimed`, `CallsReturn`, `Reconnects` and `Converges`,
which are out of the prover's reach, and the runs of section 6, which end in
counterexamples.

## 6. Where code and documentation differ

Each of these is a run that TLC must find violated.

- `refused`: a client whose stream breaks is back after 4 s; a server that has not
  noticed answers `AlreadyExists`, and the client reports that *another* node has
  its address and gives up (`node.go:375-377`).
- `nil_cipher`: reader and senders call `GetCipher` once for the test and once for the
  use; a list with another key for the peer sets it to nil in between
  (`udp_engine.go:127-132`, `205-209`, `222-228`), and the client panics.
- `hosts`: two rewrites of the hosts file overlap; the second reads it while the first
  has truncated it, and what was not the program's is lost (`hosts.go:29`, `78`). It
  takes two lists in quick succession, or a list and SIGINT.

The models also have these behaviours, which have no run of their own:

- A host that sends no name is granted `Client-<last number>` without a look at
  the names in use (`registry.go:71`), so that two addresses can share a name: hence the
  assumption `Named`. The client always sends a name unless its system has none.
- A host without an address of its own that registers when the pool is full makes
  `Allocate` search for ever with `r.mu` held; the next removal of a peer waits for it
  with `m.mu` held, and every later call of the server waits for ever
  (`registry.go:48`, `manager.go:71-77`): the exception in `CallsReturn` and `Reclaimed`, and,
  once a removal waits, in `NoLeak` and `ListFresh`.
- A stream that the server sees break first (`service.go:76`, `105`, `113`, `134`, `148`) costs its
  node the address, and the next node that registers may get it; the first one carries on with
  it until its own end of the stream breaks. No restart, timer or expiry is needed. This is
  why `Holds` ends with the server's call.
- A call whose peer expired removes, when it ends, the peer that has the
  address by then, and closes its channel (`service.go:92`).
- A heartbeat that was read before its handler returned is applied after the handler
  removed the peer (`service.go:118`): a peer is listed whose address and name are
  free. If its name goes to another node, lists have two peers of one name, of which
  the hosts files keep one (`peer_table.go:133-136`), until the first one expires.
- An orphan timer releases an address that was registered again less than 30 s
  ago (`service.go:55-60`): register, connect, disconnect, register again just
  before the first timer fires.
- `RemovePeer` does nothing for a peer that is not listed, so that the channel of
  a call whose peer was removed by another stays in the router and accepts
  signals for an offline address (`manager.go:83`).
- A peer that was dropped from the list and is back has a new entry with a new
  cipher under the same session key: its nonces start at 1, and the other side's
  window drops them until they have caught up (`peer_table.go:86`, `97`). This is the
  exception in `NextIsNew`.
- A cipher computed from a key that changed meanwhile is stored in the entry
  (`peer_table.go:179-190`), and nothing decrypts with it until the key changes
  again: the exception in `FitsKey`.
- A punch that ends while a later one is under way takes back the
  state of the later one and drops its packets (`udp_engine.go:257-260`).
- A punch that found its peer unconnected sets it to disconnected, though the peer
  was connected in between (`udp_engine.go:257-259`). The next keep-alive of the
  other side repairs it.
- A list with a peer's new endpoint that comes between the reader's update of the endpoint and
  that of the state is overruled: the peer counts as connected at an endpoint that nothing
  came from (`udp_engine.go:163-171`): the exception `Overtakes` of `OpenWhenConnected`. If
  the other side has nothing to send, nothing repairs it.
- A packet that a peer sent before its endpoint changed may come in after the list that told
  of the change. The reader believes it (`udp_engine.go:163`), and the old endpoint is
  the observed one again, for good: later lists report what the last one did
  (`peer_table.go:115`), so that only a packet from the peer's new endpoint would repair it, and
  the peer may have none to send. This is the exception `Outdated` of
  `OpenWhenConnected`, and `Reconnects` excepts what it and the one before may lead to.
- A changed endpoint resets the state and leaves the queue (`peer_table.go:216`);
  the punch under way then ends without dropping what waits, and nobody else
  does until the application sends again: the exception `Interrupts` of
  `NoStuckPacket`.
- A late answer of one STUN port counts as the answer of the next one: a symmetric
  NAT is then taken for a cone (`stun.go:56`): the exception in `TypeIsRight`.
- The goroutines that rewrite the hosts file are not ordered, so that an
  earlier list may win; and a client that ends with an error, or is killed, leaves its
  block in the file (`main.go:47-50`).

## 7. Not modelled

Authentication, TLS, packet format, TUN devices, configuration, terminal and
generated code hold no state that several actors share; they are pure functions,
start-up or output. Cryptography is taken as sound. Of the server process, reading the
configuration and opening the listeners; of the client, setting up devices, keys and
routes: they run once, before anything else. Of the command line, `msg` and `list`,
which change nothing that `punch` does not. Two clients' tables are not composed with
the server: `Punching` and `PeerTable` take the lists from their environment, which
gives them in any order the server could. The 2^64 packets after which a
nonce would wrap are out of reach of the program.

## 8. Plan

1. An abstract connection that `Punching` implements.
2. Two ends of a tunnel that compose `ReplayWindow` with `PeerTable`: what a peer that
   was dropped and listed again receives, packet by packet.
