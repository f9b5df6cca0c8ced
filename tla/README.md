# A formal model of DMRHub

DMRHub is a server for a DMR amateur-radio network: hotspots and repeaters log
in over UDP (the MMDVM "homebrew" protocol), send voice frames, and receive the
frames of the talkgroups they are linked to.  A web API manages users, repeaters
and talkgroups.  PostgreSQL holds the rows, Redis holds the sessions and carries
every packet between goroutines.

This directory holds TLA+ modules that model the concurrent core of the server,
the TLC configurations that check them on small instances, and TLAPS proofs of
the invariants that matter most, for every value of the constants.  `PROJECT.json`
maps each definition to the lines it stands for.

## 1. The system

| Part | State it keeps | Operations | Interacts with |
|---|---|---|---|
| UDP server (`dmr/server.go`) | one read buffer, `Started` | `Listen` (reader, one goroutine per datagram), `listen` (the one goroutine that handles packets), `send`, `sendCommand`, `sendPacket` | Redis channels `incoming`, `outgoing`, `outgoing:noaddr` |
| Packet handler (`dmr/packet_handler.go`) | none of its own | `RPTL`, `RPTK`, `RPTC`, `RPTPING`, `RPTCL`, `DMRD`, `switchDynamicTalkgroup` | all the others |
| Session store (`dmr/repeater_redis.go`) | `repeater:<id>` with a five-minute expiry | `store`, `get`, `ping`, `updateConnection`, `delete` | handler, `sendCommand` |
| Call tracker (`dmr/call_tracker.go`) | `InFlightCalls`, `CallEndTimers`, call rows | `IsCallActive`, `StartCall`, `ProcessCallPacket`, `EndCall`, timers | one goroutine per voice packet and per timer, no lock |
| Parrot (`dmr/parrot.go`, `parrot_redis.go`) | a key and a list per stream in Redis | `StartStream`, `RecordPacket`, `StopStream`, `GetStream`, the play-back loop | handler, call tracker |
| Links and subscriptions (`models/repeater.go`) | the row's static and dynamic talkgroups; `talkgroupSubscriptions`, `subscriptionCancelMutex` | `ListenForCalls`, `ListenForCallsOn`, `CancelSubscription`, `CancelAllSubscriptions`, `subscribeTG`, `subscribeRepeater`, `WantRX` | handler, web API, start-up |
| Users and authorisation (`controllers/v1/users`, `auth`, `middleware/auth.go`) | rows of users, HTTP sessions | register, login, logout, approve, suspend, promote, demote, PATCH, delete | database, session store |
| Repeaters and talkgroups over the web (`http/...`) | rows of repeaters, talkgroups | CRUD requests, link and unlink | database, subscriptions |
| Call feed (`publishCall`, `http/websocket/ws.go`) | the connections, their subscriptions and goroutines | fan-out to Redis channels, three WebSocket handlers | call tracker, links |
| Static databases (`userdb`, `repeaterdb`) | two lists and two maps in memory | decode on first use, `Update` at the start and daily | start-up, web API |
| Start-up (`main.go`) | `AppSettings.HasSeeded` | migrate, seed, start everything | all |

### What is hard

* **A goroutine per packet, no lock.**  The handler starts a goroutine for every
  voice packet; those goroutines and the timers' share the call tracker's maps
  and the `Call` they point to.  Two of them may have the timer of one call in
  hand, and both end it; a timer may be deleted before it is used, or set anew
  after it was deleted.
* **A goroutine per answer.**  `sendCommand` looks up the address when its
  goroutine runs, so an answer may go to the address of a later login.
* **Copies of the row.**  A repeater's methods have value receivers: every
  subscription keeps the row it was started with, every handler saves back the
  row it read.  The requests on users do the same with the user's row, and a Save
  of a row that is gone inserts it again.
* **Check, then act.**  `ListenForCallsOn` looks under one lock and registers
  under another; a cancelled subscription deletes whatever registration it finds.
* **One buffer.**  The reader writes every datagram into the same buffer, and the
  goroutine that marshals one may run when the next is being written.
* **One receive for two senders.**  A WebSocket's two goroutines report to an
  unbuffered channel that its handler receives from once.
* **First use without a lock.**  The static tables are decoded by whoever comes
  first, and updated while requests read them; a download may be decoded half-way.
* **A flag behind its effect.**  Seeding and the flag that says so are two
  writes, and the process may end in between.
* **Deleting leaves things behind.**  The goroutines of a deleted repeater and the
  subscriptions of a deleted talkgroup go on; both IDs may be used again.
* **Loss and order.**  UDP loses packets, and a goroutine per datagram reorders
  them; the packet accounting reconstructs losses from what is heard.
* **Timers and expiries.**  Calls end by a terminator or a timer, sessions and
  recordings expire.

## 2. Modules

| Module | Models | State | Actions |
|---|---|---|---|
| `FrameLoss` | `updateCall`'s and `EndCall`'s arithmetic, a frame at a time | the counters of a `Call` | `Hear(f)`, `EndCallTail` |
| `FrameStream` | one transmission through a lossy network into `FrameLoss` | plus the position and the losses | `Deliver`, `Lose`, `Stray` (a frame of any kind out of turn), `HangUp` |
| `CallTracker` | the tracker as the handler's goroutines run it | the maps, rows, timers, `pc` per goroutine, and the calls that two have set about ending (`contended`) | `Create`, `Insert`, `Arm`, `Enter`; `Process`, `LookUp`, `Reset`, `Update`; `Visit`, `LookUp`, `Stop`, `Delete`, `Judge`, `Discard`, `Deactivate`, `Save`, `Leave`; `Fire`, `Panic`, `MapAbort` |
| `CallLife` | what a call row promises: created, closed once | the rows | abstract; `CallTracker` refines it |
| `RepeaterSession` | login, keep-alive and traffic of one repeater ID | the Redis record, the row, the handler's locals, packets under way | one per branch of `handlePacket` |
| `Subscriptions` | talkgroup links of one repeater and their subscriptions | the row, what is in the database, both maps, goroutines with their copies, and how often an operation has begun before the others had settled (`overlaps`) | one per step of each operation, deletions and re-registration included |
| `Parrot` | recording and play-back of one transmission | Redis key, list and expiry, play-back goroutines | one per Redis command of the play-back |
| `Accounts` | the users' rows under overlapping requests | rights of each row, sessions, requests under way with their copies | `Register`, `Login`, `Logout`, and `Begin` (middleware), `Read`, `Save`, `Delete` of a request |
| `Pipeline` | `server.go`: the ways of a packet in and out | the buffer, a goroutine per datagram, three channels, the address in each record, packets on their way out | `Receive`, `Fill`, `Marshal`, `Publish`; `Login`, `Answer`, `Ignore`; `Look`, `Send`, `Forward`, `SendNoAddr`, `Expire`; `Panic` |
| `CallFeed` | `publishCall` and `ws.go` | the call, the links, publications, connections with their goroutines | `Update`, `SetActive`, `End`, `EndPublish`, `KeyUp`; `Read`, `Hoseline`, `Find`, `Each`; `Connect`, `ConnectEcho`, `Leave`, `ReadFails`, `Write`, `Select` |
| `StaticDB` | `repeaterdb` and `userdb` | the JSON, the list, the map, goroutines in the loops, and whether the list is of a decoding that failed (`partial`) | `Check`, `Read`, `Fetch`, `Decode`, `Begin`, `Fill`, `Daily`, `Request`, `MapAbort` |
| `Startup` | `main.go` over a database that keeps what earlier starts did | plus main's place, the settings row and the seeds | `First`, `Create`, `SeedUsers`, `SeedTalkgroups`, `SaveSettings`, `Start`, `Serve`, `DeleteUsers`, `DeleteTalkgroup`, `Crash`, `Restart` |
| `CallTrackerProof` (with the theorems of `FrameLoss` and `FrameStream`), `RepeaterSessionProof`, `SubscriptionsProof`, `ParrotProof`, `AccountsProof`, `PipelineProof`, `CallFeedProof`, `StartupProof` (with those of `StaticDB`) | theorems | | |
| `MCCallTracker`, `MCRepeaterSession`, `MCSubscriptions`, `MCAccounts`, `MCCallFeed`, `MCStartup` | symmetry and small inputs for TLC | | |

How they compose: `FrameStream` EXTENDS `FrameLoss`, and is proved to implement
it; `CallTracker` has `CallLife` as an INSTANCE and leaves the counts to
`FrameLoss`; `Startup` EXTENDS `StaticDB`, whose goroutines it starts and whose
panics end it; `Parrot` leaves to `CallTracker` what `StartCall` and `EndCall` do;
`CallFeed` has one goroutine that ends the call, and leaves it to `CallTracker`
that two may, and to `Subscriptions` that links change at any time; `Pipeline` leaves to
`RepeaterSession` what a packet does to a session, and a packet that a
subscription forwards is its `Forward`.  `RepeaterSession` and `Subscriptions`
share the repeater's row and are kept apart because the fields they write are
disjoint (the password and the session here, the talkgroups there); what crosses
over is a handler's Save of the whole row, which both have (`Save`, `Touch`), and
the row's deletion and re-registration, which both have too.

### Atomicity

A step of a model is what no other goroutine can divide, or what commutes with
everything it leaves out:

* `CallTracker` takes no two accesses to a map, a timer or a shared `Call` in one
  step.  In `EndCall` the match, the look-up of the timer, `Stop`, `delete`, the
  test for a key-up, the write to `Active`, `DB.Save` and the deletion from
  `InFlightCalls` are steps of their own, since no lock holds them together: two
  goroutines may both pass the look-up before either deletes, and both end the
  call.  In `updateCall` the look-up, `Reset` and the writes to the call are; and
  in `StartCall` the row, the map entry, `time.AfterFunc` and the timer's entry.
  A look-up that finds no timer is a nil pointer, and ends the process (`Panic`).
  The Go runtime's "concurrent map" abort is the action `MapAbort`,
  nondeterministic because the detection is.  What is one step: `IsCallActive`'s
  loop over the map, and `ProcessCallPacket`'s up to its first match.
* `FrameLoss` takes a frame, and the tail of `EndCall`, as one step.  Goroutines
  that do the arithmetic on one `Call` at the same time (`call_tracker.go`
  333-348, 377-380, 436-455) are not covered by what is said of the counts.
* `RepeaterSession` splits a handler where it has read the row and not saved it.
  `ping` and `updateConnection` (get, then store) are one step: only the
  handling goroutine writes the record, and an expiry in between equals one
  right after, since `store` sets it anew.
* `Subscriptions` splits at each lock, `POSTRepeaterTalkgroups` at each of its
  writes to the links, and `DeleteTalkgroup` between the rows it finds and those
  it writes.  The loop of `CancelAllSubscriptions` may come across what is
  registered while it runs.  An operation may begin at any time, up to
  `MaxOverlaps` times before those before it have settled, which `overlaps`
  counts.  A reader-writer lock is modelled by who may go on
  (`CanRead`, `CanWrite`); a panic with the lock held leaves it held (`leaked`).
* `Parrot` splits `getStream` at every Redis command.
* `Accounts` splits a request where the middleware has read the row of the user
  who asks, where the handler has read the row it is about, and at its Save.
* `Pipeline` splits the reader's write to the buffer and a goroutine's copy of
  it at every cell: that race is the module's subject.  A handler that slices a
  short packet beyond its end panics, and nothing goes on (`Panic`).
* `CallFeed` splits a publication at every channel it publishes on, `updateCall`
  between the look-up of the timer and its write to `Active`, and `EndCall`
  between its write to `Active` and the publication.  A send on
  the unbuffered `readFailed` waits (`"sending"`) until the handler receives.
* `StaticDB` splits the loops that fill a map at every entry.  The decoder's writes
  to the list are one step, after which there may be an error: JSON with a value
  of another type fills the list and fails, other JSON fails and leaves it as it
  was.  The torn values that a reader of a slice header might see are left out.

### Abstractions

* Frames carry a kind and a sequence number; jitter, BER and RSSI are left out.
* A stream stands for the five fields that identify a call; all packets of one
  stream agree on them.
* Salts are fresh: two random 32-bit salts never collide.  Passwords are
  registrations: a hotspot that knows the password knows that of the
  registration it was configured for.
* The branch for an empty stored password is left out: registration always
  generates one.
* `Stop` and its `MSTCL` are left out: `main` defers it behind `http.Start`,
  which does not return, and no signal handler runs it.
* `gorm`'s `Save` of a row with associations adds the static talkgroups of the
  copy to those in the join table and overwrites the dynamic ones (`Saved`); it
  inserts a row that is not there (`Store`).
* In `Subscriptions` a talkgroup that has been deleted may be made anew at any
  time (`used` is what has ever been in use), and a link request never finds its
  target, because it looks for a column that talkgroups do not have: a dynamic
  one is not saved, a static one makes a talkgroup with the next ID (`Link`,
  `LinkStatic`).
* In `Accounts` a row is its three rights; names, callsigns and passwords are
  left out, except that the database may refuse a Save for them (`Refuse`).
* In `Pipeline` a cell of the buffer stands for a part of a packet, and the
  handler stores the sender's address, answers, or does neither.  A channel of
  the Redis client holds `Capacity` messages and drops what does not fit.
* In `CallFeed` a connection is upgraded in one step, and a message is a
  publication and what it says of `Active`.
* One server instance; the repository's compose file starts one.

## 3. Runs

| Run | Bounds | Shows |
|---|---|---|
| `frame_stream` | 3 superframes, losses one at a time, 3 frames of any kind out of turn | the divisor is never zero and `TotalPackets` does not wrap; in order and with its header heard, a stream is never charged more than it lost, and total = heard + charged |
| `call_tracker` | 3 packets, 3 calls with their timers, 2 goroutines at once | a call in memory is never left without somebody who will end it; its timer is missing only while it is in hand or behind a key-up; two packets at once start two calls of a stream, and there are never more active than that; a row is closed once and for good unless two goroutines have had its timer in hand at once |
| `call_tracker_serial` | 2 packets one after the other, the timers of both calls beside them: 3 goroutines at once | `CallTracker` implements `CallLife`, with its liveness; every call leaves the map, contended or not |
| `session_admin` | 2 addresses on one IP, 2 logins, 2 registrations, 1 expiry | only an address that knows the password gets past the challenge |
| `session_login` | 1 hotspot, 3 losses, 2 expiries | the login completes and the server agrees |
| `subs_serial` | 3 operations, none overlapping, 2 talkgroups and one made up | what is linked is heard |
| `subs_concurrent` | 2 operations and the start-up, 2 overlaps, 1 talkgroup | what is registered is live, every copy wants its talkgroup, and the nil mutex takes operations that overlap |
| `parrot` | header and terminator, one loss of each kind, 2 tracking goroutines | play-back keeps the order, asks for the end of its call, and sends everything back unless a fault intervenes |
| `accounts` | 2 members, 5 requests, 2 at once | no right that was never granted, admins were approved, the system's own users keep their rights |
| `pipeline` | 2 datagrams, 1 packet out, 2 cells, channels of 2, 2 addresses, 2 repeaters | what a message carries is never older than its datagram; nothing read is handled twice or lost between the channels; an answer follows the session; everything settles unless a handler panics |
| `call_feed` | 1 packet and the end, 1 change of a link, 1 connection, 2 users, 2 repeaters | who is not concerned hears nothing, a follower hears once per publication, the end is told unless an update sets the call active again, at most one goroutine stays behind a closed connection |
| `startup` | 1 request, 1 daily update, 1 death, lists of up to 3 | serves only what is seeded, seeds nothing again that was deleted and comes up unless a start was cut off while seeding; a table that has settled is complete unless its last decoding failed half-way |

The type invariants of `FrameLoss` (`CountersTypeOK`), `FrameStream`,
`RepeaterSession`, `Subscriptions`, `Accounts` and `Pipeline` are proved and not
checked again by a run.  Every safety property that a run checks is also proved
(section 4); what the runs alone show is liveness.

**Why the bounds are enough.**  Two goroutines at once (`MaxAtWork`) are what it
takes to start two calls of a stream, to have one timer in hand twice, to put a
`Reset` between a `Stop` and a `delete`, or an update between the two writes of
an end; the third packet comes when that has happened, and a timer may fire then
too.  A timer's handler runs once at a time.  `call_tracker_serial` has one packet and two timers at once; `EveryCallLeaves`
holds of two packets at once as well (`MaxRunning` and `MaxAtWork` 2 in that cfg),
of which `CallsHaveALife` is false.
The theorems about the tracker know none of these bounds.
Two logins let a second address take a record over between any two steps of the
first; two registrations change the password under a login.  Two talkgroups and
two timeslots let an operation find its talkgroup linked elsewhere, and three
operations let the third meet the leftovers of the other two: a repeater is
linked, deleted and registered again; two operations and the start-up's
`ListenForCalls` are three to overlap.  A superframe is six frames; three of them
contain every transition between header, sync, voice and terminator, and the wrap
of the voice sequence; three stray frames are what it takes to leave any kind
behind any other.  Two parrot frames and three arrivals let a late frame meet
each Redis command of a play-back, and a doubled terminator starts two
play-backs.  Five requests are what it takes for a member to register, be
approved and be promoted, or be deleted and register again, while another
request holds a copy of the row.  A second datagram overwrites the buffer under
the goroutine of the first, cell by cell; a channel of two is full with both.
One update and the end are two publications that overtake each other; two
repeaters of one owner are what `told` is for.  The starter, the daily update and
a request are three goroutines over one table; a list of three with one entry
that has no number is longer than the one built in, and may be decoded half-way;
one death and its restart meet everything that the first start has left in the
database.

Deadlock checking is off where the modelled work is finite and ends: packets,
operations and frames are consumed.

**Fairness.**  The Go scheduler runs every goroutine (weak fairness of each
goroutine's steps), timers fire, and the handling goroutine takes packets.  In
`session_login` a hotspot's timers are strongly fair: its retries are enabled
again and again between the answers that reset them.  Losses, expiries and
requests of the web API are never fair.  `EveryFrameRepeated` assumes a hotspot
that ends its transmission.  In `Pipeline` the reader, its goroutines, the handler
and the senders are fair, and arrivals, expiries and subscriptions are not.  In
`CallFeed` a call ends (by its timer at the latest), and clients and links do as
they like.  In `Startup` main goes on and an ended process is started again, as
the compose file's restart policy has it; the goroutines of the table are not
fair, since nothing claimed of them needs it.

### Properties the code does not have

These are stated in the modules, with the reason in their comment; adding one to
the cfg named here makes TLC show the behaviour.

| Property | Module, cfg | What happens |
|---|---|---|
| `EveryLossCounted`, `MissingHeaderChargedOnce`, `LossIsARatio` | `FrameStream.cfg` | a loss behind a voice sync is not counted; a missing header is charged with every superframe; the unsigned difference wraps |
| `TerminatorRecorded` | `FrameStream.cfg`, with bursts of 3 | a terminator (data type 2) behind voice frame 2 counts as its repetition |
| `OneCallPerStream` | `CallTracker.cfg` | two packets of a new stream start two calls |
| `KeyUpForgotten` | `CallTracker.cfg` | the key-up return leaves its call in memory, active and without a timer |
| `TimerEndsCall` | `CallTrackerSerial.cfg`, with `MaxRunning = 2` | a timer's EndCall comes to a key-up first, and returns before it has come to the call whose timer fired |
| `EndedCallsStoredEnded` | `CallTracker.cfg` | an update between EndCall's write and Save stores the ended call as active |
| `DeletedStaysDeleted` | `SessionAdmin.cfg` | a handler saves a deleted row back |
| `DisconnectHonoured` | `SessionAdmin.cfg` | the handler's length check lets no RPTCL through: it wants eight bytes of a packet of nine |
| `SuspensionSticks`, `DeletedStaysDeleted` | `Accounts.cfg` | a request that has read the row before saves it back |
| `UnlinkedIsSilent` | `SubsSerial.cfg` | switching the dynamic talkgroup leaves the old one subscribed |
| `TargetIsValid` | `SubsSerial.cfg` | a dynamic link request registers talkgroup 0, and links nothing |
| `DeletedIsSilent` | `SubsSerial.cfg` | the subscriptions of a deleted repeater go on |
| `OneSubscriber` | `SubsConcurrent.cfg` | two subscriptions for a talkgroup |
| `NoPanic` | `SubsConcurrent.cfg` | a static talkgroup is unlinked before `ListenForCalls`, started by `main`, has registered it: the mutex is nil |
| `LinkedIsHeardAnyway` | `SubsConcurrent.cfg` | the handler of a packet saves its copy of the row, and with it a link that a request is taking away; nobody listens for it |
| `DataIsOwn`, `SessionsAreTheirOwn` | `Pipeline.cfg` | a message carries a later datagram's content with its own address, and a session gets it |
| `LastWordIsTheEnd` | `CallFeed.cfg` | an update is published after the end |
| `NobodyStuck` | `CallFeed.cfg` | the second goroutine to fail waits for a receiver for ever |
| `FollowersAreTold` | `CallFeed.cfg` | a repeater linked statically does not want the call, its links not being loaded |
| `KnownStaysKnown` | `Startup.cfg` | `userdb.Update` empties the map before it fills it |
| `AlwaysComesUp` | `Startup.cfg` | a start cut off between the seeds and the flag makes every later one exit on the duplicate |

## 4. Proofs

TLAPS checks eight proof modules; each proves an inductive invariant, or a
refinement, and takes the properties from it.

* **CallTrackerProof, the tracker.**  `TrackerInv` adds to the properties what a
  goroutine may take for granted without a lock: it holds a call of the stream it
  works for (`HoldsACall`), who starts a call is alone with it until its timer is
  in the map (`StarterIsAlone`), who has come to its timer in order to end it is
  alone or contends (`ClosersContend`), a timer in the map is one of a call that is
  (`EnteredIsLive`), and a call that is not active in the map is about to leave it
  (`InactiveIsLeaving`).  `NoForgottenCall` alone is not inductive: it has to know
  that a `Stop` is followed by an end, and a `Reset` of a deleted timer is of a
  call that somebody ends.  From it: types, `NoForgottenCall`,
  `TimerlessIsInHand`, and `TrackerImplementsLife`, the safety part of the
  refinement of `CallLife`.  For `CallsPerStream`, `CountInv` counts what a stream
  may come to (`Claims`): its active calls, those that an update will make active
  again, those that are about to be entered and the packets that have found none.
  A packet finds none only if there are none but what the other packets at work
  hold, which are at most `MaxRunning`.
* **CallTrackerProof, the counters.**  `AccountingInv` bounds `TotalPackets` by
  seven per frame heard and relates `HasHeader`, `HasTerm` and the counts.  From
  it: types, no wrap of `TotalPackets` and a divisor that is never zero, for any
  number of frames and any modulus that holds seven per frame.
  `StreamIsAccounted`: a transmission implements `FrameLoss`, so that its theorems
  hold of a transmission of any length.  `StreamInv` adds, for transmissions
  without strays that lose no two frames in a row, that `LastFrameNum` tells the
  place in the stream but for a single loss; without that the charge for a gap
  cannot be compared with what was lost.  From it: `NeverOvercharged` and
  `TotalIsHeardAndLost` for any number of superframes.
* **RepeaterSessionProof.**  `SessionInv` adds to `SessionsAreProven` that every
  salt on its way (in an answer, in a key, in the record) was given to one
  address.  `SessionsAreProven` alone is not inductive: an answer under way
  could carry a salt to a hotspot that then answers for another's record.  From
  it: the theorem for any set of addresses, IPs, logins, losses and registrations.
* **SubscriptionsProof.**  `SubscriptionsInv` adds to `RegisteredIsLive` and
  `CopyWants` that a goroutine about to cancel holds a cancellation that is
  registered no more, and that `ListenForCalls` has only wanted talkgroups left
  to do.  From it: for any number of operations that overlap, deletions among
  them, a registration never outlives its goroutine.
  `UntilOverlap` says that `OneByOneInv` holds as long as no operation has begun
  before the others had settled (`overlaps = 0`), however many there were.
  `LinkedIsHeard` speaks of settled states only, so the invariant has to say what
  an operation under way still owes: every link of its copy (`Late`), or else of
  the row, is registered, or a listener has it left to do, or the operation will
  have the whole row listened for (`LinksHeard`); its copy is as good as the row
  (`CopyOK`); what it cancels is registered, linked no more, and of no goroutine
  that has been cancelled before (`CancelOK`).  The own ID is the exception that
  `OwnHeard` makes: POST /talkgroups cancels it and subscribes it anew, and the
  cancelled goroutine deletes the registration of its successor, which runs on
  unregistered.  From it, without a hypothesis on how operations are scheduled:
  `PanicNeedsOverlap` and `LinkedIsHeard`.
* **ParrotProof.**  `ParrotInv` says of a play-back that reads the list that what it
  has got comes before what it has still to get (`Before`), whoever appends to
  the list or erases it meanwhile, and of one that plays that the goroutine of
  its last frame is alive until EndCall has been called (`EndOK`).
  `RepeatsInOrder` and `EndIsCalled` say neither, and are not inductive: the next
  read could get an earlier frame, and a play-back could be done with every
  goroutine through.  From it: both, and the types, for any number of frames and
  of tracking goroutines at once, and whatever is lost, reordered, duplicated or
  restarted.
* **AccountsProof.**  `AccountsInv` adds to the properties of the run that every
  copy about to be saved is as good as a row (`GoodCopy`): its rights were
  granted, or are about to be by the request that saves it.  The properties alone
  are not inductive, since a Save replaces a row by whatever the copy holds.
  From it: for any members and any number of requests at once, the rights of
  every row go back to requests of 999999 or of those it has promoted.
* **PipelineProof.**  `PipelineInv` says that the buffer only goes forward
  (`BufferIsNewer`), that what a goroutine has copied is as new as the buffer was
  (`WorkersCopy`), and that a packet waits in one place, once.  `NothingOlder`
  alone is not inductive: it says nothing of a copy under way.  From it: for any
  number of datagrams and packets and any capacity, `NothingOlder`,
  `HandledOnce`, `SentToASession` and `EnvelopeIsOwn`.
* **CallFeedProof.**  `FeedInv` says of every message of a connection that its
  publication has got as far as its channel and has noted whom it told
  (`Rightly`), and that a publication begins once (`NotBegun`).  `OnlyConcerned`
  alone is not inductive: a publication that finds the rows again would change
  whose business its earlier messages were; and `OncePerFollower` needs that
  `told` remembers every message.  From it: for any users, owners, links and
  connections, the types, `OnlyConcerned`, `OncePerFollower` and `AtMostOneStuck`.
* **StartupProof.**  `StartupInv` relates main's place to the seeds and the flag,
  and says that no other goroutine runs before main has started it, so that
  nothing but a crash can cut seeding off.  From it: `ServesSeeded`, `SeedsOnce`
  and that only an interrupted start makes a later one fail.  For the static
  tables, `ListIsFilled` says, of a list that no failed decoding has left, that the map and what the goroutines in the loop
  have still to fill make up the list, and `GettersMake` who may be at which
  step.  `TableComplete` alone speaks of settled tables and is not inductive: a
  decode replaces the list while others are filling the map from the one before.
  From both: the types and `TableComplete`.

They rest on the assumptions named in the modules (`NumericAssumption` and the
like: bounds are natural numbers, the sets are disjoint), which every run
evaluates.

Every invariant and every action property of the runs is proved.  No theorem
assumes that goroutines or requests come one at a time.  Where a property excepts
what the code does, the exception is part of the property and of the state:
`contended` (two goroutines have had a call's timer in hand), a key-up of the
stream, `overlaps` (operations that overlap), `partial` (the list of a failed
decoding), `interrupted` (a start cut off).  Section 3 names the cfgs in which TLC
shows what is false without it.

Only model-checked: liveness (`LoginCompletes`, `CallsHaveALife`,
`EveryCallLeaves`, `EveryFrameRepeated`, `EverythingSettles`, `HandlersReturn`, `EndIsTold`,
`ComesUp`), which is out of the prover's reach.  `HandlersReturn` and `EndIsTold`
are of one connection; `EndIsTold` excepts a call that an update has set active
again (`revived`), `EverythingSettles` a process that has ended (`crashed`).

## 5. Not modelled

The routing of private calls (a look-up and a publication); the store of HTTP
sessions, the router and its middleware but for the authorisation that
`Accounts` has; a talkgroup's administrators, NCOs and descriptive fields; a
user's repeaters when the user is deleted; a database that fails (every Create,
Save and Delete that no constraint refuses succeeds, but for the settings row);
two goroutines that count frames of one call at the same time; two that end one
call and both publish it; the packet codec; configuration and password hashing; last heard, pagination and
the version; the frontend.  `PROJECT.json` lists each with its reason.

## 6. Plan

1. A database that fails between two statements of a request (`c.DB.Error` is
   looked at where the result's error is meant).
2. A user's repeaters in `Accounts`, with the deletion of the user.
3. Two server instances on one Redis.
