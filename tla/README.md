# A verification development for OpenSmartHome

OpenSmartHome is the firmware of a smart-home node: an ESP32 that is given the
credentials of an access point, joins it, and answers requests over UDP.  This
directory holds TLA+ modules translated from its C sources, TLC configurations
that model-check them on small instances, and theorems about them that TLAPS
proves for every value of the constants.

All source paths below are relative to the repository; `fsm.c`, `wifi.c`,
`proto.c`, `node.c` and `status.c` stand for
`components/osh_node/src/osh_node_*.c` (and `osh_node.c`).

## 1. Inventory

| Component | State it keeps | Operations | Hard behaviour |
|---|---|---|---|
| Event state machine (`fsm.c`) | list of states, each with a list of events and the mask it waits for; an event group; the current state | init, register, invoke from a task or an interrupt, `loop_step`, `set_state`, fini | events latched in a state that does not wait for them; callbacks that change the state during a traversal; what a failed list lookup reads |
| Link supervision (`wifi.c`) | `g_node_wifi`: ping timer, ping session, a timeout counter | boot registrations, `wifi_task`, three callbacks, `event_handler`, timer and ping callbacks | four tasks (state machine, system events, timer daemon, ping) and the buttons over the same few variables |
| Request server, start and stop (`proto.c` 545-679) | three sockets, a task, a heartbeat timer | `osh_node_proto_start`, `osh_node_proto_stop` | each of a dozen calls may fail; the server must not run on closed sockets |
| Request server, serving (`proto.c` 31-490) | one request, one response, two buffers | `proto_server`, decode, dispatch, encode | malformed requests, buffers cleared by another task |
| Routes (`proto.c` 682-747, lookups 311-336 and 391-414) | list of entries, each with a list of routes | `osh_node_route_register` in the application's task, lookup in the server's | unlocked lists traversed while something is linked in; allocation failure after an insertion |
| Names (`node.c`) | node and device name, in memory and in flash | restore, two updates | memory and flash updated apart, power cuts, an erasure of the partition |
| Provisioning (`wifi.c` 117-157, 260-378) | a counter of failures; the credentials, in the partition the names are in | `init_poweron`, the provisioning branch of `event_handler` | failures counted when their events are handled, which may be late |
| Boot (`main/main.c`, `node.c`) | a table of modules | init, start | any failure aborts and restarts |
| Status light (`status.c` 18-99) | last state, time of the last change, a flag | poll once a second | a tick counter that wraps |
| Buttons (`status.c` 101-135) | none | reset and restart | a restart between any two steps |
| OTA, BLE | none: placeholders | | |

How they interact.  `app_main` initialises the modules and starts them;
`osh_node_wifi_init` initialises the state machine, registers three events and
creates the ping timer; `osh_node_wifi_start` creates `wifi_task`, which sets
INIT, posts POWERON and calls `loop_step` for ever.  All callbacks run in
`wifi_task`: `init_poweron` starts the station or the provisioning service,
`init_connect` (INIT, CONNECT) starts the request server, sets IDLE, creates a
ping session and starts the ping timer, and `on_disconnect` (IDLE, DISCONNECT)
undoes all that.  Events are posted by `event_handler` on the system event task
and by the ping callback on the session's own task; the timer daemon starts
pings; the buttons restart the chip.  Nothing is locked: tasks share
`g_node_wifi`, the event group and the current state.

What makes each part correct: events of a state are orthogonal, none that was
posted is lost, each that was taken is run once; the state tells what runs; a
lost link is always retried and stops the server; a link that is up is served;
a running server has its sockets; a request is answered from itself and not from
an earlier one; a route is matched by every search that begins after its
registration; a name in flash is either the old or the new one, and memory agrees
with it unless an update reported an error; credentials that cannot work are given
up, those that have worked are not; the light blinks in the colour of the state.

## 2. Modules

| Module | Models | Depends on |
|---|---|---|
| `OshEventLatch` | what the state machine promises: posted events stay latched until taken, what is taken is finished or the machine gives up | |
| `OshFsm` | `fsm.c` with arbitrary clients, and the first two lines of `wifi_task` | refines `OshEventLatch` |
| `OshProtoCtl` | `proto_start` and `proto_stop`, in parts | |
| `OshPdu` | what the codec and the dispatchers compute: decoding, refusals, responses, encoding, as operators | |
| `OshServer` | `proto_server` step by step, and the task that stops and starts it | `OshPdu`, `OshProtoCtl` |
| `OshLink` | the Wi-Fi driver and the event loop's queue, external | |
| `OshNode` | the node: boot, `wifi_task` in its callbacks, `event_handler`, timer daemon, ping task, buttons, restarts | composes the three above, refines `OshFsm` |
| `OshRoutes` | the route table in a memory of addresses: `osh_node_route_register` and `vListInsert` store by store, and the search of the dispatchers in another task | |
| `OshNameStore` | what the node promises about its names: an update that returned ESP_OK survives, one that did not leaves the old or the new name, a forgotten name comes only from an erasure | |
| `OshNames` | `osh_node_init`, the restored names, the network module's device name, the updates, with failures and power cuts | refines `OshNameStore` |
| `OshSetup` | `OshNames` with `init_poweron`, the provisioning branch of `event_handler`, the manager (external) and the reset button | extends `OshNames` |
| `OshStatus` | `status_task` on a tick counter that wraps | |
| `OshFsmProofs`, `OshNodeProofs`, `OshServerProofs`, `OshRoutesProofs`, `OshRouteSearchProofs`, `OshNamesProofs`, `OshSetupProofs`, `OshStatusProofs` | the theorems | |
| `MCOshFsm`, `MCOshNode`, `MCOshServer`, `MCOshSetup`, `MCOshRoutes`, `MCOshStatus` | the instances TLC checks | |

### State and actions against the code

`OshFsm`.  `states_list`, `events_list`, `group_bits`, `event_bits` and
`current_state` are the fields of `g_osh_fsm` and of its states; a list is a set
because `vListInsert` keeps it sorted and nothing depends on more than the order
of the masks, which `NextEvent` restates through `Below`: the highest bit in which two
masks differ decides, and `MCOshFsm` has TLC compare that with the order of the numbers
(`BelowIsLess`).  A mask is a set of bit numbers, and
`EventBits` is the conversion to `EventBits_t`, which drops bits beyond its
width.  One call of `loop_step` is a sequence of actions, because other tasks
post events and callbacks set states between them: `EnterState` (find the state,
fetch its mask), `WaitBits` (the atomic wait-and-clear), then for each matched
event `BeginCallback`, any number of `osh_node_fsm_set_state`, `ReturnOk` or
`ReturnError`, and `EndStep`.  The dead ends are actions too: an unknown state is
dereferenced as NULL (`EnterUnknownState`), a state without events or a matched
event without a callback ends the task's loop.  `Step` holds `loop_step`'s
locals; `handled` and `accepted` are history variables that the properties read
and no guard does.

A list lookup that fails leaves `tmp_state` at the owner of the list's end
marker.  The end marker has no owner field: what is read there is the next
member of the structure, the event group handle, and behind it the latched bits.
`Creatable` and `Missed` are `osh_fsm_fetch_state` with this outcome.

`OshNode`.  `cb` is `wifi_task`'s place inside a callback, one value per call
that another task can observe; `handler` is the system event task's place inside
`event_handler`; `timer_q` is the queue of the timer daemon, since `xTimerStart`
and `xTimerStop` only post a command, with a block time of zero: a full queue refuses
it (`CommandRefused`), and `timer_lost` remembers that the last command was refused and
the timer is not what it asked for; the properties read it and no guard does.  `ping`,
`pinger` and `leaving` are the session behind `g_node_wifi.ping`, its task, and what the
tasks of deleted sessions are still busy with: a probe that is not answered yet
(`probing`), or the connection that `ping_on_timeout` makes after it has posted
DISCONNECT (`connecting`); any other task can run between these two effects, as
between the two of each branch of `event_handler`.  `Faults` names the calls that may
fail in a run: `socket`, `task`, `timer`, `ping`, `malloc` for resources, `command` for a
timer queue that is full of other timers' commands, `refuse` and `drop` for the link,
`loss` for pings, `renew` for leases, `button` for the user.

`OshProtoCtl`.  Of the heartbeat timer only the handle is kept, which `proto_stop` needs:
its callback is empty (`proto.c`:225), so that whether it runs, or a command for it was
refused, makes no difference to anything.

`OshServer`.  `pc` and `port` are the place in `proto_server`'s loop; the two
branches of the loop, one per socket, are the same actions at another `port`.
`recv_buff`, `send_buff`, `request`, `response` and `last_token` are the members of
`g_proto`, which outlive the request they were filled for; `ctl` is the place of the
task that calls `osh_node_proto_stop` and `_start`.  A suspended server stays where
it is - `proto_task` is a guard of its steps - and goes on there after the next
start, with the fd_set it had; new sockets have numbers of their own, so that
`Open` lets chance decide which of them the old set names.  Decoding a datagram is
one step, as are the dispatcher and the encoder: a stop clears a buffer before or
after it.  A datagram is a record of header fields with a `fault`; an entry is the
set of its bits, so that the two masks of `proto.inc`:29-36 are set comparisons.
No route has a callback, because `osh_node_route_register` does not store the one
it is given, and the search in a dispatcher comes to NOT_FOUND whatever is
registered; `Refusal` says so without a table of routes, and `OshRoutes` is about the
table.  `in_hand` and
`current_fds` are history variables.  The model begins when the first start has
succeeded; the first start, and how it fails, is `OshNode`'s.

`OshRoutes`.  `use` and `key` are what lies at an address: an entry with its number
or a route with its method, or memory nobody has written (`Wild`).  `next_entry` and
`next_route` are the `pxNext` members; nothing in this code reads `pxPrevious`, nothing
is removed.  The list of an entry starts and ends at the entry, whose `route_list`
holds the end marker.  `reg.step` is the next store or comparison of the
registration under way, one value per access another task can observe: the
comparisons of `listFOR_EACH_ENTRY` (`FindNext`), the allocation and its
initialisation (`NewEntry`), then `vListInsert`: its search (`PassEntry`,
`PassRoute`), the new item's pointer (`PlaceEntry`, `PlaceRoute`) and the store that
makes it visible (`PublishEntry`, `PublishRoute`).  The item value of an entry is never
written, so that an entry may be inserted anywhere.  `look` is the search, the same
in both dispatchers; `due` and `seen` are history variables.  Out of memory, the code
frees the entry it has found or listed (`NewRouteFails`); from then on the searches
may meet what they do not expect (`RegisterAstray`, `LookupAstray`), which ends in a
crash or anywhere (`Crash`, `StraysOn`).  A route's handler is not stored
(`RouteCb`), so that the branch that calls it is not a step of the model.

`OshNames`.  `flash` is what is committed, `pending` what is set and not committed, of
which a power cut may leave either.  `boot` is `app_main`'s place: the partition, the two names, the
modules.  An update (`update`) frees and duplicates the name in memory, sets it in
flash and commits, each a step that may fail or be the last before a power cut; in the
boot an error restarts the chip (`UpdateAborts`), later the application gets it
(`UpdateFails`).  `failed` is a history variable: the keys whose last update since
power-up reported an error.

`OshSetup`.  The credentials live in the same partition, so that an erasure takes them
along (`CredsLeft`).  `manager` is ESP-IDF's provisioning manager, modelled from its
use: it takes credentials, tries them and posts CRED_FAIL, CRED_SUCCESS and END to
the event loop, and `wifi_prov_mgr_reset_sm_state_on_failure` acts only on a manager that has
failed.  `retries` is `event_handler`'s static counter.

`OshStatus`.  `tick` is the tick counter at the last look, modulo `TickType`; the
float division of `status.c`:70 is a comparison with two seconds of ticks.  `elapsed`
is a history variable.

Clearing the buffers in `proto_stop` (left out of `OshNode`), logging, the QR code and the salts of the
provisioning service change nothing `OshNode` looks at and are left out.

## 3. What is checked

| Run | Property | What it says |
|---|---|---|
| `fsm` | `FsmTypeOK` | types, masks no wider than `EventBits_t` among them |
| | `OrthogonalEvents` | README.md:8, "event bits should be Orthogonal": whatever clients register, in any order |
| | `StepAccounts` | an event the taken bits match is run once and no other is, though callbacks change the state meanwhile |
| | `DispatchInOrder` | callbacks of one step run in the order of their masks |
| | `LatchedEventSurvives` | a bit leaves the group only as a bit of an event about to be run, or with a restart |
| | `RegisterOkListsUnlessLatched` | a registration that returns ESP_OK is listed, unless the latched bits make the number of its state |
| | `ImplementsLatch` | refinement of `OshEventLatch`, with its fairness: a taken event is answered or the loop ends |
| `node` | `NodeTypeOK` | types, the timeout counter's range among them |
| | `ModeConsistent` | between two callbacks IDLE means server, sockets, session and timer on, any other state means all off; the timer is excepted after a command that was refused |
| | `LinkIsRetried` | while the station is down, a retry is queued or under way |
| | `BootRegistersAll` | the three registrations reach their lists |
| | `ZeroTargetOnlyInWindow` | a session gets the zero address only while `event_handler` is about to store the first one |
| | `ImplementsFsm` | the node refines the state machine, fairness included: every callback returns |
| | `Reconnects` | a station that is down tries again |
| | `DeadLinkStopsServer` | if the link stays away the server is stopped for good |
| | `ServedUnlessStale` | a link that stays up is served in the end, unless a DISCONNECT lies latched while it is up |
| `node_faults` | `RunningServerHasSockets` | sockets come and go together and a running server has them, whichever calls fail |
| | `DeletedSessionUnarmed` | the ping timer can start a deleted session only until the daemon executes a stop already queued, or, after a stop or a session that was refused, until the next call that is not |
| | `FsmSafety` | the node drives the state machine only through its interface, where its callbacks' calls fail too |
| | `EveryTimeoutDisconnects` | one lost probe is taken for a lost link, on a good link too; MAX_PING_TIMEOUT plays no part |
| | `StartedNodePowersOn` | a started node starts its station or the provisioning service, or restarts; it stays mute only if its task could not be created |
| `server` | `ServerTypeOK` | types; what is on the wire fits the fields of the header |
| | `AnswersItsRequest` | a well-formed request is answered, or passed over, as if it were the first one, unless a stop falls between its arrival and its answer |
| | `ReceivedUnlessStale` | a queued datagram is received, unless the server is stopped or blocks on a stale fd_set |
| `setup` | `SetupTypeOK` | types, the range of the retry counter among them |
| | `DevNameKnown` | while the modules run the device name is in memory and in flash, whatever was lost or cut short |
| | `CopiesDifferOnlyAfterError` | memory and flash differ only during an update or after one that reported an error |
| | `ImplementsStore` | refinement of `OshNameStore` |
| | `WorkingCredentialsStay` | failures that are reported late do not throw away credentials that have worked |
| | `BadCredentialsDropped` | credentials that cannot work are given up, or the chip restarts |
| | `ComesUp` | once nothing fails any more the node runs, whatever state flash was left in |
| `routes` | `RoutesTypeOK` | types |
| | `TraversalsStayInLists` | neither task meets anything that is not an entry or a route ready to be read |
| | `OneEntryPerNumber` | routes of one number are under one entry |
| | `RegisteredIsMatched` | a search passes every matching route that was registered when it began |
| | `RoutesPassedOnce` | a search passes no matching route twice |
| | `LookupsReturn` | a search comes to an end |
| `status` | `StatusTypeOK` | types, an upper bound of a phase among them |
| | `PhasesLast` | a phase of an unchanged state lasts more than two seconds and a round more at most, across a wrap |
| | `StateBlinks` | a state that stays is shown and blinks |
| `node_stable`, `node_suspend`, `server_bad`, `routes_unserved`, `routes_refused` | one each | violated, see below |

Every property of a passing run is checked to be able to fail: next to the
definition it depends on stands a faulty variant, marked `mutant`, that is
substituted for it and must break the property.

### Bounds

`fsm`: two states, event groups of two bits, masks {0}, {0,1} and {1,2}: two
orthogonal masks after truncation, one that overlaps both, one with a bit too
many.  Two states and two events are enough for a bit that is latched in a state
that does not wait for it, for two callbacks in one step and for a change of
state between them.  The daemon holds one deferred mask, which is enough for a
bit to be set again after it was taken.

`node` and the runs named after it: the five states, 32 event bits and
`MAX_PING_TIMEOUT` of the source.  The event queue holds two events (a loss and the
address that follows it); a full one makes its poster wait, as the driver's posts do.
The timer queue holds one command, so that a start or a stop that comes before the
daemon has executed the last is refused; with `command` one may be refused at any time.
(A start queued behind a stop needs a longer queue; the theorems of section 4 are for
queues of any length.)  `node` leaves sockets, tasks and sessions out because
`ModeConsistent` is about a node that gets them, and has the radio's whims: attempts that
fail, links that drop, leases that are renewed.  `node_faults` puts them in, and probes
that are lost on a good link.  Both have the reset button.

`server`: five datagrams - a ping to be confirmed, one not to be that names an entry
only one socket admits, an update (which is accepted without touching the response), one
shorter than a header, and a response with an unknown content type - with two tokens or
none, so that what one leaves behind in request, response, session or buffer can show in
the next.  One datagram is queued per socket: what is behind it arrives later.  Any
number of stops and starts, and `select`, `recvfrom`, `sendto` and the opening of sockets
may fail each time.

`setup`: two names, three faults - a power cut while an update is pending, one during
the erasure it led to, and a failing call on top - three retries, and two events
waiting in the loop, so that a failure can wait behind another one and before a
success.  The reset button counts as a fault.

`routes`: four addresses, two entry numbers and two methods: two entries with a route
each, or one entry with three routes, so that a search can stand before, on and
behind the place where something is linked in, and a second route of the same method
can follow the first.  Any number of registrations until memory is used up, of
allocations that fail and of restarts.

`status`: three ticks to a second, a counter of 32 values, so that it wraps every five
blinks, and looks that are a tick late or not; every start value of the counter.

### Fairness

`FsmFairness`: the task that runs `loop_step` gets to run, and callbacks return.
`NodeFairness`: each of the tasks gets to run - they block or sleep between two
steps - the timer daemon executes its commands, a probe is answered or times
out, and a connection attempt ends.  Nothing is assumed of the user, of losses,
of renewed leases, nor that the ping timer expires.  That every callback returns
is not assumed of the node but shown (`ImplementsFsm`) - where no resource is
refused; `node_suspend` shows how it fails otherwise.

`ServerSpec`: the server task runs when it is not suspended, a stop that has begun
ends, and `recvfrom` does not fail for ever on a socket with a datagram (strong
fairness, since the server leaves the call between two attempts).  Nobody has to
send, to stop, or to start the server again.

`SetupSpec`: `app_main` and an update that has begun go on, `wifi_task` calls
`init_poweron`, a station that was refused tries again (`Reconnects`), and events are
handled.  Nobody owes the node good credentials or a name.  `RoutesSpec`: the server goes on with a search; nobody has to register
anything.  `StatusSpec`: `status_task` is given the processor after each sleep.

Deadlock is checked in all runs but `node_stable`: a node that is stuck in INIT on a link
that is up waits for an event that cannot come, and the run is about exactly this state.

### What does not hold

`node_stable`.  `event_handler` posts DISCONNECT for a failed attempt too.  In
INIT no event waits for that bit and it stays latched; the CONNECT that follows
brings the node to IDLE, where the stale bit is taken at once and brings it back
to INIT.  The link is up, no further event comes, and the node never serves.
`ServedUnlessStale` shows that this is the only way to get there.

`node_suspend`.  If the first start of the server failed before its task was
created, `proto_stop` calls `vTaskSuspend(NULL)`, which suspends `wifi_task`.

`server_bad`.  `decode_pdu` prepares a refusal for what it cannot decode and returns
ESP_OK all the same.  The dispatcher then handles what is in `g_proto.request`: for a
datagram shorter than a header the request before it, once more; for one with an
unknown content type its half-decoded header, so that a ping gets its pong, with
the token of an earlier request.

`routes_unserved`.  `osh_node_route_register` never looks at its argument `handler`:
`memset` leaves `route_cb` NULL, and the dispatchers pass over such a route.  The
search finds the route and the answer is NOT_FOUND; the route of `main.c`:51 is not
served.

`routes_refused`.  If there is no memory for a route, the entry it was for is freed and
stays in `entry_list`; the next traversal reads freed memory.  That nothing else breaks
the lists is `TraversalsStayInLists`.

Windows that a property bounds.  `osh_node_fsm_register_event` returns ESP_OK and
registers nothing if the number of a state that does not exist yet is the number the
latched bits make (`RegisterOkListsUnlessLatched`); in the node no event is latched
that early (`BootRegistersAll`).  The ping timer can expire between the queued stop
and its execution, when the session it starts has been deleted; the handle is kept.  The
stop is posted with a block time of zero and nobody looks at the result: a timer queue
that is full drops it, and the node is in INIT with the timer armed behind the handle it
has just deleted.  `DeletedSessionUnarmed` bounds both: a stop, or a later session, that
was refused is the only way to such a timer once the daemon has caught up, and the next
call that is not refused ends it.  With no memory for `wifi_task`,
`osh_node_wifi_start` returns ESP_OK all the same: the modules count as started and nothing
ever runs.  No other failure leaves a started node mute (`StartedNodePowersOn`).
The comparison in `ping_on_timeout` (`wifi.c`:241) is the wrong way round: the first probe
without a reply passes it, and the counter never leaves zero
(`EveryTimeoutDisconnects`).  CONNECT is posted before
the address to ping is stored, so that a session can be created for address zero
(`ZeroTargetOnlyInWindow`).  Bad credentials survive a restart: the
next boot starts the station with them and counts no failures, since the manager is
not running (`BadCredentialsDropped` ends at a restart).

Observed while modelling, modelled as they are, and not worth a run each because
one step shows them: the first `proto_start` creates the heartbeat
timer without starting it, and its period is given in seconds where ticks of
milliseconds are computed (`proto.c`:617-620); the result of `proto_start` is
ignored (`wifi.c`:387); the timed events BIT32 .. BIT34 (`osh_node_events.h`:37)
do not fit an `EventBits_t`; the status light is dark until the first
look.  In the server: the encoder keeps two of the three bits
of a class (`proto.c`:172), so that every client error goes out as a method and
every signal as class 3; a response to an update has the type it was initialised
with, which the encoder makes a request to be confirmed; routes have no callback
(`proto.c`:730-738); the APP mask tests bit 28 where its comment says bit 31
(`proto.inc`:32), so that an MDM entry without bit 28 is admitted on both sockets; a
response sent to the node is refused with the token of the last request.

## 4. What is proved

`OshFsmProofs`, for any number of states, width, masks and callbacks:

- `FsmInvariant`: the inductive invariant is `FsmTypeOK`, `OrthogonalEvents`,
  `StepAccounts` and `RunningInv`.  `StepAccounts` is not inductive alone: one has
  to know that `step.running` is NULL when the next callback begins, so that none
  is overwritten, and that nothing is handled before the wait.  That lists do not
  change under a step in progress comes from the guard of every registration.
- `FsmTypeCorrect`, `EventsStayOrthogonal`, `DispatchIsExactlyOnce` follow.
- `DispatchStaysInOrder`: `OrderInv` adds to `DispatchInOrder` that the event whose
  callback runs is below those still to run.  That the next event is below the others
  needs that two masks of a state differ (`OrthogonalEvents`) and that masks which
  differ are ordered (`BelowIsTotal`): a set of bits has a highest, because < is
  well-founded.
- `NoLatchedEventLost`: in `WaitBits`, what is cleared is the mask of the state,
  which by the first half of `OrthogonalEvents` is the bits of its events
  together; each cleared bit is therefore a bit of a matched event.
- `RegisteredUnlessLatched`: an action property of the one step that accepts a
  registration, with the types of the lists.
- `FsmImplementsLatch`: every step is a step of `OshEventLatch` or a stutter.
  That `ReturnOk` finishes something and nothing else needs the second half of
  `OrthogonalEvents`: the events still to run keep their bits.

`OshNodeProofs`, for queues of any length and any `Faults`:

- `NodeImplementsFsm`: every step of the node is a step of `OshFsm` or a stutter,
  so that the theorems above hold in the node (`NodeLosesNoEvent`).
- `ServerHasSockets`.  First `TaskInv`: each callback runs in the state it is
  registered for and is at a known call, and an event still to run finds the
  state it is registered for.  For the last part one needs `StepAccounts`: the one
  callback that leaves INIT is CONNECT's, and it is not itself still to run.
  Then `ServerInv`: the server runs only in IDLE or in the last calls of
  `init_connect`, and the sockets are touched only outside.
- `StateTellsWhatRuns`: under `NoResourceFaults`, `ModeInv` says for every call of
  the two callbacks what is on, and `ModeConsistent` is its value between two.  The timer
  is what its last command asked for unless that was refused (`QueuedLast`), and stays
  that while the daemon catches up (`ExecutedFirst`).
- `DeletedSessionsStayUnarmed`, for any `Faults`, refused commands and sessions included:
  `TimerInv` adds that `delete_session` finds the timer stopped, or about to be, or its
  stop refused.  That a refused session is the only other way to an armed timer needs
  the places of the two callbacks and their states (`TaskInv`).
- `ZeroTargetsOnlyInWindow`: the invariant `AddressInv` says that as long as CONNECT is
  latched, or its callback due or running, an address is stored or about to be; only
  `HandleGotIp` makes CONNECT pending, and it is followed by the store.
- `NodeTypeCorrect`, for `MaxPingTimeout` above one: the counter's upper bound is no
  invariant of its own, one needs that it never leaves zero (`CountNeverStarts`), from
  which `LostProbesDisconnect` follows too.
- `LinkAlwaysRetried`: `LinkIsRetried` is inductive once the event queue is known
  to be a sequence.
- `BootAlwaysRegistersAll`: `BootInv` says that before `wifi_task` exists nothing else can
  run (`Quiet`), so that no bit is latched during the registrations, and counts those
  that have reached their lists.  The number no bits make is that of INIT, which
  is listed first, so that `fetch_state` misses no state.

`OshServerProofs`, for any datagrams and any `Faults`:

- `ServerTypeCorrect`, over the types of what decoding, dispatching and encoding
  return, one lemma each.
- `RequestsAreAnsweredFromThemselves`: `AnswersItsRequest` speaks of the step that sends;
  the invariant `ServedInv` follows the datagram there.  At each place of the loop it
  says what the memory the next step reads holds - the datagram in the buffer, its
  length, its decoded fields, an initialised response, its token in the session -
  as long as no stop has come in between.  The token needs `AnswerToken`: only the
  answer to a request with a token carries one, so that an old `last_token` stays
  unseen.

`OshRoutesProofs`, for memory of any size and any numbers of entries and methods:

- `RoutesTypeCorrect`, with `InHand`: what the steps of a registration and of a search
  hold is an address.
- `TraversalsMeetOnlyLists`: the invariant `ListsInv` says that there is an assignment
  `own` of routes to entries under which the lists are closed - the successor of
  a listed entry is a listed entry or the end, that of a listed route one of the same
  entry or its end - and that both tasks stand on such lists.  An element under
  way is not yet listed; its pointer is written (`Place...`) before the store that
  lists it (`Publish...`), which is what keeps the lists closed.  The assignment is
  existential because no variable of the code says whose a route is.

`OshRouteSearchProofs`, which goes on from there to what a search finds.  It needs that
one element of a list is reached from another, said without recursion: `Leads` from p
to a when a is in every set of addresses that has p and is closed under `next` up
to the end marker.  The lemmas on it (`LeadsOn`, `LeadsTo`, `LeadsAround`, `NoWayBack`
and their neighbours) are proved by naming the set: that linking an element in keeps
everything reached, adds the element, and makes no cycle.

- `TableInvariant`: `TableInv` says, under one assignment `own`, that the lists are closed
  (`Lists`) and nothing points to an element not yet listed (`Pointers`); that what is
  listed is reached from the head (`Reached`); that while a registration looks for
  its number the entry, if there is one, is still ahead, and that where it
  allocates an entry there is none (`RegisterKeys`); that a registered route is listed
  under its numbers (`Filed`); that a due route is seen already or still ahead of the
  search (`SearchAhead`); that no element leads back to itself (`NoCycle`); and that what
  is seen is behind the search (`SearchBehind`).  `Kept` says once what a store
  leaves as it was for the places listed already, and each conjunct is carried
  through it; only the two `Publish...` stores change what is reached.
- `RegistrationsShareEntries` follows from `SharedEntries`, which needs `RegisterKeys`: the
  search that decides to allocate must have passed all entries.
- `SearchesPassRegistered`: when a search leaves the last list nothing is ahead of it, so
  that what was due is seen.  It holds although routes are linked in while it runs: a
  store puts an element between two others and takes none away.
- `SearchesPassOnce`: the route in hand leads to itself, what is seen does not lie ahead.
  It needs `NoCycle` for the route just passed.

`OshStatusProofs`, for any tick rate, any lateness and any width of the tick counter that
holds the longest phase (3 * HZ + Late < TickType, which 32 bits do):

- `StatusTypeCorrect`, `PhasesLastLongEnough`: `PhaseInv` adds to the types that the counter
  stands `elapsed` ticks after `last_time`, or a round of the counter less (`Past`).  From
  it the unsigned subtraction of the code is `elapsed`, wrapped or not
  (`SubtractionMeasures`), so that an unchanged state turns only when due (`TurnsWhenDue`).

`OshNamesProofs`, for any names and any number of failures and power cuts:

- `DevNameAlwaysKnown` and `CopiesAgreeUnlessReported`, from `NamesInv`: nothing is in memory
  before it is restored (`FreshNames`), memory and flash agree for every key restored
  and not failed (`CopiesAgree`), an update in hand has its value in memory
  (`UpdateInHand`), and a device name is never anything but the MAC's, nor is an
  update of it in hand once the modules run (`DevNameOnlyMac`).
- `NamesImplementStore`: every step is a step of `OshNameStore` or a stutter, under
  the mapping of `holds` to what flash, the uncommitted values and the update in hand
  may leave.

`OshSetupProofs`: every step of `OshSetup` is a step of `OshNames` or leaves its variables
alone (`SetupKeepsNames`), so that the theorems on names hold there
(`SetupImplementsStore`); `SetupTypeCorrect`; and `WorkingCredentialsAreKept`, for any number
of retries: the reset acts only on a manager that has failed, and nothing but the
boot erases.

The assumptions are those on the constants (`FsmAssumption`, `NoEventAssumption`,
`QueueAssumption`, `NodeAssumption`, `NodeEventsAssumption`, `PduAssumption`,
`RoutesAssumption`, `NamesAssumption`, `SetupAssumption`, `StatusAssumption`), which TLC
evaluates in the runs.

Left to TLC: all liveness properties and the fairness half of the refinements (out of
the prover's reach); that `Below` is the order of the numbers, which are a recursive sum
(`BelowIsLess`, for masks of six bits).  Every invariant and every action property of
the passing runs is stated by a theorem.

## 5. Not modelled

- `osh_node_fsm_fini`: nothing calls it.  `osh_node_proto_fini` likewise.
- A status light with no memory for its task, which stays dark (the result of
  `xTaskCreate` is ignored, `status.c`:97).
- In `OshServer`, message ids and hashes, and a decoder that a stop can overtake
  between two bytes of the buffer it clears.
- In `OshRoutes`, two tasks that register at the same time: the code has one caller,
  `app_main`; and which of several equal entries a search finds once a list is broken.
- In `OshNames`, a reader of a name between `free` and `strdup`: the only reader outside
  the boot is `init_poweron`, and nothing in the repository calls an update later.
- The composition of `OshSetup` with `OshNode` and of `OshRoutes` with `OshServer` in one
  module.  They meet in few places - `provisioned` and `creds`, the station's retries,
  NOT_FOUND - and the product would be out of TLC's reach.
- Provisioning security and the QR code (constant data handed to ESP-IDF), OTA and BLE
  (placeholders without code), the diagram tool.
- The Wi-Fi driver, FreeRTOS, NVS, the provisioning manager and the ping library
  themselves, which are modelled from their use, in `OshLink` and in the actions that
  `PROJECT.json` marks external.
