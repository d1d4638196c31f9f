# Verification of WebUSB for Firefox (awawausb)

TLA+ modules, TLC configurations and TLAPS proofs about the program in `src/`:
a Firefox extension that gives web pages the WebUSB API and a native stub,
written in Rust, that talks to the operating system.

## The system

```
 page (page.js)  --promise-->  content.js  --port-->  awawausb.js  --stdio-->  stub (main.rs)  --> kernel
   USBDevice                    txn_map              (background)               USBDevice
   one per device               one per call         one for all pages          one per device
```

| Component | State it keeps | Operations | Correct when |
|---|---|---|---|
| `page.js` | `#opened`, claimed flags, active configuration, handles of devices | the WebUSB methods | its copies are those of the background script; each promise is settled once |
| `content.js` | `txn_map`: unsettled calls | send, settle, forward events | no call is settled twice or never |
| `awawausb.js`, broker | `usb_devices`, `usb_txns`; per device `opened` (a count), `interfaces_claimed`, `current_config`; per page and device `opened`, `claimed_interfaces`, `transactions` | the page's requests, the page's end, the stub's replies | the open count closes the device exactly when nobody uses it; one page per interface; aborts and replies meet |
| `awawausb.js`, registry | devices, permissions per page, handles | NewDevice (with awaited descriptor transfers), UnplugDevice, injection, forget, requestDevice | no ghost devices; a page has one handle per device; permissions survive as specified |
| `awawausb.js`, permission dialog | requests waiting, windows | ask, finish, cancel | every request is settled, once |
| stub, requests | virtual open flag, configuration, interface table | open, close, reset, set configuration, claim, release, set alternate setting, clear halt, transfers | claims belong to open devices; each request gets one reply |
| stub, run loop (Linux) | URB wrappers, timer fds, epoll set | stdin, timeout, completion, hang-up, error | wrappers freed once, timeouts cancel their own URB |
| stub, enumeration (Linux) | udev socket, session counter, table of devices | listen, scan `/dev/bus/usb`, take broadcasts, set a device up, end its session | a device that stays is found, described by its own descriptors; every session ends |
| stub, Windows | handles shared by interfaces, with a reference count; paths of interfaces; two channels and their events | the same requests; reader, callback and I/O completion threads | a handle is there as long as anything needs it; no message is slept over |
| stub, macOS | objects of interfaces with a Mach port each, reference counted; interface states; map of endpoints to object and pipe | the same requests; plug, unplug and completion callbacks | a completion's port is open until it is received; claims match objects; an endpoint reaches its own pipe |
| `usb-ch9` | none | parse descriptor sets | total on malformed input |
| filters, blocklist | none | match a device | as the WebUSB specification says |
| framing, debug page, notifications | none to speak of | I/O | |

Hard in this system: state is kept three times (page, background script, stub)
and synchronised by messages only (`Documentation/architecture.md:80` says so
itself); several pages share one device; a page may call without awaiting; a
page may end, and the plug may be pulled, at any moment; every ioctl may fail.
The hazards are listed one by one in `PROJECT.json`.

## Modules

| Module | Models | Role |
|---|---|---|
| `UsbProtocol` | `protocol.rs`, the two pipes | vocabulary shared by both ends, for one device |
| `Background` | `awawausb.js`: broker; the unsettled calls and copies of state of the pages | one action per branch of a handler that has an effect |
| `StubDevice` | `main.rs`, `linux.rs`: one device of the stub on Linux | one action per request and per run-loop event |
| `Broker` | the two joined by stdin and stdout | specification, invariants, action and liveness properties |
| `LinuxTransfers` | `main.rs`, `linux.rs`: run loop, epoll, URBs, boxes, timerfds; the extension's own control transfers | what `StubDevice` leaves out: who owns a transfer, and timeouts |
| `DeviceRegistry` | `awawausb.js`: NewDevice, UnplugDevice, permissions, handles; `page.js`: the map of handles | which devices there are and which of them a page may see |
| `WindowsStub` | `main.rs`, `usb_windows.rs`, `stdio_windows.rs`, notifications of `enum_windows.rs` | the stub's other platform: its threads and its counted handles |
| `MacStub` | `main.rs`, `macos_wrap.rs`: one device of the stub on macOS, from its plug notification to its removal | the stub's third platform: reference-counted objects, aliasing maps, panics |
| `LinuxHotplug` | `main.rs`, `udev_sys.rs`, `linux.rs`: start-up, scan, udev socket, `USBDevice::setup`, sessions | how devices come to be in the table that `StubDevice` and `LinuxTransfers` begin with |
| `RequestReply` | none: what either end of the pipes relies on | abstract specification, refined by `Broker`, `LinuxTransfers`, `WindowsStub` and `MacStub` |
| `MCBroker`, `MCLinuxTransfers`, `MCDeviceRegistry`, `MCWindowsStub`, `MCMacStub`, `MCLinuxHotplug` | | constants for TLC |
| `BrokerSafety_proofs`, `BrokerService_proofs`, `LinuxTransfers_proofs`, `DeviceRegistry_proofs`, `WindowsStub_proofs`, `MacStub_proofs`, `LinuxHotplug_proofs` | | theorems; the two on the broker are its tables and, built on them, its pipes |
| `PipeLemmas` | | lemmas about sequences as pipes: what a tail, an append or a concatenation does to the elements and ids in them |

The specifications overlap on purpose, each with the detail of its own
question. `WindowsStub` stands in for `StubDevice` and `LinuxTransfers` on
Windows, and `MacStub` on macOS. `LinuxHotplug` ends where those two begin, with
a session in the table; what it shows of the end of a session (`GoneLeaves`) is
the UnplugDevice that `DeviceRegistry` waits for. `DeviceRegistry` says which handles a page has, `Broker` what it does
with the device of one, and `LinuxTransfers` how a request that the stub accepts
is carried out. What one takes for granted another shows:
`DeviceRegistry` assumes that the transfers of NewDevice are answered, which is
`LinuxTransfers!ProbesAnswered`; `LinuxTransfers` lets a page's transfer be
refused or not, `StubDevice` says when.

How state and actions correspond:

- A JavaScript handler runs to its next `await`, and the stub is single threaded,
  so a handler, or the part of it between two awaits, is one action: `Open(p)`,
  `ClosePage(p)`, ... are the page's requests as the background script handles
  them, `OnOpened(t)`, `OnClaimed(t)`, ... the callbacks the replies run,
  `HandleStdin` a request in the stub. In `DeviceRegistry` the handler of
  NewDevice is in pieces: `NewDevice` up to its first await, `Probed` after a
  transfer, `Notified` after the notification of a landing page. What follows an
  await is another transfer (`Await`), the notification (`Announce`) or the
  registration (`Register`), and there are two ways not to get there. The loop over
  the BOS descriptor's capabilities has no end if one of them is of length 0
  (`SearchForever`): the script is single threaded, so with `looping` set no
  message, no page and no answer of the user is handled any more. And nothing
  catches it if the browser refuses the notification (`NotificationRefused`).
- A page sends what it likes when it likes (page.js checks nothing and awaits
  nothing), so the page's call and the handler's run are one action and that pipe
  needs no state. `outstanding`, `view_opened` and `view_claimed` are what
  `content.js` and `page.js` hold once the page has taken in what was posted to
  it, and so is `view`, page.js's `dev_handle_to_obj_map`.
- `usb_txns` is a set of records. Closures are named by the operation they belong
  to (`cb`) and carry what they capture. The two kinds of transaction ids,
  `page-n` and `0-n`, are numbers from one counter.
- `to_stub` and `to_bg` are FIFO pipes. A transfer that was submitted is in `urbs`
  and comes back in any order; everything else is answered in order.
- `if_state` is the stub's interface table; "absent" stands for no entry.
- In `LinuxTransfers` the kernel's steps (`Complete`, `Expire`, `Disconnect`,
  `Remove`) run between any two of the run loop's. `epoll_buf` is a batch of
  events that has been fetched and may be stale by the time it is handled.
  `wrappers` are the boxes on the heap, `timers` the open timerfds, `timeout_urb`
  the one slot per device that a timeout finds its URB by. REAPURBNDELAY is
  called in a loop; `Reap` is one round of it and no other event is handled until
  it has run dry.
- In `DeviceRegistry` the vendor id, product id and serial number are one value,
  the key of the permissions. Permissions are two variables, the keys
  (`allowed_keys`) and the handles under each (`allowed_handles`), for the code
  keeps a key whose handles are all gone. `granted`, `forgotten` and `unannounced`
  are history.
- In `WindowsStub` each thread has its place (`reader`, `callback`, `main`), so
  that sending and signalling are two steps. A request is its id: only the main
  thread looks at what it asks for, and does so in the step that carries it out.
  `refs` is `_win_iface_handles`, without an entry where it is 0; `Root` is
  `iad_map`. `driver` is what the system and the callback's database know of an
  interface, `paths` what the main thread does. A transfer ends when the file
  under its handle is closed, by the count, by close, or by the driver's removal;
  the IOCP thread answers it then. A driver that is removed does not come back:
  the system gives it, or the device, as a new one.
- In `MacStub` an object of an interface is the interface's number and the number
  of the probe that made it; `ports` are the objects that exist, each with its
  Mach port. An `Rc` is not counted: `Kept` says which objects something still
  refers to (the table, the box of a transfer, or a box that was leaked), and a
  step after which nothing does closes the object. `ifaces` is `_macos_ifaces`,
  its positions counted from 1, `if_state` the interface states with their
  `_macos_iface_idx` (`slot`) and `_macos_ep_addrs` (`eps`), `ep_to_slot` the map
  of endpoints. `macos_probe_ifaces` empties two of these tables first and writes
  the third last, so that `ProbeFails` leaves them out of step; an index or an
  assertion that fails is a `Panic`, after which the stub does nothing more.
- In `LinuxHotplug` a device is one instance, plugged in once; one that is plugged
  in again, at the same port or another, is the next. The kernel's and udevd's
  steps run between any two system calls of the stub. `job` is a call of
  `USBDevice::setup` with what it has got hold of: the node (`fd`), the sysfs
  directory (`at`) and the descriptors (`of`), each the device it turned out to
  be of. The scan finds the directory by the device number of the node it has
  open; a broadcast names a directory, which is the port's. `missed` is history.
- A request rejected on the spot changes nothing and is a stuttering step.
- Faulty variants of actions (`...Unchecked`, `...KeepsRef`, ...) stand before the
  action they vary. Nothing uses them: each is there to show, put in place of the
  action, that a property notices the fault.

Abstracted: endpoints stand for their interface, except in `MacStub` (both ends
translate them first thing); payloads, lengths and error codes; alternate
settings, except in `MacStub`; in `Broker` all
devices but one (devices share nothing but the pipes).

## Runs

| Run | Asks | Result |
|---|---|---|
| `broker_safety` | do the transaction tables of both ends and the pages' calls stay consistent, are opens counted and interfaces booked rightly, does every posted request get exactly one reply (`RequestReply`)? Two pages, two configurations with different interfaces, 3 transactions, any ioctl may fail | holds |
| `broker_polite` | do the three copies of claims and configuration agree for one page that awaits its calls? Two configurations, 8 transactions | holds if no ioctl fails |
| `broker_live` | is everything answered, also after unplugging, and can the stub stay open with nobody counted? Two pages, 3 transactions | holds if no ioctl fails |
| `broker_v_exclusive` | exclusive claims | violated: two pages race |
| `xfer_safety` | do boxes outlive their URBs, does the timeout slot dangle, can reading stdin block, is each transfer answered once? All kinds of transfers, any system call may fail | holds |
| `xfer_live` | does a timeout hit its own transfer, does enumeration end, does removal settle everything? A device that may never answer | holds if no submission fails before the device goes |
| `registry` | do the maps of handles and permissions agree, do pages see what they may and no more, is every device registered, does a registered one that goes leave? Two devices, with and without a serial number | holds; of registration and leaving, with two exceptions: a device whose notification the browser refuses, and a script that has hung |
| `registry_v_ghost` | is what a page lists there? | violated: a device pulled during its enumeration stays |
| `windows` | do shared handles last as long as anything needs them, is a message ever slept over, does the main thread know the interfaces there are, is each request answered once, also when the device or the extension goes? A lone interface and two associated ones, drivers coming and going, 4 requests, anything may fail | holds |
| `mac` | is the port of a completion open until it is received, do claims match the open objects, does a transfer reach the pipe of its endpoint, is each request answered once, and by unplugging at the latest? Two configurations, an interface with two settings, 6 requests, any call may fail, GetPipeProperties apart | holds |
| `mac_v_assert` | does the assertion in claim_interface hold? | violated: claim, close, open, claim |
| `hotplug` | is a device that stays found, by its own descriptors, however it comes in between the socket, the scan and udevd; does every session end? Two devices at one port or two, a socket that overflows | holds |

The violations are short and need only pages that behave: that of the broker
uses pages that await every call, that of the registry no page at all until it is
shown a device that is gone, that of macOS one page that closes and opens again.
They are described, with the sentence of the repository they contradict, under
"findings" in `PROJECT.json`.

Bounds. `MaxTxn` bounds the transaction ids of a behaviour, hence everything
else. Three are enough for two opens and a close, or open, claim and a transfer
racing with another page's calls. What is proved holds for every bound. `broker_polite` needs eight because
a polite page must open, claim, change the configuration and close in turn.
Two pages suffice: no guard or update in the code compares more than the calling
page with the owner. Pages are symmetric; symmetry is not used for liveness.
`MaxXfers` is three: a transfer with a timeout, one that takes over the slot, and
one of a page; devices share only the batch, so one is checked and the proofs
cover any number. `registry` has two session ids, which are two devices or one
that is plugged in again; one page, since pages share nothing but the list of
devices (the proofs cover any number); `MaxProbes` is one transfer for a device,
which may stand for several in a row and is enough for anything to happen
meanwhile, with the notification as a second await; `MaxRequests` two dialogs,
which may be open at the same time. `Unplug` sends at most two messages, one for EPOLLHUP and
one with EPOLLERR, the second for a device that is known no more.
`windows` has four requests, which open the device, claim both associated
interfaces and release one, or have one on stdin, one in the channel and one in
flight at the end; the proofs cover any number. One interface alone and two associated make every case of `Root`, and two drivers are enough
for one to come or go while the other is in use.
`mac` has six requests: open, claim and set an alternate setting with two
transfers and a change of configuration, or the two claims around a close. The
second setting of interface 0 has its endpoints in another order, the second
configuration leaves interface 1 out, so that slots shift. `hotplug` has two
devices, the fewest for one to follow another at a port or for a broadcast to be
about another than the scan's; each is broadcast at most twice, once as "add"; the
socket holds two.
Deadlock is not checked: with the ids used up, or all pages gone and the devices
pulled, the systems rightly stop.

Fairness. `broker_live`: both event loops go on (`BgReceive`, `HandleStdin`),
which Firefox and `run_loop` guarantee. A URB is only sure to come back once the
device is disconnected, when the kernel returns every one, and only then raises
EPOLLERR. `xfer_live`: the loops go on, a timer that is armed expires, the kernel
finishes a removal, and whatever stays ready is reported by some epoll_wait
(strong fairness: a batch has room for `actual_needed_event_sz` events, and the
kernel serves its ready list in turn). `registry`: the background script handles
its messages unless it loops, the browser settles the promise of
notifications.create one way or the other, and the stub answers NewDevice's
transfers, as `xfer_live` shows it does. `windows`: the three threads run, and a
callback that has sent its notification sets the event. `mac`: the run loop takes
requests and notifications, kevent reports a port that has a message, and IOKit
ends the transfers of a device that is gone. `hotplug`: the stub goes on, udevd
gets to every device in the end, the kernel finishes a removal, and epoll reports
the error of a removed device. Pages, users and devices are under no obligation.

## Proofs

All theorems hold for every set of pages, devices, interfaces and
configurations and every bound. Assumptions: these sets are finite where
cardinalities are taken, interface and configuration numbers are natural numbers
and 0 is no configuration, and the values that stand for null and undefined are
no pages, transfers or handles. `MacAssumption` and `HotplugAssumption` give the
constants their types and no more: a session is described rightly whatever the
ports, and a port kept open whatever the pipes. `PipesAssumption` is what IOKit
documents of pipes: those of an interface are numbered from 1 without a gap, and
an endpoint address belongs to one interface.

Every invariant and every action property that a run checks and finds to hold is
a theorem, and so is each refinement of `RequestReply`. Four theorems have a
hypothesis, that of their run, without which TLC finds them false (see below, "Seen
on the way"): `OpensNotOrphaned` and `CopiesCorrect` that no ioctl fails, `CopiesCorrect`
also that there is one page and it awaits its calls, `TimeoutCorrect` that no
system call fails, `EndpointsCorrect` that GetPipeProperties does not. Nothing else
is assumed of the device, which may be pulled or replug its interfaces at any
moment.

`BrokerSafety_proofs`: `TypeCorrect`, `CallsCorrect`, `OpensCorrect`,
`ClaimsCorrect`. The invariants of the runs are conjunctions of named parts
(`CallsMatch` of `RefsAreLive` and `EveryCallHasOneRef`, and so on), and the
theorems are about the whole. The inductive invariant `IInv` has four parts.
`TypeOK` and `OpenCountCovers` need each other: the count stays a natural number
because the page that closes is one of those it counts. `RefsAreLive` and
`EveryCallHasOneRef` are not inductive: aborting the calls of one page kills
whatever has their ids, so `IdsUnique` and, for new ids, `IdsFresh` are added.
`ClaimTargets` is the type of a claim's target. `StepShape` and
`PageRequestShape` reduce the two dozen actions to the four things a step can do
to the tables: nothing, queue a call, close, take a reply.

`BrokerService_proofs`: `ServiceCorrect`, `OpensNotOrphaned`, `CopiesCorrect`. All
three are about what is in the pipes. `IdsApart`: the id of a transaction is on the
stub's stdin, with the kernel, or on its way back, in one of these places and
once, and each id there is that of a transaction; so every step is one of
`RequestReply` or a stutter.

`NoOrphanOpen` speaks of a moment when nothing is under way, and its invariant
has to look ahead. `OpensWanted`: if the device is open once the stub has done all
that waits on its stdin (`EndsOpen`), somebody has it open or waits for an open
that was not aborted. This needs that an open under way succeeds
(`OpensSucceed`), and a close too, which is where failing ioctls are excluded: if
the device refuses to release an interface the stub refuses to close, and the
background script, which counts nobody by then, does nothing about it.

`CopiesAgree` needs a description of all that can be under way. `Ordered`: of two
requests other than transfers the one posted first is carried out and answered
first (stdin is read by one thread and both pipes keep their order); transfers are
left out, for they come back in any order. On top of that, for one polite page:
`Alone`, at most one call is under way, behind at most the requests of one close;
`CloseBatch`, the releases of a close are those of the claims the background
script still lists, each once, and before the close itself; `Follows`, the stub's
claims and configuration are the background script's with the successes applied
that are still on their way (`Effects`). When nothing is under way there are no
effects, and the copies agree. With two pages, or one that does not wait, `Alone`
fails, and so does the property.

`LinuxTransfers_proofs`: `TypeCorrect`, `OwnershipCorrect`, `StdinCorrect`,
`ServiceCorrect`, `TimeoutCorrect`. That a box is not freed under the kernel, or the
slot not left pointing at one, rests on ids: submitting under the id of another
transfer would mix up their boxes, so `IdsApart` says that an id is on stdin, with
a URB, or on stdout, once and in one place only. The same fact makes every step a
step of `RequestReply` or a stutter (`ServiceStepRefines`). `StdinOnce` says that a
batch has one stdin event at most and was fetched when there was something to
read.

A timer event may be old: between the epoll_wait that fetched it and its turn
in the batch the device's slot may have been given away. That it then hits no
other transfer (`TimeoutCorrect`) is not due to the stub, which does not look, but
to the extension's NewDevice, which sends one transfer with a timeout per device
and awaits it (`OneProbe`): the reply has to be read and the next request written before the
slot can be taken again, and a batch that holds the event of a timer holds no event
of stdin with the next request behind it (`TimerEventsOwn`). `TimersLive`: a
device's timer is closed with its URB.

`DeviceRegistry_proofs`: `TypeCorrect`, `HandlesCorrect`, `ViewCorrect`,
`ConsentCorrect`. A page that is told of a device must not have a handle of it:
`OneRegistration` says that a device is enumerated once: its one message is on
its way, or its one transfer, or its notification is awaited, or it is registered. `RefsOpen` is the converse
of `BackRefs` (each reference from a device leads to a handle of that device), so
that `Invalidate` takes away the handles of the device pulled and no others
(`RefsAreItsHandles`); it holds for pages that are gone as well, which a dialog
answered late can still give a device. `HandlesAllowed` (a handle that was not
given up stands under the permissions) is what makes the page hear of it.

`WindowsStub_proofs`: `TypeCorrect`, `HandlesCorrect`, `WakeupsCorrect`,
`PathsCorrect`, `ServiceCorrect`. The counts of `_win_iface_handles` are not exact (a claim of an associated interface
counts for its root, its release does not), so the invariant does not count
either. `Referenced` asks whether a root has a reference to spare beside that of
its own claim (`Spare`): the handle the device was opened with is one, a claimed
interface that is not a root has left one, and a release never takes one.
`Wakeups` says of either channel that a message in it has its event set or about
to be set, unless the main thread is at that channel already. Assumed: the first
interface of an association is its own root. For `PathsFollow`, `PathsPending` says
that the main thread's paths become the callback's once the notifications in the
channel have been applied, and `NotifsInOrder` that an interface has an arrival and
then a removal there at most, so that they can be applied in that order without
one being ignored. `ServiceCorrect` follows a request through the three threads:
stdin, channel, file or completion, reply (`IdsApart`).

`MacStub_proofs`: `TypeCorrect`, `PortsCorrect`, `ClaimsCorrect`, `ServiceCorrect`,
`EndpointsCorrect`. That the objects of transfers exist needs that those of the
table do (`TableHasPorts`), since a transfer takes its object from there. That claims and open objects match needs
that no two slots hold one object and that a new probe makes new ones, which is
`ProbesCounted` (an object's number is that of a probe that has been) and the part
of `ClaimsMatch` that says an interface's slot holds its own object. An entry of
the endpoints' map outlives the claim that made it (the code forgets some), so
`EndpointsReachTheirPipes` is not inductive: `MapMatches` asks it of every entry,
claimed or not, and that the entry's endpoint is in its interface's list, by which
the next setting or release removes it. That an endpoint's place in that list is
its pipe (`PlaceIsPipe`) counts the pipes before it, by a bijection.

`LinuxHotplug_proofs`: `TypeCorrect`, `DescribesCorrect`, `OnceCorrect`. While a
device is connected no other is at its port (`PortsApart`), so a directory opened
after the node, by way of the port, is the device's own as long as it is
connected (`JobSound`): had the port changed hands, the node's device would be
gone. `OncePerWay` rests on the scan's list (`ScannedBefore`) and on an "add" being
broadcast once (`AddsApart`), with `JobIsNew` and `StageSound` for the setup under
way.

Only model-checked: liveness (`ControlCallsAnswered`, `UnplugSettlesCalls`,
`ProbesAnswered`, `RemovalAnswersAll`, `Enumerated`, both `GoneLeaves`, `EndsSettle`,
`UnplugSettles`, `PluggedIsFound`), which the proof system does not support: its
temporal steps have no fairness and no ENABLED.

## Seen on the way

Besides the findings, reading the code against the models showed:

- An open whose page goes away meanwhile is counted for ever
  (`awawausb.js:712-717`), where `architecture.md:79` has the background script
  "track the number of pages that have opened the same device". The device then
  stays open in the stub; `OpenCountCovers` is an inequality for that reason.
- close() leaves `claimed_interfaces` set until the releases are confirmed
  (`awawausb.js:232-250`): a page that closes, opens and claims at once, while
  another keeps the device open, is told it has an interface and loses it. Hence
  one page in `broker_polite`.
- selectAlternateInterface aborts every call aimed at the interface, claims and
  releases included (`awawausb.js:1004-1005`, "Abort all transfers"); the stub
  carries them out and the copies part.
- A page that closes the device while another's redundant open is under way closes
  it for both: the other page is told its open succeeded, on a device the stub
  then closes. The comment "We *can* race and send redundant opens to the stub"
  (`awawausb.js:715-716`) has it as harmless.
- CloseDevice fails if an interface cannot be released (`main.rs:679`), but the
  background script has counted the page out before it posts it and only logs the
  reply ("No errors are reported if closing fails", `awawausb.js:260-266`): the stub keeps the device open for
  nobody. `NoOrphanOpen` is checked and proved for ioctls that do not fail.
- A failed SUBMITURB leaks the box and its timer (`main.rs:1082-1106`); a control
  transfer with a timeout leaves the device's slot set as well (`main.rs:1051`),
  and that timer then discards the next transfer to use the slot
  (`main.rs:3579`). `TimeoutHitsOwn` is checked for submissions that do not fail.
- A device that is forgotten and requested again keeps its handle, without its
  permission (`awawausb.js:345-347`). The user has let the page have the device once
  more, yet the page is not told when it goes, and getDevices lists it from then on.
  `ViewFollows` excepts the handles a page has called forget() on.
- A capability of length 0 in a device's BOS descriptor hangs the background script
  (`awawausb.js:1491-1525`): plugging in such a device stops everything for every
  page until the browser ends the script. `Enumerated` and `GoneLeaves` except it
  (`looping`); the invariants hold with it.
- delete_page visits the devices a page has; a dialog answered later adds one
  more, whose reference to the dead page stays until it is pulled
  (`awawausb.js:661-686`).
- notifications.create is awaited outside any `try` (`awawausb.js:1567`): if the
  browser refuses it, the device is not registered, although all that was wanted of
  it is known. `Enumerated` excepts it (`unannounced`).
- On Windows an associated interface that is not the first can only be claimed
  while the first is open: the path looked up is its own (`main.rs:2348`), which it
  has not got, although the comment says "Make sure we open the "root" interface
  for this set" (`main.rs:2334`).
- Releasing such an interface, or failing to get its handle, never gives the
  reference to the root back (`main.rs:2390-2403`, `2425-2435`): the driver stays
  taken until the device is closed.
- If the interfaces of a device that has one driver are not numbered from 0, the
  first of them is claimed without a handle, and its release ends the stub
  (`main.rs:2139-2150`, `2443`). The USB specification numbers them from 0, and
  `WindowsStub` assumes it.
- A device whose interfaces are found by `probe_existing` and by the callback at
  the same time loses one: the result of the former is applied before what is in
  the channel (`main.rs:3938-3953`, "Ignoring adding an interface").
- The callback of CM_Register_Notification can run before the channel and the
  database it uses are written (`enum_windows.rs:1475-1497`).
- A device that is plugged in during the scan gets two sessions, one by the scan and
  one by udevd's broadcast, where `architecture.md:107` says that each instance "is
  assigned a session ID". The extension then offers it twice.
- A broadcast that did not fit into the socket is gone: get_event reports the error
  once and nothing scans again (`udev_sys.rs:295-303`, `main.rs:3556-3558`).
- setup skips strings and the configuration that it cannot read (`main.rs:550-580`):
  a device that goes in the middle is registered without them, and leaves again.
- On macOS close_device leaves the endpoints of the interfaces it closes in the map
  and in their lists (the finding of `mac_v_assert`).
- macos_probe_ifaces that fails half way leaves interface states that point past the
  end of the table (`main.rs:1419-1477`): the next claim, or closing a device with
  claims, ends the stub with an index out of bounds.
- get_ep_addrs skips a pipe whose properties cannot be read, and the pipes after it
  are taken for their predecessors (`macos_wrap.rs:523-530`, where the list is
  "in `pipeRef` order"): transfers then go to another endpoint. `mac` excludes it
  (`PipesMayFail`).
- A transfer IOKit refuses leaks its box, and with it the interface's object and
  port for good (`macos_wrap.rs:538-665`). `leaked` has them.
- IOUSBInterfaceStruct::new asserts that IOKit makes the object (`macos_wrap.rs:432`):
  a device that is pulled at that moment ends the stub.

## Plan

In order of importance:

1. `Broker`, with its proofs: done.
2. `LinuxTransfers`, with its proofs: done.
3. `DeviceRegistry`, with its proofs: done.
4. What the broker's pipes carry, as theorems (`BrokerService_proofs`): done.
5. `PermissionDialog`: windows.create, the dialog's two messages and the end of
   its window in any order, as what `DeviceRegistry` takes for `Choose` and
   `Cancel`; abstractly, every request is answered once.
6. `WindowsStub`, with its proofs: done. Left: the start-up, the database of the
   callback against `probe_existing` and several devices.
7. `LinuxHotplug` and `MacStub`, with their proofs: done.
8. Pure functions: descriptor iterator, filters, with reference definitions over
   bounded inputs.

Not modelled and why: message framing, the debug page and icons are I/O, and so
are notifications, but for whether the browser shows one (`DeviceRegistry`); the
blocklist is a table; the layout of udevd's packets and of descriptors is data that
the models take as parsed; `macos_sys.rs` declares functions of the system.
