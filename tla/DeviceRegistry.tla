----------------------------- MODULE DeviceRegistry ----------------------------
(***************************************************************************)
(* Which devices there are and which of them a page may see: enumeration,  *)
(* unplugging, permissions and the handles pages know devices by           *)
(* (awawausb.js; page.js for the page's map of handles).  Background has   *)
(* what a page does with a device once it has its handle.                  *)
(*                                                                         *)
(* NewDevice awaits control transfers, and a notification if the device    *)
(* has a landing page, before it registers the device; requestDevice       *)
(* awaits the user.  Devices and pages go away meanwhile.                  *)
(***************************************************************************)
EXTENDS Integers, Sequences, FiniteSets

CONSTANTS
  Pages,           \* pages that have connected
  Sids,            \* session ids: a new one each time a device is plugged in
  Ids,             \* vendor id, product id and serial number, as one value
  Unserial,        \* those of devices without a serial number
  MaxProbes,       \* bound: transfers NewDevice awaits for a device, each of
                   \* which may stand for several in a row
  MaxRequests,     \* bound: calls of requestDevice
  NoHandle         \* undefined

ASSUME PagesAssumption == IsFiniteSet(Pages)
ASSUME IdsAssumption == Unserial \subseteq Ids
ASSUME ProbesAssumption == MaxProbes \in Nat
ASSUME RequestsAssumption == MaxRequests \in Nat
ASSUME NoHandleAssumption == NoHandle \notin Nat

VARIABLES
  \* the stub and the pipe from it
  connection,      \* "unused", "connected", "hup", "gone"
  ids_of,          \* what a plugged device says it is
  to_bg,           \* messages to the background script
  asked,           \* devices with a transfer of NewDevice under way
  \* the background script
  probes,          \* transfers NewDevice has asked for, while it runs
  notifying,       \* devices whose NewDevice awaits notifications.create
  looping,         \* a handler has entered a loop without end
  usb_devices,     \* devices registered
  page_devices,    \* per device, the PerPageUSBDevices that refer to it
  requests,        \* calls of requestDevice that wait for the user
  next_request,    \* counts them
  pages,           \* PerPageState.#pages
  \* PerPageState, which a running handler keeps after the page is gone
  allowed_keys,    \* #allowed_devices: its keys
  allowed_handles, \* #allowed_devices: the handles under each key
  opened_devices,  \* handle to device
  sid_to_handle,   \* device to handle
  next_device_id,  \* supplies handles
  \* the page
  view,            \* dev_handle_to_obj_map: the handles it has objects for
  \* history, which the system does not have
  granted,         \* what the user has let the page have
  forgotten,       \* the handles it has called forget() on
  unannounced      \* devices whose notification the browser has refused

stub_vars == <<connection, ids_of, asked>>
new_device_vars == <<probes, notifying, looping, unannounced>>
handle_vars == <<page_devices, allowed_keys, allowed_handles, opened_devices,
                 sid_to_handle, next_device_id, view>>
request_vars == <<requests, next_request, granted>>
vars == <<stub_vars, to_bg, new_device_vars, usb_devices, handle_vars, request_vars, pages,
          forgotten>>

Message == [type : {"NewDevice", "UnplugDevice", "RequestComplete"}, sid : Sids]
Msg(type, s) == [type |-> type, sid |-> s]

Allowed == [ids : Ids, handle : Nat]
Opened == [handle : Nat, sid : Sids]
PerPageUSBDevice == [page : Pages, handle : Nat]
Request == [id : Nat, page : Pages, possible : SUBSET Sids]

TypeOK ==
  /\ connection \in [Sids -> {"unused", "connected", "hup", "gone"}]
  /\ ids_of \in [Sids -> Ids]
  /\ to_bg \in Seq(Message)
  /\ asked \subseteq Sids
  /\ probes \in [Sids -> Nat]
  /\ notifying \subseteq Sids
  /\ looping \in BOOLEAN
  /\ usb_devices \subseteq Sids
  /\ page_devices \in [Sids -> SUBSET PerPageUSBDevice]
  /\ requests \subseteq Request
  /\ next_request \in Nat
  /\ pages \subseteq Pages
  /\ allowed_keys \in [Pages -> SUBSET Ids]
  /\ allowed_handles \in [Pages -> SUBSET Allowed]
  /\ opened_devices \in [Pages -> SUBSET Opened]
  /\ sid_to_handle \in [Pages -> [Sids -> Nat \cup {NoHandle}]]
  /\ next_device_id \in [Pages -> Nat]
  /\ view \in [Pages -> SUBSET Nat]
  /\ granted \in [Pages -> SUBSET Ids]
  /\ forgotten \in [Pages -> SUBSET Nat]
  /\ unannounced \subseteq Sids

\* What a device will say it is does not matter before it is plugged in.
Init ==
  /\ connection = [s \in Sids |-> "unused"]
  /\ ids_of \in [Sids -> Ids]
  /\ to_bg = <<>> /\ asked = {}
  /\ probes = [s \in Sids |-> 0]
  /\ notifying = {} /\ looping = FALSE
  /\ usb_devices = {}
  /\ page_devices = [s \in Sids |-> {}]
  /\ requests = {} /\ next_request = 0
  /\ pages = Pages
  /\ allowed_keys = [p \in Pages |-> {}]
  /\ allowed_handles = [p \in Pages |-> {}]
  /\ opened_devices = [p \in Pages |-> {}]
  /\ sid_to_handle = [p \in Pages |-> [s \in Sids |-> NoHandle]]
  /\ next_device_id = [p \in Pages |-> 0]
  /\ view = [p \in Pages |-> {}]
  /\ granted = [p \in Pages |-> {}]
  /\ forgotten = [p \in Pages |-> {}]
  /\ unannounced = {}

--------------------------------------------------------------------------------
(* The stub.                                                                *)

Plug(s) ==
  /\ connection[s] = "unused"
  /\ connection' = [connection EXCEPT ![s] = "connected"]
  /\ to_bg' = Append(to_bg, Msg("NewDevice", s))
  /\ UNCHANGED <<ids_of, asked, new_device_vars, usb_devices, handle_vars, request_vars, pages,
                 forgotten>>

\* UnplugDevice is written for every event with EPOLLHUP, the last of which
\* comes with EPOLLERR.  Bound: two events.
Unplug(s) ==
  /\ connection[s] \in {"connected", "hup"}
  /\ \E c \in {"hup", "gone"} \ {connection[s]} :
       connection' = [connection EXCEPT ![s] = c]
  /\ to_bg' = Append(to_bg, Msg("UnplugDevice", s))
  /\ UNCHANGED <<ids_of, asked, new_device_vars, usb_devices, handle_vars, request_vars, pages,
                 forgotten>>

\* A transfer of NewDevice is answered, with data or an error.
Answer(s) ==
  /\ s \in asked
  /\ asked' = asked \ {s}
  /\ to_bg' = Append(to_bg, Msg("RequestComplete", s))
  /\ UNCHANGED <<connection, ids_of, new_device_vars, usb_devices, handle_vars, request_vars,
                 pages, forgotten>>

Stub == \E s \in Sids : Plug(s) \/ Unplug(s) \/ Answer(s)

--------------------------------------------------------------------------------
(* Enumeration: NewDevice and UnplugDevice.                                 *)

\* Every page of P gets a new PerPageUSBDevice for device s.
AddHandles(P, s) ==
  /\ next_device_id' =
       [p \in Pages |-> IF p \in P THEN next_device_id[p] + 1 ELSE next_device_id[p]]
  /\ opened_devices' =
       [p \in Pages |-> opened_devices[p] \cup
          (IF p \in P THEN {[handle |-> next_device_id[p], sid |-> s]} ELSE {})]
  /\ allowed_handles' =
       [p \in Pages |-> allowed_handles[p] \cup
          (IF p \in P THEN {[ids |-> ids_of[s], handle |-> next_device_id[p]]} ELSE {})]
  /\ sid_to_handle' =
       [p \in Pages |-> IF p \in P THEN [sid_to_handle[p] EXCEPT ![s] = next_device_id[p]]
                        ELSE sid_to_handle[p]]
  /\ page_devices' =
       [page_devices EXCEPT ![s] =
          @ \cup {[page |-> p, handle |-> next_device_id[p]] : p \in P}]

\* The pages that are told of the new device.
MayHave(s) == {p \in pages : ids_of[s] \in allowed_keys[p]}

\* NewDevice for the device is at its end.
Ended(s) ==
  /\ probes' = [probes EXCEPT ![s] = 0]
  /\ notifying' = notifying \ {s}

\* Nothing is left to await: register the device and inject it into pages.
Register(s) ==
  /\ usb_devices' = usb_devices \cup {s}
  /\ AddHandles(MayHave(s), s)
  /\ view' = [p \in Pages |-> IF p \in MayHave(s) THEN view[p] \cup {next_device_id[p]}
                              ELSE view[p]]
  /\ UNCHANGED allowed_keys
  /\ Ended(s)
  /\ UNCHANGED <<asked, looping, unannounced>>

\* Faulty variant: the device is registered before the first transfer.
AwaitRegistered(s) ==
  /\ probes[s] < MaxProbes
  /\ probes' = [probes EXCEPT ![s] = @ + 1]
  /\ asked' = asked \cup {s}
  /\ usb_devices' = usb_devices \cup {s}
  /\ UNCHANGED <<handle_vars, notifying, looping, unannounced>>

\* Await one more transfer.
Await(s) ==
  /\ probes[s] < MaxProbes
  /\ probes' = [probes EXCEPT ![s] = @ + 1]
  /\ asked' = asked \cup {s}
  /\ UNCHANGED <<usb_devices, handle_vars, notifying, looping, unannounced>>

\* The device names a landing page: await the notification about it.
Announce(s) ==
  /\ notifying' = notifying \cup {s}
  /\ UNCHANGED <<asked, probes, looping, unannounced, usb_devices, handle_vars>>

\* A capability of length 0 in the device's BOS descriptor: the search for the
\* WebUSB capability never gets past it.
SearchForever ==
  /\ looping' = TRUE
  /\ UNCHANGED <<asked, probes, notifying, unannounced, usb_devices, handle_vars>>

Received(type, s) ==
  /\ ~looping
  /\ to_bg # <<>> /\ Head(to_bg) = Msg(type, s)
  /\ to_bg' = Tail(to_bg)
  /\ UNCHANGED <<connection, ids_of, request_vars, pages, forgotten>>

NewDevice(s) == Received("NewDevice", s) /\ (Await(s) \/ Register(s))

\* Faulty variant: a failed transfer is not caught and ends NewDevice.
ProbedUncaught(s) ==
  /\ Received("RequestComplete", s)
  /\ \/ Await(s) \/ Announce(s) \/ SearchForever \/ Register(s)
     \/ Ended(s) /\ UNCHANGED <<asked, looping, unannounced, usb_devices, handle_vars>>

\* A transfer that fails, or returns what is not the descriptor, is done
\* without: the device is called less, or has no landing page.
Probed(s) ==
  /\ Received("RequestComplete", s)
  /\ Await(s) \/ Announce(s) \/ SearchForever \/ Register(s)

\* The browser has shown the notification.
Notified(s) ==
  /\ ~looping /\ s \in notifying
  /\ Register(s)
  /\ UNCHANGED <<connection, ids_of, to_bg, request_vars, pages, forgotten>>

\* The browser refuses it.  Nothing catches that: NewDevice ends.
NotificationRefused(s) ==
  /\ ~looping /\ s \in notifying
  /\ Ended(s)
  /\ unannounced' = unannounced \cup {s}
  /\ UNCHANGED <<stub_vars, to_bg, looping, usb_devices, handle_vars,
                 request_vars, pages, forgotten>>

Browser == \E s \in Sids : Notified(s) \/ NotificationRefused(s)

\* The handles of device s in page p that UnplugDevice gets to see.
RefsIn(p, s) == {r.handle : r \in {r \in page_devices[s] : r.page = p}}
\* Those of them the page has not called forget() on.
AllowedRefs(p, s) ==
  {h \in RefsIn(p, s) : [ids |-> ids_of[s], handle |-> h] \in allowed_handles[p]}

\* The permissions of each page without those handles.
Disallow(s) ==
  [p \in Pages |-> {a \in allowed_handles[p] :
                      ~(a.ids = ids_of[s] /\ a.handle \in AllowedRefs(p, s))}]

\* Faulty variant: permissions never end.
EndedKeysNone(p, s) == {}

\* Permission for a device without a serial number ends with its last handle.
EndedKeys(p, s) ==
  {i \in {ids_of[s]} \cap Unserial :
     AllowedRefs(p, s) # {} /\ \A a \in Disallow(s)[p] : a.ids # i}

\* Faulty variant: the page is told only when the permission ends.
InvalidateSilently(s) ==
  /\ opened_devices' =
       [p \in Pages |-> {o \in opened_devices[p] : o.handle \notin RefsIn(p, s)}]
  /\ sid_to_handle' =
       [p \in Pages |-> IF RefsIn(p, s) = {} THEN sid_to_handle[p]
                        ELSE [sid_to_handle[p] EXCEPT ![s] = NoHandle]]
  /\ allowed_handles' = Disallow(s)
  /\ allowed_keys' = [p \in Pages |-> allowed_keys[p] \ EndedKeys(p, s)]
  /\ view' = [p \in Pages |-> IF p \in pages /\ EndedKeys(p, s) # {}
                              THEN view[p] \ AllowedRefs(p, s) ELSE view[p]]
  /\ page_devices' = [page_devices EXCEPT ![s] = {}]
  /\ UNCHANGED next_device_id

\* invalidate_device in every page that has the device.
Invalidate(s) ==
  /\ opened_devices' =
       [p \in Pages |-> {o \in opened_devices[p] : o.handle \notin RefsIn(p, s)}]
  /\ sid_to_handle' =
       [p \in Pages |-> IF RefsIn(p, s) = {} THEN sid_to_handle[p]
                        ELSE [sid_to_handle[p] EXCEPT ![s] = NoHandle]]
  /\ allowed_handles' = Disallow(s)
  /\ allowed_keys' = [p \in Pages |-> allowed_keys[p] \ EndedKeys(p, s)]
  /\ view' = [p \in Pages |-> IF p \in pages THEN view[p] \ AllowedRefs(p, s) ELSE view[p]]
  /\ page_devices' = [page_devices EXCEPT ![s] = {}]
  /\ UNCHANGED next_device_id

\* Faulty variant: a device that pages still refer to is not deleted.
UnplugDeviceInUse(s) ==
  /\ Received("UnplugDevice", s)
  /\ IF s \in usb_devices
     THEN /\ Invalidate(s)
          /\ usb_devices' = IF page_devices[s] = {} THEN usb_devices \ {s} ELSE usb_devices
     ELSE UNCHANGED <<handle_vars, usb_devices>>
  /\ UNCHANGED <<asked, new_device_vars>>

\* A device that is not registered (any more, or yet) is ignored.
UnplugDevice(s) ==
  /\ Received("UnplugDevice", s)
  /\ IF s \in usb_devices
     THEN Invalidate(s) /\ usb_devices' = usb_devices \ {s}
     ELSE UNCHANGED <<handle_vars, usb_devices>>
  /\ UNCHANGED <<asked, new_device_vars>>

BgReceive == \E s \in Sids : NewDevice(s) \/ Probed(s) \/ UnplugDevice(s)

--------------------------------------------------------------------------------
(* Pages.                                                                   *)

\* The dialog offers what is registered (and passes the filters); with
\* nothing to offer the call fails at once.
RequestDevice(p) ==
  /\ p \in pages /\ usb_devices # {} /\ next_request < MaxRequests
  /\ requests' = requests \cup
       {[id |-> next_request, page |-> p, possible |-> usb_devices]}
  /\ next_request' = next_request + 1
  /\ UNCHANGED <<stub_vars, to_bg, new_device_vars, usb_devices, handle_vars, granted, pages,
                 forgotten>>

\* open_device: the handle the page has for the device, else a new one.
OpenDevice(p, s) ==
  IF sid_to_handle[p][s] = NoHandle /\ s \in usb_devices
  THEN /\ AddHandles({p}, s)
       /\ allowed_keys' = [allowed_keys EXCEPT ![p] = @ \cup {ids_of[s]}]
  ELSE UNCHANGED <<page_devices, allowed_keys, allowed_handles, opened_devices,
                   sid_to_handle, next_device_id>>

\* Faulty variant: the page is answered without a look at the handle.
ChooseUnchecked(r, s) ==
  /\ s \in r.possible
  /\ requests' = requests \ {r}
  /\ granted' = [granted EXCEPT ![r.page] = @ \cup {ids_of[s]}]
  /\ OpenDevice(r.page, s)
  /\ view' = [view EXCEPT ![r.page] = @ \cup {sid_to_handle'[r.page][s]}]
  /\ UNCHANGED <<stub_vars, to_bg, new_device_vars, usb_devices, next_request, pages, forgotten>>

\* The user chooses a device, which may be gone by now, as the page may be.
Choose(r, s) ==
  /\ s \in r.possible
  /\ requests' = requests \ {r}
  /\ granted' = [granted EXCEPT ![r.page] = @ \cup {ids_of[s]}]
  /\ OpenDevice(r.page, s)
  /\ view' = IF r.page \in pages /\ sid_to_handle'[r.page][s] # NoHandle
             THEN [view EXCEPT ![r.page] = @ \cup {sid_to_handle'[r.page][s]}]
             ELSE view
  /\ UNCHANGED <<stub_vars, to_bg, new_device_vars, usb_devices, next_request, pages, forgotten>>

Cancel(r) ==
  /\ requests' = requests \ {r}
  /\ UNCHANGED <<stub_vars, to_bg, new_device_vars, usb_devices, handle_vars, next_request,
                 granted, pages, forgotten>>

\* forget() takes the handle off the permissions and does nothing else.
Forget(p, h) ==
  /\ p \in pages /\ h \in view[p]
  /\ allowed_handles' = [allowed_handles EXCEPT ![p] = {a \in @ : a.handle # h}]
  /\ forgotten' = [forgotten EXCEPT ![p] = @ \cup {h}]
  /\ UNCHANGED <<stub_vars, to_bg, new_device_vars, usb_devices, page_devices, allowed_keys,
                 opened_devices, sid_to_handle, next_device_id, view, request_vars, pages>>

PageGone(p) ==
  /\ p \in pages
  /\ pages' = pages \ {p}
  /\ page_devices' =
       [s \in Sids |->
          IF s \in usb_devices
          THEN {r \in page_devices[s] :
                  ~(r.page = p /\ [handle |-> r.handle, sid |-> s] \in opened_devices[p])}
          ELSE page_devices[s]]
  /\ UNCHANGED <<stub_vars, to_bg, new_device_vars, usb_devices, allowed_keys, allowed_handles,
                 opened_devices, sid_to_handle, next_device_id, view, request_vars,
                 forgotten>>

\* What pages and users do takes the background script to handle it.
Page ==
  /\ ~looping
  /\ \/ \E p \in Pages : RequestDevice(p) \/ PageGone(p) \/ \E h \in view[p] : Forget(p, h)
     \/ \E r \in requests : Cancel(r) \/ \E s \in r.possible : Choose(r, s)

--------------------------------------------------------------------------------

Next == Stub \/ BgReceive \/ Browser \/ Page

Spec == Init /\ [][Next]_vars

\* The background script handles its messages unless it loops, the browser
\* settles what it has promised, and the stub answers every transfer of
\* NewDevice (LinuxTransfers!ProbesAnswered).
Fairness ==
  /\ WF_vars(BgReceive)
  /\ WF_vars(Browser)
  /\ WF_vars(\E s \in Sids : Answer(s))

FairSpec == Spec /\ Fairness

--------------------------------------------------------------------------------
(* Properties.                                                              *)

\* The two maps of a page are inverse to each other: a device has one handle
\* in a page, whether it was requested or injected, and twice or not
\* (awawausb.js:340: "make sure we don't open duplicate devices").
HandlesAgree ==
  \A p \in Pages :
    /\ \A s \in Sids : sid_to_handle[p][s] # NoHandle =>
                         [handle |-> sid_to_handle[p][s], sid |-> s] \in opened_devices[p]
    /\ \A o \in opened_devices[p] : sid_to_handle[p][o.sid] = o.handle
    /\ \A o1, o2 \in opened_devices[p] : o1.handle = o2.handle => o1 = o2

\* Every handle of a connected page is known to its device, so that
\* UnplugDevice, which goes by page_devices, misses none.
BackRefs ==
  \A p \in pages : \A o \in opened_devices[p] :
    o.sid \in usb_devices /\ [page |-> p, handle |-> o.handle] \in page_devices[o.sid]

\* Handles are one to one with a page's devices and known to them
\* (awawausb.js:295-365, 407-433).
HandlesMatch == HandlesAgree /\ BackRefs

\* The page has an object for each handle it was given, and no object outlives
\* its handle unless the page has called forget() on it.
ViewFollows ==
  \A p \in pages :
    LET handles == {o.handle : o \in opened_devices[p]} IN
      handles \subseteq view[p] /\ view[p] \ handles \subseteq forgotten[p]

\* A page never gets at a device the user has not let it have: this one or one
\* with the same ids and serial number (architecture.md:78).
Consent ==
  \A p \in Pages : \A o \in opened_devices[p] : ids_of[o.sid] \in granted[p]

\* Consent to a device without a serial number ends with the last of its
\* handles, unless the page has called forget() (awawausb.js:378-385).
UnserialConsentEnds ==
  \A p \in Pages : \A i \in allowed_keys[p] \cap Unserial :
    (\E a \in allowed_handles[p] : a.ids = i) \/ forgotten[p] # {}

\* What a page may use is what the user let it have, for as long as that holds
\* (awawausb.js:302-335, 367-391).
ConsentHolds == Consent /\ UnserialConsentEnds

\* Every device plugged in is registered, whenever it is pulled and however many
\* of NewDevice's transfers fail, unless the browser refuses the notification
\* about it (awawausb.js:1567, awaited outside any try).  A script that has
\* entered the loop at awawausb.js:1491 registers nothing more.
Enumerated ==
  \A s \in Sids :
    (connection[s] = "connected") ~> (s \in usb_devices \/ s \in unannounced \/ looping)

\* A device registered while it was there leaves the registry once it is gone,
\* as long as the script handles messages.
GoneLeaves ==
  \A s \in Sids :
    [](s \in usb_devices /\ connection[s] = "connected" =>
         [](connection[s] = "gone" => <>(s \notin usb_devices \/ looping)))

\* Devices that are gone, and of which no message is on its way any more.
Ghosts ==
  {s \in Sids : connection[s] = "gone" /\ \A k \in DOMAIN to_bg : to_bg[k].sid # s}

\* What getDevices returns is there, for the page is "actively notified when
\* devices are unplugged" (page.js:934).
NoGhosts ==
  \A p \in pages : \A o \in opened_devices[p] :
    o.handle \in forgotten[p] \/ o.sid \notin Ghosts

================================================================================
