----------------------------- MODULE LinuxTransfers ----------------------------
(***************************************************************************)
(* Who owns a USB transfer in the native stub on Linux: the run loop with  *)
(* its batches of epoll events, the URBs and their boxes (LinuxURBWrapper),*)
(* the timerfds of the extension's own control transfers and the one slot  *)
(* per device that a timeout finds its URB by (native-stub/src/main.rs and *)
(* linux.rs).  StubDevice has the permission checks and the interfaces,    *)
(* which do not matter here: a page's transfer may or may not be allowed.  *)
(*                                                                         *)
(* The kernel runs beside the stub: it finishes URBs, timers expire and    *)
(* devices go away between any two steps of the run loop.                  *)
(***************************************************************************)
EXTENDS Integers, Sequences, FiniteSets

CONSTANTS
  Devs,            \* devices, by session id
  Kinds,           \* which transfers pages ask for
  MaxXfers,        \* bound: transfers in a behaviour
  SyscallsMayFail, \* can a system call on a connected device fail?
  NoUrb            \* _linux_timeout_urb = None

ASSUME DevsAssumption == IsFiniteSet(Devs)
ASSUME KindsAssumption == Kinds \subseteq {"ctrl", "data", "isoc"}
ASSUME MaxXfersAssumption == MaxXfers \in Nat
ASSUME SyscallsAssumption == SyscallsMayFail \in BOOLEAN

\* A transfer.  "probe" is a control transfer of the extension itself, the
\* only kind that has a timeout.
Transfer == [id : Nat, dev : Devs, kind : {"probe", "ctrl", "data", "isoc"}]

ASSUME NoUrbAssumption == NoUrb \notin Transfer

VARIABLES
  \* in the extension
  stage,           \* "probing" while NewDevice awaits transfers, then
                   \* "registered", "forgotten" after UnplugDevice
  next_id,         \* supplies transaction ids
  asked,           \* usb_txns: transfers posted whose reply is not handled yet
  \* the pipes
  to_stub,         \* requests
  to_bg,           \* the transfers replied to, in order
  \* in the stub
  usb_devices,     \* devices in USBStubEngine.usb_devices
  timeout_urb,     \* USBDevice._linux_timeout_urb
  wrappers,        \* transfers whose boxed wrapper is on the heap
  timers,          \* transfers whose timerfd is open and in the epoll set
  epoll_buf,       \* events of this batch that are not handled yet
  \* in the kernel
  connection,      \* "connected", "disconnected", "removed"
  in_flight,       \* URBs being carried out
  completed,       \* URBs finished and not reaped
  expired          \* timers that have expired

extension == <<stage, next_id, asked>>
urb_vars == <<timeout_urb, wrappers, timers, in_flight, completed, expired>>
vars == <<extension, to_stub, to_bg, usb_devices, urb_vars, epoll_buf, connection>>

StdinEvent == [source |-> "stdin"]
TimerEvent(t) == [source |-> "timer", of |-> t]
UsbEvent(d, mask) == [source |-> "usb", of |-> d, mask |-> mask]

Events ==
  [source : {"stdin"}]
    \cup [source : {"timer"}, of : Transfer]
    \cup [source : {"usb"}, of : Devs, mask : SUBSET {"EPOLLOUT", "EPOLLHUP", "EPOLLERR"}]

TypeOK ==
  /\ stage \in [Devs -> {"probing", "registered", "forgotten"}]
  /\ next_id \in Nat \ {0}
  /\ asked \subseteq Transfer
  /\ to_stub \in Seq(Transfer)
  /\ to_bg \in Seq(Transfer)
  /\ usb_devices \subseteq Devs
  /\ timeout_urb \in [Devs -> Transfer \cup {NoUrb}]
  /\ wrappers \subseteq Transfer
  /\ timers \subseteq Transfer
  /\ epoll_buf \in Seq(Events)
  /\ connection \in [Devs -> {"connected", "disconnected", "removed"}]
  /\ in_flight \subseteq Transfer
  /\ completed \subseteq Transfer
  /\ expired \subseteq Transfer

\* Every device has been set up and announced.
Init ==
  /\ stage = [d \in Devs |-> "probing"]
  /\ next_id = 1
  /\ asked = {} /\ to_stub = <<>> /\ to_bg = <<>>
  /\ usb_devices = Devs
  /\ timeout_urb = [d \in Devs |-> NoUrb]
  /\ wrappers = {} /\ timers = {} /\ epoll_buf = <<>>
  /\ connection = [d \in Devs |-> "connected"]
  /\ in_flight = {} /\ completed = {} /\ expired = {}

Of(S, d) == {t \in S : t.dev = d}

--------------------------------------------------------------------------------
(* The extension.                                                           *)

Post(d, kind) ==
  LET t == [id |-> next_id, dev |-> d, kind |-> kind] IN
    /\ next_id <= MaxXfers
    /\ next_id' = next_id + 1
    /\ asked' = asked \cup {t}
    /\ to_stub' = Append(to_stub, t)
    /\ UNCHANGED <<stage, to_bg, usb_devices, urb_vars, epoll_buf, connection>>

\* Faulty variant: the descriptors are asked for without awaiting each other.
ProbeAtOnce(d) ==
  /\ stage[d] = "probing"
  /\ Post(d, "probe")

\* NewDevice asks for one descriptor after the other, awaiting each.
Probe(d) ==
  /\ stage[d] = "probing"
  /\ Of(asked, d) = {}
  /\ Post(d, "probe")

\* NewDevice has what it wants; from now on pages can use the device.
Register(d) ==
  /\ stage[d] = "probing"
  /\ Of(asked, d) = {}
  /\ stage' = [stage EXCEPT ![d] = "registered"]
  /\ UNCHANGED <<next_id, asked, to_stub, to_bg, usb_devices, urb_vars, epoll_buf,
                 connection>>

PageTransfer(d, kind) ==
  /\ stage[d] = "registered"
  /\ Post(d, kind)

\* A reply is handled: its transaction is taken out of usb_txns.
ReceiveReply ==
  /\ to_bg # <<>>
  /\ to_bg' = Tail(to_bg)
  /\ asked' = {t \in asked : t.id # Head(to_bg).id}
  /\ UNCHANGED <<stage, next_id, to_stub, usb_devices, urb_vars, epoll_buf, connection>>

\* UnplugDevice, which comes some time after the device is disconnected, is
\* ignored for a device that is not registered.
ReceiveUnplug(d) ==
  /\ stage[d] = "registered" /\ connection[d] # "connected"
  /\ stage' = [stage EXCEPT ![d] = "forgotten"]
  /\ UNCHANGED <<next_id, asked, to_stub, to_bg, usb_devices, urb_vars, epoll_buf,
                 connection>>

Extension ==
  \/ \E d \in Devs : Probe(d) \/ Register(d) \/ ReceiveUnplug(d)
  \/ \E d \in Devs, kind \in Kinds : PageTransfer(d, kind)
  \/ ReceiveReply

--------------------------------------------------------------------------------
(* The kernel.                                                              *)

\* The device answers.
Complete(t) ==
  /\ t \in in_flight
  /\ in_flight' = in_flight \ {t}
  /\ completed' = completed \cup {t}
  /\ UNCHANGED <<extension, to_stub, to_bg, usb_devices, timeout_urb, wrappers,
                 timers, expired, epoll_buf, connection>>

Expire(t) ==
  /\ t \in timers \ expired
  /\ expired' = expired \cup {t}
  /\ UNCHANGED <<extension, to_stub, to_bg, usb_devices, timeout_urb, wrappers,
                 timers, in_flight, completed, epoll_buf, connection>>

\* The plug is pulled: system calls on the device fail from now on.
Disconnect(d) ==
  /\ connection[d] = "connected"
  /\ connection' = [connection EXCEPT ![d] = "disconnected"]
  /\ UNCHANGED <<extension, to_stub, to_bg, usb_devices, urb_vars, epoll_buf>>

\* The kernel ends what is still in flight and is through with the device.
Remove(d) ==
  /\ connection[d] = "disconnected"
  /\ connection' = [connection EXCEPT ![d] = "removed"]
  /\ in_flight' = in_flight \ Of(in_flight, d)
  /\ completed' = completed \cup Of(in_flight, d)
  /\ UNCHANGED <<extension, to_stub, to_bg, usb_devices, timeout_urb, wrappers,
                 timers, expired, epoll_buf>>

Kernel ==
  \/ \E t \in in_flight : Complete(t)
  \/ \E t \in timers : Expire(t)
  \/ \E d \in Devs : Disconnect(d) \/ Remove(d)

--------------------------------------------------------------------------------
(* The run loop: fetch a batch of events, handle them one after the other.  *)

UsbMask(d) ==
  (IF Of(completed, d) # {} THEN {"EPOLLOUT"} ELSE {})
    \cup (IF connection[d] # "connected" THEN {"EPOLLHUP"} ELSE {})
    \cup (IF connection[d] = "removed" THEN {"EPOLLERR"} ELSE {})

\* What epoll_wait can report.  Nobody reads a timerfd: it is reported until
\* it is closed.
Ready ==
  {e \in {StdinEvent} : to_stub # <<>>}
    \cup {TimerEvent(t) : t \in expired}
    \cup {UsbEvent(d, UsbMask(d)) : d \in {d \in usb_devices : UsbMask(d) # {}}}

\* The events that are ready, in some order, as many as the buffer has room for.
EpollWait ==
  /\ epoll_buf = <<>> /\ Ready # {}
  /\ \E n \in 1 .. Cardinality(Ready) :
       \E batch \in [1 .. n -> Ready] :
         /\ \A j, k \in 1 .. n : j # k => batch[j] # batch[k]
         /\ epoll_buf' = batch
  /\ UNCHANGED <<extension, to_stub, to_bg, usb_devices, urb_vars, connection>>

Handling(source) == epoll_buf # <<>> /\ Head(epoll_buf).source = source

\* Faulty variant: stdin is read on until it is empty, which blocks.
RequestedOnAndOn(kinds) ==
  /\ Handling("stdin")
  /\ Head(to_stub).kind \in kinds
  /\ to_stub' = Tail(to_stub)
  /\ UNCHANGED <<extension, usb_devices, connection, epoll_buf>>

\* The request at the head of stdin is of one of these kinds.
Requested(kinds) ==
  /\ Handling("stdin")
  /\ Head(to_stub).kind \in kinds
  /\ to_stub' = Tail(to_stub)
  /\ epoll_buf' = Tail(epoll_buf)
  /\ UNCHANGED <<extension, usb_devices, connection>>

\* No such device any more, or the device, interface or endpoint may not be used.
Refuse ==
  /\ Requested({"probe", "ctrl", "data", "isoc"})
  /\ Head(to_stub).dev \in usb_devices => Head(to_stub).kind # "probe"
  /\ to_bg' = Append(to_bg, Head(to_stub))
  /\ UNCHANGED urb_vars

SyscallResults(d) ==
  IF connection[d] # "connected" THEN {FALSE}
  ELSE IF SyscallsMayFail THEN BOOLEAN ELSE {TRUE}

\* Faulty variants: the box is dropped at the end of the function; the error
\* is not reported.
SubmitDropsBox(t) ==
  /\ \E ok \in SyscallResults(t.dev) :
       /\ in_flight' = IF ok THEN in_flight \cup {t} ELSE in_flight
       /\ to_bg' = IF ok THEN to_bg ELSE Append(to_bg, t)
  /\ UNCHANGED <<wrappers, completed, expired>>
SubmitSilently(t) ==
  /\ wrappers' = wrappers \cup {t}
  /\ \E ok \in SyscallResults(t.dev) :
       in_flight' = IF ok THEN in_flight \cup {t} ELSE in_flight
  /\ UNCHANGED <<completed, expired, to_bg>>

\* SUBMITURB of a boxed wrapper.  When it fails, the box stays where it is.
Submit(t) ==
  /\ wrappers' = wrappers \cup {t}
  /\ \E ok \in SyscallResults(t.dev) :
       /\ in_flight' = IF ok THEN in_flight \cup {t} ELSE in_flight
       /\ to_bg' = IF ok THEN to_bg ELSE Append(to_bg, t)
  /\ UNCHANGED <<completed, expired>>

\* timerfd_create, timerfd_settime and epoll_ctl, which have nothing to do with
\* the device; if one fails the transfer goes ahead without a timeout.
ArmTimer(t) ==
  \E ok \in IF SyscallsMayFail THEN BOOLEAN ELSE {TRUE} :
    /\ timers' = IF ok THEN timers \cup {t} ELSE timers
    /\ timeout_urb' = IF ok THEN [timeout_urb EXCEPT ![t.dev] = t] ELSE timeout_urb

\* Faulty variant: the slot is left as it was.
CtrlXferSlotKept ==
  /\ Requested({"probe", "ctrl"})
  /\ LET t == Head(to_stub) IN
       /\ t.dev \in usb_devices
       /\ timers' = IF t.kind = "probe" THEN timers \cup {t} ELSE timers
       /\ UNCHANGED timeout_urb
       /\ Submit(t)

CtrlXfer ==
  /\ Requested({"probe", "ctrl"})
  /\ LET t == Head(to_stub) IN
       /\ t.dev \in usb_devices
       /\ IF t.kind = "probe" THEN ArmTimer(t) ELSE UNCHANGED <<timers, timeout_urb>>
       /\ Submit(t)

DataXfer ==
  /\ Requested({"data"})
  /\ Head(to_stub).dev \in usb_devices
  /\ Submit(Head(to_stub))
  /\ UNCHANGED <<timers, timeout_urb>>

IsocXfer ==
  /\ Requested({"isoc"})
  /\ Head(to_stub).dev \in usb_devices
  /\ Submit(Head(to_stub))
  /\ UNCHANGED <<timers, timeout_urb>>

\* DISCARDURB finds the URB in flight on a connected device, or fails.
Discardable(u) == u \in in_flight /\ connection[u.dev] = "connected"

\* Faulty variant: whatever the slot holds is taken for an URB in flight.
TimeoutUnchecked ==
  /\ Handling("timer")
  /\ LET d == Head(epoll_buf).of.dev IN
       /\ in_flight' = in_flight \ {timeout_urb[d]}
       /\ completed' = completed \cup {timeout_urb[d]}
       /\ timeout_urb' = [timeout_urb EXCEPT ![d] = NoUrb]
  /\ epoll_buf' = Tail(epoll_buf)
  /\ UNCHANGED <<extension, to_stub, to_bg, usb_devices, wrappers, timers, expired,
                 connection>>

\* A timer's event: discard what the slot of its device holds.  The timer may
\* be closed and the device gone since the batch was fetched.
Timeout ==
  /\ Handling("timer")
  /\ LET d == Head(epoll_buf).of.dev
         u == timeout_urb[d]
     IN  IF d \in usb_devices /\ u # NoUrb /\ Discardable(u)
         THEN /\ in_flight' = in_flight \ {u}
              /\ completed' = completed \cup {u}
              /\ timeout_urb' = [timeout_urb EXCEPT ![d] = NoUrb]
         ELSE UNCHANGED <<in_flight, completed, timeout_urb>>
  /\ epoll_buf' = Tail(epoll_buf)
  /\ UNCHANGED <<extension, to_stub, to_bg, usb_devices, wrappers, timers, expired,
                 connection>>

\* The event at hand makes the loop look for URBs of device d to reap.
Reaping(d) ==
  /\ Handling("usb") /\ Head(epoll_buf).of = d
  /\ "EPOLLOUT" \in Head(epoll_buf).mask
  /\ d \in usb_devices

\* One round of the reaping loop: the slot is cleared if it holds the URB, the
\* reply is written, and the box is dropped and its timer closed with it.
Reap(t) ==
  /\ Reaping(t.dev) /\ t \in completed
  /\ completed' = completed \ {t}
  /\ wrappers' = wrappers \ {t}
  /\ timers' = timers \ {t} /\ expired' = expired \ {t}
  /\ timeout_urb' = IF timeout_urb[t.dev] = t
                    THEN [timeout_urb EXCEPT ![t.dev] = NoUrb] ELSE timeout_urb
  /\ to_bg' = Append(to_bg, t)
  /\ UNCHANGED <<extension, to_stub, usb_devices, in_flight, epoll_buf, connection>>

\* Faulty variant: EPOLLERR is handled without reaping first.
UsbEventErrFirst ==
  /\ Handling("usb")
  /\ LET e == Head(epoll_buf) IN
       /\ Reaping(e.of) /\ "EPOLLERR" \notin e.mask => Of(completed, e.of) = {}
       /\ usb_devices' = IF "EPOLLERR" \in e.mask THEN usb_devices \ {e.of} ELSE usb_devices
  /\ epoll_buf' = Tail(epoll_buf)
  /\ UNCHANGED <<extension, to_stub, to_bg, urb_vars, connection>>

\* Nothing (more) to reap: a device that is fully gone is forgotten, which
\* closes it.  The UnplugDevice message of EPOLLHUP is ReceiveUnplug's.
UsbEventDone ==
  /\ Handling("usb")
  /\ LET e == Head(epoll_buf) IN
       /\ Reaping(e.of) => Of(completed, e.of) = {}
       /\ usb_devices' = IF "EPOLLERR" \in e.mask THEN usb_devices \ {e.of} ELSE usb_devices
  /\ epoll_buf' = Tail(epoll_buf)
  /\ UNCHANGED <<extension, to_stub, to_bg, urb_vars, connection>>

Handle ==
  \/ Refuse \/ CtrlXfer \/ DataXfer \/ IsocXfer \/ Timeout
  \/ \E t \in completed : Reap(t)
  \/ UsbEventDone

RunLoop == EpollWait \/ Handle

Next == Extension \/ Kernel \/ RunLoop

Spec == Init /\ [][Next]_vars

\* The extension and the run loop go on, the kernel completes a removal, timers
\* expire, and epoll_wait reports what stays ready in turn, whatever room its
\* buffer has.  A device may never answer, and nobody must post, register or
\* pull the plug.
Reports(source, d) ==
  /\ EpollWait
  /\ \E k \in DOMAIN epoll_buf' :
       /\ epoll_buf'[k].source = source
       /\ source = "timer" => epoll_buf'[k].of.dev = d
       /\ source = "usb" => epoll_buf'[k].of = d

Fairness ==
  /\ WF_vars(ReceiveReply)
  /\ WF_vars(Handle)
  /\ WF_vars(\E t \in timers : Expire(t))
  /\ \A d \in Devs : WF_vars(Remove(d))
  /\ \A d \in Devs, source \in {"stdin", "timer", "usb"} : SF_vars(Reports(source, d))

FairSpec == Spec /\ Fairness

--------------------------------------------------------------------------------
(* Properties.                                                              *)

\* What the slot points to has not been freed, belongs to the device and still
\* has its timer: DISCARDURB (main.rs:3579) never gets a dangling pointer, also
\* when submissions fail or several transfers with a timeout overlap.
SlotOwned ==
  \A d \in Devs : timeout_urb[d] # NoUrb =>
    timeout_urb[d] \in wrappers \cap timers /\ timeout_urb[d].dev = d

\* The box of a transfer, and with it the buffer and the usercontext pointer,
\* lives until the kernel has handed the URB back, which it does once
\* (main.rs:3634-3650 turns the pointer back into the box that owns it).
KernelHasBoxes ==
  in_flight \cup completed \subseteq wrappers /\ in_flight \cap completed = {}

\* No raw pointer outlives its box, neither the slot's nor the kernel's
\* (linux.rs:247-285, main.rs:3579, 3634).
BoxesOutlive == SlotOwned /\ KernelHasBoxes

\* Reading stdin, which blocks, never finds it empty: one stale or repeated
\* event and all devices would stand still (main.rs:3503-3508).
StdinNeverBlocks == Handling("stdin") => to_stub # <<>>

\* The transfer of the timer event that is being handled.
TimerHandled == Head(epoll_buf).of

\* A timeout discards the transfer it was set up for and no other, however old
\* its event is (linux.rs:272-274: the slot holds "the appropriate (kernel) URB").
TimeoutHitsOwn ==
  [][Timeout => \A t \in in_flight : t \notin in_flight' => t = TimerHandled]_vars

\* Between the two pipes every transfer is carried out once and answered once.
Service == INSTANCE RequestReply WITH
  used <- 1 .. next_id - 1,
  asked <- {t.id : t \in in_flight \cup completed}
             \cup {to_stub[k].id : k \in DOMAIN to_stub},
  answered <- {to_bg[k].id : k \in DOMAIN to_bg}
ServiceSpec == Service!Spec

\* Probing a device that never answers comes to an end all the same: each of
\* the extension's own transfers gets its reply.
ProbesAnswered ==
  \A d \in Devs :
    (stage[d] = "probing" /\ Of(asked, d) # {}) ~> (Of(asked, d) = {})

\* Once the kernel is through with a device all its transfers are answered,
\* whether they were still on stdin, in flight, completed, or in mid-timeout.
RemovalAnswersAll ==
  \A n \in 1 .. MaxXfers :
    (\E t \in asked : t.id = n /\ connection[t.dev] = "removed")
      ~> ~(\E t \in asked : t.id = n)

================================================================================
