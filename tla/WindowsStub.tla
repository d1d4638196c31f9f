------------------------------- MODULE WindowsStub ------------------------------
(***************************************************************************)
(* The native stub on Windows (native-stub/src/main.rs, usb_windows.rs,    *)
(* stdio_windows.rs and the notifications of enum_windows.rs) with one     *)
(* device.  There are three threads, and callbacks of the system:          *)
(*   - the reader takes messages off stdin, sends them through a channel   *)
(*     and sets an event;                                                  *)
(*   - a callback sends interfaces that come and go through another        *)
(*     channel and sets another event;                                     *)
(*   - the main thread waits for the two events, carries requests out and  *)
(*     counts the references to the handles they need;                     *)
(*   - the IOCP thread answers the transfers that complete.                *)
(*                                                                         *)
(* A handle can only be opened to a driver, which covers several           *)
(* interfaces if the device associates them: through the path of the first *)
(* of them, the root.  Nothing but the main thread looks at what a request *)
(* asks for, so a request is its id, and the choice between the operations *)
(* is made where it is carried out.                                        *)
(***************************************************************************)
EXTENDS Integers, Sequences

CONSTANTS
  Ifaces,        \* interface numbers of the device
  Root,          \* iad_map: the root of each interface, itself if it stands alone
  MaxRequests    \* bound: requests in a behaviour

\* The first interface of an association is its own root.
ASSUME RootAssumption ==
  Root \in [Ifaces -> Ifaces] /\ \A i \in Ifaces : Root[Root[i]] = Root[i]
ASSUME MaxRequestsAssumption == MaxRequests \in Nat

Roots == {Root[i] : i \in Ifaces}

VARIABLES
  \* the extension's end
  posted,        \* requests posted so far; their ids are 1 .. posted
  replies,       \* ids of the replies written to stdout
  disconnected,  \* has the extension closed its end of the pipes?
  \* the reader thread
  to_stub,       \* stdin
  reader,        \* "reading", "signalling", "done"
  rx,            \* channel from the reader to the main thread
  stdin_event,   \* auto-reset event, set with every message
  \* the system's device notifications
  driver,        \* of each root: "unready", "ready", "removed"
  callback,      \* "idle", "signalling"
  notifs,        \* channel from the callback to the main thread
  hotplug_event, \* auto-reset event, set with every notification
  \* the main thread
  main,          \* "waiting", "stdin", "hotplug", "exited"
  known,         \* is the device in usb_devices?
  paths,         \* _win_iface_paths: the roots it has a path of
  opened,        \* USBDevice.opened
  claimed,       \* interfaces claimed in current_if_state
  refs,          \* _win_iface_handles: references by interface; 0: no handle
  \* the I/O completion port
  in_flight,     \* transfers being carried out
  completed      \* transfers whose completion packet is queued

pipe_vars == <<posted, disconnected, to_stub, reader, stdin_event>>
hotplug_vars == <<driver, callback, notifs, hotplug_event>>
device_vars == <<known, paths, opened, claimed, refs>>
io_vars == <<in_flight, completed, replies>>
vars == <<pipe_vars, rx, hotplug_vars, main, device_vars, io_vars>>

Eof == 0    \* sent instead of a message when stdin is at its end

\* A transfer, with the file (by the root's number) its handle belongs to.
Transfer == [id : Nat, file : Roots]

TypeOK ==
  /\ posted \in Nat /\ replies \subseteq Nat /\ disconnected \in BOOLEAN
  /\ to_stub \in Seq(Nat)
  /\ reader \in {"reading", "signalling", "done"}
  /\ rx \in Seq(Nat)
  /\ stdin_event \in BOOLEAN
  /\ driver \in [Roots -> {"unready", "ready", "removed"}]
  /\ callback \in {"idle", "signalling"}
  /\ notifs \in Seq([new : BOOLEAN, iface : Roots])
  /\ hotplug_event \in BOOLEAN
  /\ main \in {"waiting", "stdin", "hotplug", "exited"}
  /\ known \in BOOLEAN /\ opened \in BOOLEAN
  /\ paths \subseteq Roots /\ claimed \subseteq Ifaces
  /\ refs \in [Ifaces -> Nat]
  /\ in_flight \subseteq Transfer /\ completed \subseteq Nat

\* The device has been found by one of its drivers.
Init ==
  /\ posted = 0 /\ replies = {} /\ disconnected = FALSE
  /\ to_stub = <<>> /\ reader = "reading" /\ rx = <<>> /\ stdin_event = FALSE
  /\ \E r \in Roots :
       /\ driver = [s \in Roots |-> IF s = r THEN "ready" ELSE "unready"]
       /\ paths = {r}
  /\ callback = "idle" /\ notifs = <<>> /\ hotplug_event = FALSE
  /\ main = "waiting" /\ known = TRUE /\ opened = FALSE
  /\ claimed = {} /\ refs = [i \in Ifaces |-> 0]
  /\ in_flight = {} /\ completed = {}

Running == main # "exited"
Ready == {r \in Roots : driver[r] = "ready"}
Handles == {i \in Ifaces : refs[i] > 0}

--------------------------------------------------------------------------------
(* The extension and the reader thread.                                     *)

Post ==
  /\ posted < MaxRequests /\ ~disconnected
  /\ posted' = posted + 1
  /\ to_stub' = Append(to_stub, posted + 1)
  /\ UNCHANGED <<disconnected, reader, stdin_event, rx, hotplug_vars, main, device_vars,
                 io_vars>>

Disconnect ==
  /\ ~disconnected
  /\ disconnected' = TRUE
  /\ UNCHANGED <<posted, to_stub, reader, stdin_event, rx, hotplug_vars, main,
                 device_vars, io_vars>>

\* One message is read and sent on.
ReadMessage ==
  /\ reader = "reading" /\ to_stub # <<>>
  /\ to_stub' = Tail(to_stub)
  /\ rx' = Append(rx, Head(to_stub))
  /\ reader' = "signalling"
  /\ UNCHANGED <<posted, disconnected, stdin_event, hotplug_vars, main, device_vars,
                 io_vars>>

\* Faulty variant: the thread ends as soon as it has sent the error.
ReadEofAndLeave ==
  /\ reader = "reading" /\ to_stub = <<>> /\ disconnected
  /\ rx' = Append(rx, Eof)
  /\ reader' = "done"
  /\ UNCHANGED <<posted, disconnected, to_stub, stdin_event, hotplug_vars, main,
                 device_vars, io_vars>>

\* At the end of stdin the thread sends errors and, without leaving its loop,
\* comes to set the event too.  It goes on like that; the first error counts.
ReadEof ==
  /\ reader = "reading" /\ to_stub = <<>> /\ disconnected
  /\ \A k \in DOMAIN rx : rx[k] # Eof
  /\ rx' = Append(rx, Eof)
  /\ reader' = "signalling"
  /\ UNCHANGED <<posted, disconnected, to_stub, stdin_event, hotplug_vars, main,
                 device_vars, io_vars>>

SignalStdin ==
  /\ reader = "signalling"
  /\ reader' = "reading"
  /\ stdin_event' = TRUE
  /\ UNCHANGED <<posted, disconnected, to_stub, rx, hotplug_vars, main, device_vars,
                 io_vars>>

Reader == Running /\ (ReadMessage \/ ReadEof \/ SignalStdin)

--------------------------------------------------------------------------------
(* Drivers come and go, and the callback tells.  The driver that is removed *)
(* ends the transfers of its handle.  One that comes back is another one.   *)

\* Closing the file of each root in S ends the transfers on it.
EndTransfers(S) ==
  /\ in_flight' = {t \in in_flight : t.file \notin S}
  /\ completed' = completed \cup {t.id : t \in {t \in in_flight : t.file \in S}}

\* Faulty variant: the latest notification is delivered first.
NotifyFirst(new, r) ==
  /\ notifs' = <<[new |-> new, iface |-> r]>> \o notifs
  /\ callback' = "signalling"
  /\ UNCHANGED <<hotplug_event, pipe_vars, rx, main, device_vars, replies>>

Notify(new, r) ==
  /\ notifs' = Append(notifs, [new |-> new, iface |-> r])
  /\ callback' = "signalling"
  /\ UNCHANGED <<hotplug_event, pipe_vars, rx, main, device_vars, replies>>

\* Another interface of the device that is in the database.
Arrival(r) ==
  /\ Running /\ callback = "idle"
  /\ driver[r] = "unready" /\ Ready # {}
  /\ driver' = [driver EXCEPT ![r] = "ready"]
  /\ Notify(TRUE, r)
  /\ UNCHANGED <<in_flight, completed>>

Removal(r) ==
  /\ Running /\ callback = "idle"
  /\ driver[r] = "ready"
  /\ driver' = [driver EXCEPT ![r] = "removed"]
  /\ Notify(FALSE, r)
  /\ EndTransfers({r})

SignalHotplug ==
  /\ Running /\ callback = "signalling"
  /\ callback' = "idle"
  /\ hotplug_event' = TRUE
  /\ UNCHANGED <<driver, notifs, pipe_vars, rx, main, device_vars, io_vars>>

\* The device has carried a transfer out, well or badly.
Complete(t) ==
  /\ Running /\ t \in in_flight
  /\ in_flight' = in_flight \ {t}
  /\ completed' = completed \cup {t.id}
  /\ UNCHANGED <<pipe_vars, rx, hotplug_vars, main, device_vars, replies>>

System ==
  \/ \E r \in Roots : Arrival(r) \/ Removal(r)
  \/ SignalHotplug
  \/ \E t \in in_flight : Complete(t)

\* The IOCP thread answers from what the packet points to, without a look at
\* the device.
IocpThread ==
  /\ Running
  /\ \E id \in completed :
       /\ completed' = completed \ {id}
       /\ replies' = replies \cup {id}
  /\ UNCHANGED <<in_flight, pipe_vars, rx, hotplug_vars, main, device_vars>>

--------------------------------------------------------------------------------
(* The main thread carries requests out.                                    *)

\* Faulty variant: one message for one event.
NextRequestOnly ==
  /\ main = "stdin" /\ rx # <<>> /\ Head(rx) # Eof
  /\ rx' = Tail(rx)
  /\ main' = "waiting"
  /\ UNCHANGED <<pipe_vars, hotplug_vars>>

NextRequest ==
  /\ main = "stdin" /\ rx # <<>> /\ Head(rx) # Eof
  /\ rx' = Tail(rx)
  /\ UNCHANGED <<pipe_vars, hotplug_vars, main>>

Reply == replies' = replies \cup {Head(rx)}

\* Whatever fails before it changes anything, asks for what is there already,
\* or is answered from the cache; and alternate settings, halts, resets and
\* configurations, the last two of which always fail.
Answer ==
  /\ NextRequest
  /\ Reply
  /\ UNCHANGED <<device_vars, in_flight, completed>>

\* CreateFileW and WinUsb_Initialize on a path may fail, but only succeed as
\* long as there is a driver.
CanOpen(i) == i \in paths \cap Ready

\* _open_some_interface takes the first path that opens: it can be any.
OpenDevice ==
  /\ NextRequest /\ known /\ ~opened
  /\ \E i \in paths : CanOpen(i) /\ refs' = [refs EXCEPT ![i] = 1]
  /\ opened' = TRUE
  /\ Reply
  /\ UNCHANGED <<known, paths, claimed, in_flight, completed>>

\* Releases everything, then drops what handles are left.
CloseDevice ==
  /\ NextRequest /\ known /\ opened
  /\ opened' = FALSE
  /\ claimed' = {}
  /\ refs' = [i \in Ifaces |-> 0]
  /\ EndTransfers(Handles)
  /\ Reply
  /\ UNCHANGED <<known, paths>>

\* Faulty variant: an open handle is used without counting.
RefRootUncounted(i) ==
  [refs EXCEPT ![Root[i]] = IF refs[Root[i]] > 0 THEN @ ELSE 1]

\* A reference more to the root; a first one if its path can be opened.
RefRoot(i) == [refs EXCEPT ![Root[i]] = @ + 1]

\* It is the path of the interface itself that is opened, not its root's: an
\* interface that is not a root can only be claimed while the root has a handle.
\* If the associated handle cannot be had, the root's reference is kept.
ClaimInterface(i) ==
  /\ NextRequest /\ known /\ opened /\ i \notin claimed
  /\ refs[Root[i]] > 0 \/ CanOpen(i)
  /\ \/ Root[i] = i /\ refs' = RefRoot(i) /\ claimed' = claimed \cup {i}
     \/ Root[i] # i /\ refs' = [RefRoot(i) EXCEPT ![i] = 1] /\ claimed' = claimed \cup {i}
     \/ Root[i] # i /\ refs' = RefRoot(i) /\ UNCHANGED claimed
  /\ Reply
  /\ UNCHANGED <<known, paths, opened, in_flight, completed>>

\* Faulty variant: nobody asks whether the interface is claimed.
ReleaseInterfaceUnclaimed(i) ==
  /\ NextRequest /\ known /\ opened
  /\ refs' = [refs EXCEPT ![i] = @ - 1]
  /\ claimed' = claimed \ {i}
  /\ EndTransfers(IF refs[i] = 1 THEN {i} ELSE {})
  /\ Reply
  /\ UNCHANGED <<known, paths, opened>>

\* Gives back the interface's own reference, not the one it has to its root.
ReleaseInterface(i) ==
  /\ NextRequest /\ known /\ opened /\ i \in claimed
  /\ refs' = [refs EXCEPT ![i] = @ - 1]
  /\ claimed' = claimed \ {i}
  /\ EndTransfers(IF refs[i] = 1 THEN {i} ELSE {})
  /\ Reply
  /\ UNCHANGED <<known, paths, opened>>

\* Faulty variant: a packet is queued although the submission has failed.
SubmitTwice(i) ==
  LET t == [id |-> Head(rx), file |-> Root[i]] IN
    /\ in_flight' = in_flight \cup {t}
    /\ Reply \/ UNCHANGED replies
    /\ UNCHANGED <<device_vars, completed>>

\* A transfer on the handle of interface i: it is started, or the error reported.
Submit(i) ==
  /\ \/ /\ Root[i] \in Ready
        /\ in_flight' = in_flight \cup {[id |-> Head(rx), file |-> Root[i]]}
        /\ UNCHANGED replies
     \/ Reply /\ UNCHANGED in_flight
  /\ UNCHANGED <<device_vars, completed>>

\* Bulk, interrupt, isochronous, and control for an interface or endpoint.
DataXfer(i) ==
  /\ NextRequest /\ known /\ opened /\ i \in claimed
  /\ Submit(i)

\* For the device: over whichever handle comes first.
CtrlXfer(i) ==
  /\ NextRequest /\ known /\ opened /\ i \in Handles
  /\ Submit(i)

\* One of the extension's own has a handle for itself, which is closed as soon
\* as the transfer is submitted, and the transfer ends with it.
InternalXfer ==
  /\ NextRequest /\ known
  /\ \E i \in paths : CanOpen(i)
  /\ completed' = completed \cup {Head(rx)}
  /\ UNCHANGED <<device_vars, in_flight, replies>>

Request ==
  \/ Answer \/ OpenDevice \/ CloseDevice \/ InternalXfer
  \/ \E i \in Ifaces : ClaimInterface(i) \/ ReleaseInterface(i) \/ DataXfer(i) \/ CtrlXfer(i)

--------------------------------------------------------------------------------
(* The main thread's loop.                                                  *)

\* WaitForMultipleObjects resets the event it reports, the first that is set.
WaitForEvents ==
  /\ main = "waiting"
  /\ \/ stdin_event /\ main' = "stdin" /\ stdin_event' = FALSE /\ UNCHANGED hotplug_event
     \/ /\ ~stdin_event /\ hotplug_event
        /\ main' = "hotplug" /\ hotplug_event' = FALSE /\ UNCHANGED stdin_event
  /\ UNCHANGED <<posted, disconnected, to_stub, reader, rx, driver, callback, notifs,
                 device_vars, io_vars>>

\* There is no message, or no notification, left.
Drained ==
  /\ \/ main = "stdin" /\ rx = <<>>
     \/ main = "hotplug" /\ notifs = <<>>
  /\ main' = "waiting"
  /\ UNCHANGED <<pipe_vars, rx, hotplug_vars, device_vars, io_vars>>

\* The process ends, and the other threads with it.
Exit ==
  /\ main = "stdin" /\ rx # <<>> /\ Head(rx) = Eof
  /\ rx' = Tail(rx)
  /\ main' = "exited"
  /\ UNCHANGED <<pipe_vars, hotplug_vars, device_vars, io_vars>>

NextNotification ==
  /\ main = "hotplug" /\ notifs # <<>>
  /\ notifs' = Tail(notifs)
  /\ UNCHANGED <<pipe_vars, rx, driver, callback, hotplug_event, main, replies>>

NewInterface ==
  /\ NextNotification /\ Head(notifs).new
  /\ paths' = IF known THEN paths \cup {Head(notifs).iface} ELSE paths
  /\ UNCHANGED <<known, opened, claimed, refs, in_flight, completed>>

\* With its last path the device is forgotten, which closes its handles.
RemoveInterface ==
  /\ NextNotification /\ ~Head(notifs).new
  /\ paths' = paths \ {Head(notifs).iface}
  /\ IF known /\ paths' = {}
     THEN /\ known' = FALSE /\ opened' = FALSE
          /\ claimed' = {} /\ refs' = [i \in Ifaces |-> 0]
          /\ EndTransfers(Handles)
     ELSE UNCHANGED <<known, opened, claimed, refs, in_flight, completed>>

RunLoop ==
  WaitForEvents \/ Request \/ Exit \/ NewInterface \/ RemoveInterface \/ Drained

Next == Post \/ Disconnect \/ Reader \/ System \/ IocpThread \/ RunLoop

Spec == Init /\ [][Next]_vars

\* The threads run, and a callback that has begun comes to its end.  A device
\* may never answer, and nobody must post, disconnect or pull the plug.
Fairness ==
  WF_vars(Reader) /\ WF_vars(SignalHotplug) /\ WF_vars(IocpThread) /\ WF_vars(RunLoop)

FairSpec == Spec /\ Fairness

--------------------------------------------------------------------------------
(* Properties.                                                              *)

\* An interface that is claimed has its handle, and so has its root, without
\* which that handle is void, whatever has been released, opened again or
\* removed since (main.rs:2443, 2566: "interface is claimed, but we don't have
\* the handle!" would end the stub).
ClaimHasHandles ==
  \A i \in claimed : refs[i] > 0 /\ refs[Root[i]] > 0

\* An open device has a handle, over which control transfers for the device go
\* (main.rs:2622 takes the first and would end the stub without one), and a
\* closed one has none (main.rs:2210: "This should never happen").
OpenHasHandle == opened <=> Handles # {}

\* Whoever needs a handle finds one, and a handle is there for somebody
\* (main.rs:2160-2260, 2287-2446).
HandlesSuffice == ClaimHasHandles /\ OpenHasHandle

\* Nobody sleeps over a message: when the main thread waits with nothing
\* signalled or about to be, both channels are empty (main.rs:3842-3850: the
\* events are reset by one wait for any number of messages).
NoLostWakeup ==
  main = "waiting" =>
    /\ ~stdin_event /\ reader # "signalling" => rx = <<>>
    /\ ~hotplug_event /\ callback # "signalling" => notifs = <<>>

\* Once it has caught up, the main thread knows the interfaces the callback
\* knows, and knows the device exactly as long as there is one
\* (architecture.md:175: interfaces come up one by one and in any order).
PathsFollow ==
  Running /\ notifs = <<>> => paths = Ready /\ (known <=> Ready # {})

\* Across the threads every request is carried out once and answered once.
Service == INSTANCE RequestReply WITH
  used <- 1 .. posted,
  asked <- {to_stub[k] : k \in DOMAIN to_stub}
             \cup ({rx[k] : k \in DOMAIN rx} \ {Eof})
             \cup {t.id : t \in in_flight} \cup completed,
  answered <- replies
ServiceSpec == Service!Spec

\* When the last of the device is gone it is forgotten, and every request is
\* answered, on whichever thread and in whichever channel it was; and when the
\* extension has gone the stub ends, whatever it was doing (main.rs:3846-3854).
EndsSettle ==
  Ready = {} \/ disconnected ~>
    ~Running \/ (~disconnected /\ ~known /\ replies = 1 .. posted)

================================================================================
