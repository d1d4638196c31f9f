------------------------------ MODULE LinuxHotplug ------------------------------
(***************************************************************************)
(* How the native stub finds devices on Linux (native-stub/src/main.rs,    *)
(* udev_sys.rs).  The stub listens to udevd's broadcasts first, looks      *)
(* through /dev/bus/usb next, and then handles what was broadcast in the   *)
(* meantime and since.  Setting a device up takes several system calls,    *)
(* between which the device can go and another come to its port: the node  *)
(* of a device is its own, but its sysfs directory is named for the port.  *)
(*                                                                         *)
(* Session ids count from 1 here and the table of sessions keeps those     *)
(* that have ended.                                                        *)
(***************************************************************************)
EXTENDS Integers, Sequences, FiniteSets

CONSTANTS
  Devs,        \* instances of devices: each is plugged in once
  Layouts,     \* the ports they may be plugged into, as functions
  SocketSize,  \* broadcasts that fit into the buffer of the socket
  None

ASSUME HotplugAssumption ==
  /\ None \notin Devs
  /\ Layouts \subseteq [Devs -> Nat]
  /\ SocketSize \in Nat

VARIABLES
  \* the kernel and udevd
  port,         \* where each device is plugged in, or will be
  connection,   \* "unborn", "connected", "disconnected", "removed"
  broadcasts,   \* of each device: 0, 1 ("add") or 2 (another action besides)
  socket,       \* broadcasts that have not been received
  \* the stub
  stage,        \* "start", "listening", "scan", "loop", "udev"
  listed,       \* nodes that were there when the scan began
  scanned,      \* nodes the scan has come across
  job,          \* USBDevice::setup under way, or None
  sessions,     \* what each session was set up with
  usb_devices,  \* sessions in the table of devices
  ended,        \* sessions an UnplugDevice was sent for
  \* for the properties only
  missed        \* devices whose broadcast was lost or whose setup failed or was
                \* refused for a reason of its own

kernel_vars == <<port, connection, broadcasts, socket>>
scan_vars == <<listed, scanned>>
session_vars == <<sessions, usb_devices, ended>>
vars == <<kernel_vars, stage, scan_vars, job, session_vars, missed>>

Broadcast == [dev : Devs, action : {"add", "other"}]

\* via: what led to the device; named: the device whose node it is; fd, at and
\* of: the devices behind the node opened, the sysfs directory opened and the
\* descriptors read, as far as setup has come.
Job == [via : {"scan", "udev"}, named : Devs,
        fd : Devs \cup {None}, at : Devs \cup {None}, of : Devs \cup {None}]

\* whole: were the strings and the configuration read as well?
Session == [via : {"scan", "udev"}, fd : Devs, of : Devs, whole : BOOLEAN]

TypeOK ==
  /\ port \in [Devs -> Nat]
  /\ connection \in [Devs -> {"unborn", "connected", "disconnected", "removed"}]
  /\ broadcasts \in [Devs -> 0 .. 2]
  /\ socket \in Seq(Broadcast)
  /\ stage \in {"start", "listening", "scan", "loop", "udev"}
  /\ listed \subseteq Devs /\ scanned \subseteq Devs
  /\ job \in Job \cup {None}
  /\ sessions \in Seq(Session)
  /\ usb_devices \subseteq DOMAIN sessions /\ ended \subseteq DOMAIN sessions
  /\ missed \subseteq Devs

\* A node and a directory in sysfs stay until the device has been removed.
Present(d) == connection[d] \in {"connected", "disconnected"}

\* Some devices are there before the stub is.  udevd may have got to them or not.
Init ==
  /\ port \in Layouts
  /\ connection \in [Devs -> {"unborn", "connected"}]
  /\ \A d, e \in Devs : d # e /\ Present(d) /\ Present(e) => port[d] # port[e]
  /\ broadcasts \in [Devs -> 0 .. 2]
  /\ \A d \in Devs : ~Present(d) => broadcasts[d] = 0
  /\ socket = <<>>
  /\ stage = "start"
  /\ listed = {} /\ scanned = {}
  /\ job = None
  /\ sessions = <<>> /\ usb_devices = {} /\ ended = {}
  /\ missed = {}

--------------------------------------------------------------------------------
(* The kernel and udevd.                                                    *)

PlugIn(d) ==
  /\ connection[d] = "unborn"
  /\ \A e \in Devs : Present(e) => port[e] # port[d]
  /\ connection' = [connection EXCEPT ![d] = "connected"]
  /\ UNCHANGED <<port, broadcasts, socket, stage, scan_vars, job, session_vars, missed>>

Disconnect(d) ==
  /\ connection[d] = "connected"
  /\ connection' = [connection EXCEPT ![d] = "disconnected"]
  /\ UNCHANGED <<port, broadcasts, socket, stage, scan_vars, job, session_vars, missed>>

Remove(d) ==
  /\ connection[d] = "disconnected"
  /\ connection' = [connection EXCEPT ![d] = "removed"]
  /\ UNCHANGED <<port, broadcasts, socket, stage, scan_vars, job, session_vars, missed>>

\* A user may open the node once udevd has applied its rules to it.
Accessible(d) == broadcasts[d] > 0

\* Faulty variant: the socket is opened when the scan is over.
ListeningAfterScan == stage \in {"loop", "udev"}

Listening == stage # "start"

\* udevd has got to a device, or has something else to say of it.
Announce(d) ==
  /\ connection[d] # "unborn" /\ broadcasts[d] < 2
  /\ broadcasts' = [broadcasts EXCEPT ![d] = @ + 1]
  /\ LET b == [dev |-> d, action |-> IF broadcasts[d] = 0 THEN "add" ELSE "other"] IN
       \/ Listening /\ Len(socket) < SocketSize
          /\ socket' = Append(socket, b) /\ UNCHANGED missed
       \/ Listening /\ Len(socket) >= SocketSize
          /\ missed' = missed \cup {e \in {d} : b.action = "add"} /\ UNCHANGED socket
       \/ ~Listening /\ UNCHANGED <<socket, missed>>
  /\ UNCHANGED <<port, connection, stage, scan_vars, job, session_vars>>

Outside == \E d \in Devs : PlugIn(d) \/ Disconnect(d) \/ Remove(d) \/ Announce(d)

--------------------------------------------------------------------------------
(* What leads to devices.                                                   *)

StartJob(way, d) ==
  job' = [via |-> way, named |-> d, fd |-> None, at |-> None, of |-> None]

Listen ==
  /\ stage = "start"
  /\ stage' = "listening"
  /\ UNCHANGED <<kernel_vars, scan_vars, job, session_vars, missed>>

StartScan ==
  /\ stage = "listening"
  /\ stage' = "scan"
  /\ listed' = {d \in Devs : Present(d)}
  /\ UNCHANGED <<kernel_vars, scanned, job, session_vars, missed>>

\* readdir may or may not give what has come or gone since the directory was
\* opened.
ScanNext(d) ==
  /\ stage = "scan" /\ job = None
  /\ d \notin scanned /\ (Present(d) \/ d \in listed)
  /\ scanned' = scanned \cup {d}
  /\ StartJob("scan", d)
  /\ UNCHANGED <<kernel_vars, stage, listed, session_vars, missed>>

ScanEnds ==
  /\ stage = "scan" /\ job = None
  /\ \A d \in listed : Present(d) => d \in scanned
  /\ stage' = "loop"
  /\ listed' = {} /\ scanned' = {}
  /\ UNCHANGED <<kernel_vars, job, session_vars, missed>>

UdevEvent ==
  /\ stage = "loop" /\ socket # <<>>
  /\ stage' = "udev"
  /\ UNCHANGED <<kernel_vars, scan_vars, job, session_vars, missed>>

\* Faulty variant: all actions are taken for a new device.
GetEventAny ==
  /\ stage = "udev" /\ job = None /\ socket # <<>>
  /\ socket' = Tail(socket)
  /\ StartJob("udev", Head(socket).dev)
  /\ UNCHANGED <<port, connection, broadcasts, stage, scan_vars, session_vars, missed>>

\* get_event passes over all actions but "add".
GetEvent ==
  /\ stage = "udev" /\ job = None /\ socket # <<>>
  /\ socket' = Tail(socket)
  /\ \/ Head(socket).action = "add" /\ StartJob("udev", Head(socket).dev)
     \/ Head(socket).action # "add" /\ UNCHANGED job
  /\ UNCHANGED <<port, connection, broadcasts, stage, scan_vars, session_vars, missed>>

\* The handler of the socket goes on until there is nothing left.
UdevEventDone ==
  /\ stage = "udev" /\ job = None /\ socket = <<>>
  /\ stage' = "loop"
  /\ UNCHANGED <<kernel_vars, scan_vars, job, session_vars, missed>>

--------------------------------------------------------------------------------
(* USBDevice::setup.                                                        *)

\* An error, logged and passed over.
GiveUp ==
  /\ job' = None
  /\ UNCHANGED <<kernel_vars, stage, scan_vars, session_vars, missed>>

OpenNode ==
  /\ job # None /\ job.fd = None
  /\ connection[job.named] = "connected" /\ Accessible(job.named)
  /\ job' = [job EXCEPT !.fd = job.named]
  /\ UNCHANGED <<kernel_vars, stage, scan_vars, session_vars, missed>>

\* The node is gone, or udevd's rules have yet to be applied to it.
OpenNodeFails ==
  /\ job # None /\ job.fd = None
  /\ connection[job.named] # "connected" \/ ~Accessible(job.named)
  /\ GiveUp

\* Faulty variant: a minor number cut to eight bits is another device's as well.
SysfsOfCut(j) ==
  {d \in Devs : Present(d) /\ (j.via = "scan" \/ port[d] = port[j.named])}

\* The directory setup opens: by the device number of the node, or by DEVPATH.
SysfsOf(j) ==
  {d \in Devs :
     /\ Present(d)
     /\ \/ j.via = "scan" /\ d = j.fd
        \/ j.via = "udev" /\ port[d] = port[j.named]}

OpenSysfs ==
  /\ job # None /\ job.fd # None /\ job.at = None
  /\ \E d \in SysfsOf(job) : job' = [job EXCEPT !.at = d]
  /\ UNCHANGED <<kernel_vars, stage, scan_vars, session_vars, missed>>

OpenSysfsFails ==
  /\ job # None /\ job.fd # None /\ job.at = None
  /\ SysfsOf(job) = {}
  /\ GiveUp

ReadDescriptors ==
  /\ job # None /\ job.at # None /\ job.of = None
  /\ Present(job.at)
  /\ job' = [job EXCEPT !.of = job.at]
  /\ UNCHANGED <<kernel_vars, stage, scan_vars, session_vars, missed>>

\* The directory is empty by now.
ReadDescriptorsFails ==
  /\ job # None /\ job.at # None /\ job.of = None
  /\ ~Present(job.at)
  /\ GiveUp

\* Faulty variant: a device without descriptors is not skipped.
RegisterUnread ==
  /\ job # None /\ job.at # None
  /\ sessions' = Append(sessions, [via |-> job.via, fd |-> job.fd, of |-> job.of,
                                   whole |-> Present(job.at)])
  /\ usb_devices' = usb_devices \cup {Len(sessions) + 1}
  /\ job' = None
  /\ UNCHANGED <<kernel_vars, stage, scan_vars, ended, missed>>

\* Strings and configuration that are no longer there are taken for absent.
Register ==
  /\ job # None /\ job.of # None
  /\ sessions' = Append(sessions, [via |-> job.via, fd |-> job.fd, of |-> job.of,
                                   whole |-> Present(job.at)])
  /\ usb_devices' = usb_devices \cup {Len(sessions) + 1}
  /\ job' = None
  /\ UNCHANGED <<kernel_vars, stage, scan_vars, ended, missed>>

\* The device is blocked, or a call fails for another reason.
SetupFails ==
  /\ job # None
  /\ job' = None
  /\ missed' = missed \cup {job.named}
  /\ UNCHANGED <<kernel_vars, stage, scan_vars, session_vars>>

--------------------------------------------------------------------------------
(* The end of a device.                                                     *)

\* Faulty variant: the device is told to be gone but stays in the table.
UsbEventHupOnly(s) ==
  /\ stage = "loop"
  /\ connection[sessions[s].fd] \in {"disconnected", "removed"}
  /\ ended' = ended \cup {s}
  /\ UNCHANGED <<kernel_vars, stage, scan_vars, job, sessions, usb_devices, missed>>

\* EPOLLHUP while it is disconnected, which is said over and over, and EPOLLERR
\* besides when it is removed.
UsbEvent(s) ==
  /\ stage = "loop"
  /\ connection[sessions[s].fd] \in {"disconnected", "removed"}
  /\ ended' = ended \cup {s}
  /\ usb_devices' =
       IF connection[sessions[s].fd] = "removed" THEN usb_devices \ {s} ELSE usb_devices
  /\ UNCHANGED <<kernel_vars, stage, scan_vars, job, sessions, missed>>

Finding == Listen \/ StartScan \/ ScanEnds \/ (\E d \in Devs : ScanNext(d))
Receiving == UdevEvent \/ GetEvent \/ UdevEventDone
Setup ==
  \/ OpenNode \/ OpenNodeFails \/ OpenSysfs \/ OpenSysfsFails
  \/ ReadDescriptors \/ ReadDescriptorsFails \/ Register \/ SetupFails
Ending == \E s \in usb_devices : UsbEvent(s)

Next == Outside \/ Finding \/ Receiving \/ Setup \/ Ending

Spec == Init /\ [][Next]_vars

\* The stub and udevd keep running, the kernel ends what is disconnected, and
\* epoll reports the end of every device.  Nobody must plug or unplug.
Fairness ==
  /\ WF_vars(Finding \/ Setup)
  /\ WF_vars(Receiving)
  /\ \A d \in Devs : WF_vars(Announce(d)) /\ WF_vars(Remove(d))
  /\ WF_vars(\E s \in usb_devices : connection[sessions[s].fd] = "removed" /\ UsbEvent(s))

FairSpec == Spec /\ Fairness

--------------------------------------------------------------------------------
(* Properties.                                                              *)

\* A session with the descriptors of another device than its node's, or with
\* parts missing, is one of a device that is gone already, so that its end is
\* about to be reported; main.rs:469 opens the node before the directory at 504.
DescribesItsDevice ==
  \A s \in usb_devices :
    sessions[s].of # sessions[s].fd \/ ~sessions[s].whole =>
      connection[sessions[s].fd] # "connected"

\* The scan leads to an instance of a device at most once and udevd at most once.
\* Both may, when it is plugged in during the scan (main.rs:3003, 3961): then it
\* has two sessions, though "each instance of a device being detected is assigned
\* a session ID" (architecture.md:107).
OncePerWay ==
  \A s, t \in DOMAIN sessions :
    s # t /\ sessions[s].fd = sessions[t].fd => sessions[s].via # sessions[t].via

\* A device that stays is found, whole, whenever it came and whatever udevd had
\* done by then (main.rs:3003 before 3961): what the scan does not see, or may not
\* open yet, is broadcast later.
PluggedIsFound ==
  \A d \in Devs :
    connection[d] = "connected" ~>
      \/ connection[d] # "connected"
      \/ d \in missed
      \/ \E s \in usb_devices :
           sessions[s].fd = d /\ sessions[s].of = d /\ sessions[s].whole

\* Whatever sessions a device has got, also in the course of going, end: the
\* extension is told and the table forgets it (main.rs:3665-3694).
GoneLeaves ==
  \A d \in Devs :
    connection[d] = "removed" ~>
      [](\A s \in DOMAIN sessions : sessions[s].fd = d => s \in ended \ usb_devices)

================================================================================
