------------------------------ MODULE StubDevice -------------------------------
(***************************************************************************)
(* One USBDevice of the native stub on Linux (native-stub/src/main.rs and  *)
(* linux.rs): the virtual open flag, the interface table and the URBs the  *)
(* kernel owns.  The stub is single threaded: handle_stdin takes one       *)
(* request off stdin, runs the operation to its end and, unless the        *)
(* operation left a URB with the kernel, writes the reply.  So every       *)
(* request is one action here.                                             *)
(*                                                                         *)
(* An ioctl may succeed or fail; it always fails once the kernel has       *)
(* disconnected the device.  With IoctlMayFail = FALSE a connected device  *)
(* never refuses one, which isolates the protocol from partial failures.   *)
(***************************************************************************)
EXTENDS UsbProtocol

CONSTANTS
  IoctlMayFail    \* can an ioctl on a connected device fail?

ASSUME IoctlMayFailAssumption == IoctlMayFail \in BOOLEAN

VARIABLES
  stub_dev,       \* "present", "hup" (disconnected, fd still open), "gone"
  stub_opened,    \* USBDevice.opened
  if_state,       \* USBDevice.current_if_state, with the interfaces not in it
  stub_config,    \* USBDevice.current_configuration_id
  urbs            \* transactions whose URB is with the kernel

stub_vars == <<stub_dev, stub_opened, if_state, stub_config, urbs>>

IfStates == {"absent", "free", "claimed"}

\* What linux_probe_ifaces finds under a configuration: all of its
\* interfaces, none of them claimed.
Probed(c) ==
  [i \in Ifaces |->
     IF c \in Configs /\ i \in ConfigIfaces[c] THEN "free" ELSE "absent"]

StubClaimed == {i \in Ifaces : if_state[i] = "claimed"}

StubTypeOK ==
  /\ stub_dev \in {"present", "hup", "gone"}
  /\ stub_opened \in BOOLEAN
  /\ if_state \in [Ifaces -> IfStates]
  /\ stub_config \in Configs \cup {Unconfigured}
  /\ urbs \subseteq Nat

\* The device has been enumerated under configuration c and announced.
StubInit(c) ==
  /\ stub_dev = "present"
  /\ stub_opened = FALSE
  /\ if_state = Probed(c)
  /\ stub_config = c
  /\ urbs = {}

--------------------------------------------------------------------------------
(* One request: handle_stdin and handle_message.                            *)

\* The results an ioctl can have.
IoctlResults ==
  IF stub_dev = "hup" THEN {FALSE}
  ELSE IF IoctlMayFail THEN BOOLEAN ELSE {TRUE}

\* The next request is of this type and its device is still in usb_devices.
Receiving(type) ==
  /\ to_stub # <<>>
  /\ Head(to_stub).type = type
  /\ stub_dev # "gone"

\* Take the request off stdin and answer it before looking at the next one.
AnswerNow(ok) ==
  /\ to_stub' = Tail(to_stub)
  /\ to_bg' = Append(to_bg, Reply(Head(to_stub).id, ok))

\* Faulty variant: the request for an unknown device is dropped.
DeviceNotFoundIgnored ==
  /\ to_stub # <<>>
  /\ stub_dev = "gone"
  /\ to_stub' = Tail(to_stub)
  /\ UNCHANGED <<to_bg, stub_vars>>

\* usb_devices has no such device any more: DeviceNotFound, whatever was asked.
DeviceNotFound ==
  /\ to_stub # <<>>
  /\ stub_dev = "gone"
  /\ AnswerNow(FALSE)
  /\ UNCHANGED stub_vars

\* The fd was opened at enumeration: opening is a flag and cannot fail.
OpenDevice ==
  /\ Receiving("OpenDevice")
  /\ stub_opened' = TRUE
  /\ AnswerNow(TRUE)
  /\ UNCHANGED <<stub_dev, if_state, stub_config, urbs>>

\* Release the claimed interfaces one by one; the first release that fails
\* ends the operation with the device still open.
CloseDevice ==
  /\ Receiving("CloseDevice")
  /\ \E released \in IF stub_opened THEN SUBSET StubClaimed ELSE {{}} :
       LET ok == stub_opened /\ released = StubClaimed IN
         /\ (stub_opened /\ ~ok) => FALSE \in IoctlResults
         /\ released # {} => TRUE \in IoctlResults
         /\ if_state' = [i \in Ifaces |-> IF i \in released THEN "free" ELSE if_state[i]]
         /\ stub_opened' = (stub_opened /\ ~ok)
         /\ AnswerNow(ok)
  /\ UNCHANGED <<stub_dev, stub_config, urbs>>

ResetDevice ==
  /\ Receiving("ResetDevice")
  /\ \E ok \in IF stub_opened THEN IoctlResults ELSE {FALSE} : AnswerNow(ok)
  /\ UNCHANGED stub_vars

\* The ioctl can fail; after it succeeded, so can reading the new interface
\* table back from sysfs, which leaves the old table with the new configuration.
SetConfiguration ==
  /\ Receiving("SetConfiguration")
  /\ \E changed, probed \in IF stub_opened THEN IoctlResults ELSE {FALSE} :
       LET c == Head(to_stub).value IN
         /\ stub_config' = IF changed THEN c ELSE stub_config
         /\ if_state' = IF changed /\ probed THEN Probed(c) ELSE if_state
         /\ AnswerNow(changed /\ probed)
  /\ UNCHANGED <<stub_dev, stub_opened, urbs>>

\* Claiming an interface this stub has already claimed succeeds: the stub
\* knows nothing of pages.
ClaimInterface ==
  /\ Receiving("ClaimInterface")
  /\ LET i == Head(to_stub).iface IN
       \/ /\ stub_opened /\ if_state[i] = "free"
          /\ \E ok \in IoctlResults :
               /\ if_state' = [if_state EXCEPT ![i] = IF ok THEN "claimed" ELSE @]
               /\ AnswerNow(ok)
       \/ /\ ~(stub_opened /\ if_state[i] = "free")
          /\ AnswerNow(stub_opened /\ if_state[i] = "claimed")
          /\ UNCHANGED if_state
  /\ UNCHANGED <<stub_dev, stub_opened, stub_config, urbs>>

\* Is the interface usable: device open, interface present and claimed?
IfaceUsable(i) == stub_opened /\ if_state[i] = "claimed"

ReleaseInterface ==
  /\ Receiving("ReleaseInterface")
  /\ LET i == Head(to_stub).iface IN
       \E ok \in IF IfaceUsable(i) THEN IoctlResults ELSE {FALSE} :
         /\ if_state' = [if_state EXCEPT ![i] = IF ok THEN "free" ELSE @]
         /\ AnswerNow(ok)
  /\ UNCHANGED <<stub_dev, stub_opened, stub_config, urbs>>

\* SET_INTERFACE and CLEAR_HALT: synchronous ioctls on a claimed interface.
SetAltOrClearHalt ==
  /\ Receiving("SetAltInterface") \/ Receiving("ClearHalt")
  /\ \E ok \in IF IfaceUsable(Head(to_stub).iface) THEN IoctlResults ELSE {FALSE} :
       AnswerNow(ok)
  /\ UNCHANGED stub_vars

\* A transfer to the device needs no open device; one to an interface or an
\* endpoint needs the claim.
TransferAllowed(i) == i = DeviceTarget \/ IfaceUsable(i)

\* ctrl_xfer, data_xfer and isoc_xfer.  A submitted URB belongs to the kernel.
Transfer ==
  /\ Receiving("Transfer")
  /\ LET m == Head(to_stub) IN
       \E ok \in IF TransferAllowed(m.iface) THEN IoctlResults ELSE {FALSE} :
           IF ok
           THEN /\ urbs' = urbs \cup {m.id}
                /\ to_stub' = Tail(to_stub)
                /\ UNCHANGED to_bg
           ELSE /\ AnswerNow(FALSE)
                /\ UNCHANGED urbs
  /\ UNCHANGED <<stub_dev, stub_opened, if_state, stub_config>>

HandleStdin ==
  \/ DeviceNotFound \/ OpenDevice \/ CloseDevice \/ ResetDevice
  \/ SetConfiguration \/ ClaimInterface \/ ReleaseInterface
  \/ SetAltOrClearHalt \/ Transfer

--------------------------------------------------------------------------------
(* Events of the run loop that no request causes.                           *)

\* EPOLLOUT: the kernel has finished a URB, which is reaped and reported.
ReapUrb ==
  \E id \in urbs, ok \in BOOLEAN :
    /\ urbs' = urbs \ {id}
    /\ to_bg' = Append(to_bg, Reply(id, ok))
    /\ UNCHANGED <<to_stub, stub_dev, stub_opened, if_state, stub_config>>

\* EPOLLHUP: the device was pulled; it stays in usb_devices for now.
Unplugged ==
  /\ stub_dev = "present"
  /\ stub_dev' = "hup"
  /\ to_bg' = Append(to_bg, UnplugEvent)
  /\ UNCHANGED <<to_stub, stub_opened, if_state, stub_config, urbs>>

\* Faulty variant: the device is forgotten with URBs still under way.
DestroyedWithUrbs ==
  /\ stub_dev # "gone"
  /\ stub_dev' = "gone"
  /\ urbs' = {}
  /\ to_bg' = Append(to_bg, UnplugEvent)
  /\ UNCHANGED <<to_stub, stub_opened, if_state, stub_config>>

\* EPOLLERR, which the kernel raises with EPOLLHUP once every URB has been
\* handed back: the event is reported again and the device forgotten.  (Until
\* then EPOLLHUP keeps reporting it; one repetition stands for them all.)
Destroyed ==
  /\ stub_dev # "gone"
  /\ urbs = {}
  /\ stub_dev' = "gone"
  /\ to_bg' = Append(to_bg, UnplugEvent)
  /\ UNCHANGED <<to_stub, stub_opened, if_state, stub_config, urbs>>

StubNext == HandleStdin \/ ReapUrb \/ Unplugged \/ Destroyed

================================================================================
