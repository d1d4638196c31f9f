------------------------------ MODULE UsbProtocol ------------------------------
(***************************************************************************)
(* The vocabulary shared by the extension's background script and the      *)
(* native stub: the messages of native-stub/src/protocol.rs as far as the  *)
(* two sides branch on them, for ONE device (one session id), together     *)
(* with the two pipes that carry them.                                     *)
(*                                                                         *)
(* Abstracted: payloads, lengths and endpoint addresses.  An endpoint      *)
(* stands for the interface it belongs to (both sides translate it with    *)
(* the same ep_to_idx table first thing), so ControlTransfer, DataTransfer *)
(* and IsocTransfer are one message "Transfer" whose target is either an   *)
(* interface or, for the other recipients of a control transfer, the       *)
(* device.                                                                 *)
(***************************************************************************)
EXTENDS Integers, Sequences, FiniteSets

CONSTANTS
  Ifaces,        \* interface numbers of the device (bInterfaceNumber)
  Configs,       \* its configuration values (bConfigurationValue)
  ConfigIfaces   \* the interfaces each configuration has

ASSUME IfacesAssumption == Ifaces \subseteq Nat /\ IsFiniteSet(Ifaces)
ASSUME ConfigsAssumption == Configs \subseteq Nat \ {0}
ASSUME ConfigIfacesAssumption == ConfigIfaces \in [Configs -> SUBSET Ifaces]

VARIABLES
  to_stub,       \* stdin of the stub: requests in the order they were posted
  to_bg          \* stdout of the stub: replies and events in order

\* The value 0 of current_config: the device is not configured.
Unconfigured == 0

\* The `intf` of a transaction that addresses the device, not an interface.
DeviceTarget == -1

Targets == Ifaces \cup {DeviceTarget}

RequestTypes ==
  { "OpenDevice", "CloseDevice", "ResetDevice", "SetConfiguration",
    "ClaimInterface", "ReleaseInterface", "SetAltInterface", "ClearHalt",
    "Transfer" }

\* `iface` is the target and `value` the configuration a SetConfiguration asks for.
RequestMessage ==
  [type : RequestTypes, id : Nat, iface : Targets, value : Configs \cup {Unconfigured}]

Request(type, id, iface, value) ==
  [type |-> type, id |-> id, iface |-> iface, value |-> value]

ResponseMessage ==
  [type : {"RequestComplete", "RequestError", "UnplugDevice"}, id : Nat]

\* The reply the stub sends for an operation that succeeded (ok) or failed.
Reply(id, ok) ==
  [type |-> IF ok THEN "RequestComplete" ELSE "RequestError", id |-> id]

\* An event belongs to no transaction; its id is not looked at.
UnplugEvent == [type |-> "UnplugDevice", id |-> 0]

IsReply(m) == m.type \in {"RequestComplete", "RequestError"}

================================================================================
