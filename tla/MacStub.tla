--------------------------------- MODULE MacStub --------------------------------
(***************************************************************************)
(* The native stub on macOS (native-stub/src/main.rs, macos_wrap.rs) with  *)
(* one device, from its plug notification to its removal.  IOKit gives an  *)
(* object for the device and one for each interface of its configuration,  *)
(* and each object has a Mach port, by which the completions of its        *)
(* transfers come.  The port is closed with the object, and what has not   *)
(* been received by then never is: so a transfer on an interface holds a   *)
(* reference to the interface's object.                                    *)
(*                                                                         *)
(* The stub is single threaded and a request is carried out in one go; an  *)
(* assertion that fails, or an index out of bounds, ends the process.      *)
(***************************************************************************)
EXTENDS Integers, Sequences, FiniteSets

CONSTANTS
  Ifaces,         \* interface numbers
  Configs,        \* configuration values
  ConfigIfaces,   \* interfaces of each configuration
  Eps,            \* endpoint addresses
  EpIface,        \* ep_to_idx: the interface of an endpoint, from the descriptors
  Alts,           \* alternate settings
  PipeRef,        \* of interface and setting: the pipe of each endpoint, or 0
  CallsMayFail,   \* can calls fail while the device is there?
  PipesMayFail,   \* can GetPipeProperties fail for some of the pipes?
  MaxRequests     \* bound: requests in a behaviour

Unconfigured == 0
Device == <<>>              \* the object of the device
Object == Ifaces \X Nat     \* the object of an interface, by the probe it is of

ASSUME MacAssumption ==
  /\ ConfigIfaces \in [Configs -> SUBSET Ifaces] /\ IsFiniteSet(Ifaces)
  /\ Unconfigured \notin Configs
  /\ EpIface \in [Eps -> Ifaces] /\ IsFiniteSet(Eps)
  /\ 0 \in Alts
  /\ PipeRef \in [Ifaces -> [Alts -> [Eps -> Nat]]]
  /\ CallsMayFail \in BOOLEAN /\ PipesMayFail \in BOOLEAN
  /\ MaxRequests \in Nat

\* IOKit numbers the pipes of an interface under a setting from 1, one for each
\* endpoint, and an endpoint address belongs to one interface.
ASSUME PipesAssumption ==
  \A i \in Ifaces, a \in Alts :
    LET pipe == PipeRef[i][a]
        own == {e \in Eps : pipe[e] > 0}
    IN  /\ \A e \in own : EpIface[e] = i
        /\ \A e, f \in own : pipe[e] = pipe[f] => e = f
        /\ \A e \in own : \A k \in 1 .. pipe[e] : \E f \in own : pipe[f] = k

VARIABLES
  \* the extension's end
  posted,      \* requests posted so far; their ids are 1 .. posted
  to_stub,     \* stdin
  replies,     \* ids of the replies written to stdout
  \* IOKit and the kernel
  plug,        \* "absent", "there", "pulled"
  notices,     \* notifications of the plug and of its end not yet handled
  alt,         \* the alternate setting each interface is in
  taken,       \* interface objects opened by USBInterfaceOpen
  ports,       \* interface objects that exist, and their ports with them
  in_flight,   \* transfers being carried out
  completed,   \* transfers whose completion is queued at their port
  \* the stub
  panic,       \* "none", or what ended the process: "object", "assertion", "index"
  known,       \* is the device in usb_devices?
  opened,      \* USBDevice.opened
  config,      \* current_configuration_id
  if_state,    \* current_if_state: slot, flag and _macos_ep_addrs
  ifaces,      \* _macos_ifaces: objects by slot
  ep_to_slot,  \* _macos_ep_to_idx: slot and pipe of an endpoint
  probes,      \* times interfaces were probed, which tells objects apart
  leaked       \* objects that boxes refer to which nobody will free

kernel_vars == <<plug, notices, alt, taken, ports, in_flight, completed>>
table_vars == <<config, if_state, ifaces, ep_to_slot, probes>>
vars == <<posted, to_stub, replies, kernel_vars, panic, known, opened, table_vars, leaked>>

Absent == [slot |-> 0, claimed |-> FALSE, eps |-> {}]
NoPipe == [slot |-> 0, pipe |-> 0]
Transfer == [id : Nat, obj : Object \cup {Device}]

TypeOK ==
  /\ posted \in Nat /\ to_stub \in Seq(Nat) /\ replies \subseteq Nat
  /\ plug \in {"absent", "there", "pulled"}
  /\ notices \in Seq({"plug", "unplug"})
  /\ alt \in [Ifaces -> Alts]
  /\ taken \subseteq Object /\ ports \subseteq Object /\ leaked \subseteq Object
  /\ in_flight \subseteq Transfer /\ completed \subseteq Transfer
  /\ panic \in {"none", "object", "assertion", "index"}
  /\ known \in BOOLEAN /\ opened \in BOOLEAN
  /\ config \in Configs \cup {Unconfigured}
  /\ if_state \in [Ifaces -> [slot : Nat, claimed : BOOLEAN, eps : SUBSET Eps]]
  /\ ifaces \in Seq(Object)
  /\ ep_to_slot \in [Eps -> [slot : Nat, pipe : Nat]]
  /\ probes \in Nat

Init ==
  /\ posted = 0 /\ to_stub = <<>> /\ replies = {}
  /\ plug = "absent" /\ notices = <<>>
  /\ alt = [i \in Ifaces |-> 0]
  /\ taken = {} /\ ports = {} /\ leaked = {}
  /\ in_flight = {} /\ completed = {}
  /\ panic = "none" /\ known = FALSE /\ opened = FALSE
  /\ config = Unconfigured
  /\ if_state = [i \in Ifaces |-> Absent]
  /\ ifaces = <<>>
  /\ ep_to_slot = [e \in Eps |-> NoPipe]
  /\ probes = 0

CanFail == CallsMayFail \/ plug # "there"
ObjectsIn(table) == {table[k] : k \in DOMAIN table}

--------------------------------------------------------------------------------
(* The extension, the plug and the device.                                  *)

\* It only asks for a device it has been told of.
Post ==
  /\ probes > 0 /\ posted < MaxRequests
  /\ posted' = posted + 1
  /\ to_stub' = Append(to_stub, posted + 1)
  /\ UNCHANGED <<replies, kernel_vars, panic, known, opened, table_vars, leaked>>

PlugIn ==
  /\ plug = "absent"
  /\ plug' = "there"
  /\ notices' = Append(notices, "plug")
  /\ UNCHANGED <<posted, to_stub, replies, alt, taken, ports, in_flight, completed,
                 panic, known, opened, table_vars, leaked>>

PullOut ==
  /\ plug = "there"
  /\ plug' = "pulled"
  /\ notices' = Append(notices, "unplug")
  /\ UNCHANGED <<posted, to_stub, replies, alt, taken, ports, in_flight, completed,
                 panic, known, opened, table_vars, leaked>>

\* A transfer has ended, well or badly.
Complete(t) ==
  /\ in_flight' = in_flight \ {t}
  /\ completed' = completed \cup {t}
  /\ UNCHANGED <<posted, to_stub, replies, plug, notices, alt, taken, ports, panic,
                 known, opened, table_vars, leaked>>

\* Closing the interface behind these objects, or giving it another setting,
\* ends their transfers.
Abort(objs) ==
  /\ in_flight' = {t \in in_flight : t.obj \notin objs}
  /\ completed' = completed \cup {t \in in_flight : t.obj \in objs}

Outside == Post \/ PlugIn \/ PullOut \/ \E t \in in_flight : Complete(t)

--------------------------------------------------------------------------------
(* Objects and their reference counts.                                      *)

\* Faulty variant: transfers hold nothing, as the rule for the other systems is.
KeptByTable(table, boxes) == ports \cap (ObjectsIn(table) \cup leaked)

\* The objects of before that somebody still refers to, when this is the table
\* of the device and these transfers are under way.
Kept(table, boxes) ==
  ports \cap (ObjectsIn(table) \cup {t.obj : t \in boxes} \cup leaked)

\* The interfaces of configuration c, as IOKit lists them, in some order.
Orders(c) ==
  LET S == IF c = Unconfigured THEN {} ELSE ConfigIfaces[c]
  IN  {o \in [1 .. Cardinality(S) -> S] : \A i \in S : \E k \in DOMAIN o : o[k] = i}

\* Faulty variant: what was claimed is taken to be claimed still.
ProbeOkKeepsClaims(order) ==
  /\ ifaces' = [k \in DOMAIN order |-> <<order[k], probes + 1>>]
  /\ if_state' = [i \in Ifaces |->
       IF \E k \in DOMAIN order : order[k] = i
       THEN [if_state[i] EXCEPT !.slot = CHOOSE k \in DOMAIN order : order[k] = i]
       ELSE Absent]
  /\ ep_to_slot' = [e \in Eps |-> NoPipe]
  /\ ports' = Kept(<<>>, in_flight \cup completed) \cup ObjectsIn(ifaces')
  /\ taken' = taken \cap ports'
  /\ probes' = probes + 1

\* macos_probe_ifaces that succeeds: other objects, nothing claimed.
ProbeOk(order) ==
  /\ ifaces' = [k \in DOMAIN order |-> <<order[k], probes + 1>>]
  /\ if_state' = [i \in Ifaces |->
       IF \E k \in DOMAIN order : order[k] = i
       THEN [slot |-> CHOOSE k \in DOMAIN order : order[k] = i,
             claimed |-> FALSE, eps |-> {}]
       ELSE Absent]
  /\ ep_to_slot' = [e \in Eps |-> NoPipe]
  /\ ports' = Kept(<<>>, in_flight \cup completed) \cup ObjectsIn(ifaces')
  /\ taken' = taken \cap ports'
  /\ probes' = probes + 1

\* A call fails half way: the table of objects is empty by then, and so is the
\* map, but the states of the interfaces are those of before.
ProbeFails ==
  /\ ifaces' = <<>>
  /\ ep_to_slot' = [e \in Eps |-> NoPipe]
  /\ ports' = Kept(<<>>, in_flight \cup completed)
  /\ taken' = taken \cap ports'
  /\ UNCHANGED <<if_state, probes>>

\* What is on stdin is not answered any more, the request being handled included.
Panic(cause) ==
  /\ panic' = cause
  /\ UNCHANGED <<posted, to_stub, replies, kernel_vars, known, opened, table_vars, leaked>>

--------------------------------------------------------------------------------
(* Plug notifications.                                                      *)

\* The configuration the device is in; it may be in none.
Setup ==
  /\ notices # <<>> /\ Head(notices) = "plug"
  /\ notices' = Tail(notices)
  /\ \E c \in Configs \cup {Unconfigured} :
       /\ config' = c
       /\ \E order \in Orders(c) : ProbeOk(order)
  /\ known' = TRUE
  /\ UNCHANGED <<posted, to_stub, replies, plug, alt, in_flight, completed, panic, opened,
                 leaked>>

\* The device is blocked, or some call fails: what was made is dropped again.
\* If it is the making of an object that fails, the process ends.
SetupFails ==
  /\ notices # <<>> /\ Head(notices) = "plug"
  /\ notices' = Tail(notices)
  /\ panic' \in {"none"} \cup (IF CanFail THEN {"object"} ELSE {})
  /\ UNCHANGED <<posted, to_stub, replies, plug, alt, taken, ports, in_flight, completed,
                 known, opened, table_vars, leaked>>

\* The device is dropped, and with it the objects that nobody else refers to.
Unplug ==
  /\ notices # <<>> /\ Head(notices) = "unplug"
  /\ notices' = Tail(notices)
  /\ known' = FALSE /\ opened' = FALSE
  /\ config' = Unconfigured
  /\ if_state' = [i \in Ifaces |-> Absent]
  /\ ifaces' = <<>>
  /\ ep_to_slot' = [e \in Eps |-> NoPipe]
  /\ ports' = Kept(<<>>, in_flight \cup completed)
  /\ taken' = taken \cap ports'
  /\ UNCHANGED <<posted, to_stub, replies, plug, alt, in_flight, completed, panic, probes,
                 leaked>>

PortOpen(t) == IF t.obj = Device THEN known ELSE t.obj \in ports

\* Faulty variant: the box is freed before its completion is reported.
DeliverSilently(t) ==
  /\ PortOpen(t)
  /\ completed' = completed \ {t}
  /\ ports' = Kept(ifaces, in_flight \cup (completed \ {t}))
  /\ taken' = taken \cap ports'
  /\ UNCHANGED <<posted, to_stub, replies, plug, notices, alt, in_flight, panic, known,
                 opened, table_vars, leaked>>

\* The completion routine: the box is answered from, and freed with its
\* reference.  Nothing comes through a port that is closed.
Deliver(t) ==
  /\ PortOpen(t)
  /\ replies' = replies \cup {t.id}
  /\ completed' = completed \ {t}
  /\ ports' = Kept(ifaces, in_flight \cup (completed \ {t}))
  /\ taken' = taken \cap ports'
  /\ UNCHANGED <<posted, to_stub, plug, notices, alt, in_flight, panic, known, opened,
                 table_vars, leaked>>

--------------------------------------------------------------------------------
(* Requests.                                                                *)

NextRequest == to_stub # <<>> /\ to_stub' = Tail(to_stub)
Id == Head(to_stub)
Reply == replies' = replies \cup {Id}

\* A state is out of step with the table: using its slot is out of bounds.
OutOfBounds(i) == if_state[i].slot \notin DOMAIN ifaces

\* Whatever fails before it changes anything, or has nothing to change.
Answer ==
  /\ NextRequest
  /\ Reply
  /\ UNCHANGED <<posted, kernel_vars, panic, known, opened, table_vars, leaked>>

OpenDevice ==
  /\ NextRequest /\ known /\ ~opened
  /\ opened' = TRUE
  /\ Reply
  /\ UNCHANGED <<posted, kernel_vars, panic, known, table_vars, leaked>>

ClaimedIfaces == {i \in Ifaces : if_state[i].claimed}
ObjectOf(i) == ifaces[if_state[i].slot]

\* Those whose USBInterfaceClose fails stay claimed, and the device is closed
\* all the same.  The endpoints stay in their lists and in the map.
CloseDevice ==
  /\ NextRequest /\ known /\ opened
  /\ \A i \in ClaimedIfaces : ~OutOfBounds(i)
  /\ \E failed \in SUBSET ClaimedIfaces :
       LET closed == ClaimedIfaces \ failed IN
         /\ failed # {} => CanFail
         /\ if_state' = [i \in Ifaces |-> [if_state[i] EXCEPT !.claimed = @ /\ i \in failed]]
         /\ taken' = taken \ {ObjectOf(i) : i \in closed}
         /\ Abort({ObjectOf(i) : i \in closed})
  /\ opened' \in {FALSE, CanFail}
  /\ Reply
  /\ UNCHANGED <<posted, plug, notices, alt, ports, panic, known, config, ifaces,
                 ep_to_slot, probes, leaked>>

SetConfiguration(c) ==
  /\ NextRequest /\ known /\ opened
  /\ config' = c
  /\ alt' = [i \in Ifaces |-> 0]
  /\ \/ \E order \in Orders(c) : ProbeOk(order)
     \/ CanFail /\ ProbeFails
  /\ Reply
  /\ UNCHANGED <<posted, plug, notices, in_flight, completed, panic, known, opened, leaked>>

\* The making of an object of the new configuration fails.
ProbePanics ==
  /\ to_stub # <<>> /\ known /\ opened /\ CanFail
  /\ Panic("object")

\* The endpoints whose pipe can be asked about.
Readable ==
  {Eps} \cup (IF CanFail THEN {{}} ELSE {}) \cup (IF PipesMayFail THEN SUBSET Eps ELSE {})

\* Faulty variant: the pipes are counted from 0, the default control pipe.
EpAddrsFromZero(i, a, S) == {0} \cup {e \in S : PipeRef[i][a][e] > 0}

\* get_ep_addrs: the endpoints of interface i under setting a, as far as read.
EpAddrs(i, a, S) == {e \in S : PipeRef[i][a][e] > 0}

\* A pipe is taken to be the place of its endpoint in that list.
PlaceOf(i, a, S, e) ==
  Cardinality({f \in S : PipeRef[i][a][f] \in 1 .. PipeRef[i][a][e]})

\* Faulty variant: the endpoints of the other setting stay in the map.
RecordEndpointsKeeping(i, a, S) ==
  /\ if_state' = [if_state EXCEPT ![i].claimed = TRUE, ![i].eps = @ \cup EpAddrs(i, a, S)]
  /\ ep_to_slot' = [e \in Eps |->
       IF e \in EpAddrs(i, a, S)
       THEN [slot |-> if_state[i].slot, pipe |-> PlaceOf(i, a, S, e)]
       ELSE ep_to_slot[e]]

\* The endpoints of an interface take the place of those it had.
RecordEndpoints(i, a, S) ==
  /\ if_state' = [if_state EXCEPT ![i].claimed = TRUE, ![i].eps = EpAddrs(i, a, S)]
  /\ ep_to_slot' = [e \in Eps |->
       CASE e \in EpAddrs(i, a, S) ->
              [slot |-> if_state[i].slot, pipe |-> PlaceOf(i, a, S, e)]
         [] e \in if_state[i].eps \ EpAddrs(i, a, S) -> NoPipe
         [] OTHER -> ep_to_slot[e]]

ClaimInterface(i) ==
  /\ NextRequest /\ known /\ opened
  /\ if_state[i] # Absent /\ ~if_state[i].claimed
  /\ ~OutOfBounds(i) /\ if_state[i].eps = {}
  /\ taken' = taken \cup {ObjectOf(i)}
  /\ \E S \in Readable : RecordEndpoints(i, alt[i], S)
  /\ Reply
  /\ UNCHANGED <<posted, plug, notices, alt, ports, in_flight, completed, panic, known,
                 opened, config, ifaces, probes, leaked>>

\* The assertion that its list of endpoints is empty fails.
ClaimAsserts(i) ==
  /\ to_stub # <<>> /\ known /\ opened
  /\ ~if_state[i].claimed /\ ~OutOfBounds(i) /\ if_state[i].eps # {}
  /\ Panic("assertion")

ReleaseInterface(i) ==
  /\ NextRequest /\ known /\ opened /\ if_state[i].claimed /\ ~OutOfBounds(i)
  /\ if_state' = [if_state EXCEPT ![i].claimed = FALSE, ![i].eps = {}]
  /\ ep_to_slot' = [e \in Eps |-> IF e \in if_state[i].eps THEN NoPipe ELSE ep_to_slot[e]]
  /\ taken' = taken \ {ObjectOf(i)}
  /\ Abort({ObjectOf(i)})
  /\ Reply
  /\ UNCHANGED <<posted, plug, notices, alt, ports, panic, known, opened, config, ifaces,
                 probes, leaked>>

SetAltInterface(i, a) ==
  /\ NextRequest /\ known /\ opened /\ if_state[i].claimed /\ ~OutOfBounds(i)
  /\ alt' = [alt EXCEPT ![i] = a]
  /\ \E S \in Readable : RecordEndpoints(i, a, S)
  /\ Abort({ObjectOf(i)})
  /\ Reply
  /\ UNCHANGED <<posted, plug, notices, taken, ports, panic, known, opened, config, ifaces,
                 probes, leaked>>

\* Close, claim, release or set alternate setting, out of step after a probe
\* that failed.
IndexPanics(i) ==
  /\ to_stub # <<>> /\ known /\ opened
  /\ if_state[i] # Absent /\ OutOfBounds(i)
  /\ Panic("index")

\* Control transfers go to the device, which need not be open for them.
CtrlXfer ==
  /\ NextRequest /\ known
  /\ in_flight' = in_flight \cup {[id |-> Id, obj |-> Device]}
  /\ UNCHANGED <<posted, replies, plug, notices, alt, taken, ports, completed, panic, known,
                 opened, table_vars, leaked>>

\* The object of an endpoint, for transfers and for clearing halts: by the
\* descriptors for the claim, by the map for the object and its pipe.
Reaches(e) ==
  /\ known /\ opened
  /\ if_state[EpIface[e]].claimed
  /\ ep_to_slot[e] # NoPipe /\ ep_to_slot[e].slot \in DOMAIN ifaces

\* Bulk, interrupt and isochronous transfers.
DataXfer(e) ==
  /\ NextRequest /\ Reaches(e)
  /\ in_flight' = in_flight \cup {[id |-> Id, obj |-> ifaces[ep_to_slot[e].slot]]}
  /\ UNCHANGED <<posted, replies, plug, notices, alt, taken, ports, completed, panic, known,
                 opened, table_vars, leaked>>

\* The submission fails: the error is reported and the box forgotten.
DataXferFails(e) ==
  /\ NextRequest /\ Reaches(e) /\ CanFail
  /\ leaked' = leaked \cup {ifaces[ep_to_slot[e].slot]}
  /\ Reply
  /\ UNCHANGED <<posted, kernel_vars, panic, known, opened, table_vars>>

Request ==
  \/ Answer \/ OpenDevice \/ CloseDevice \/ ProbePanics \/ CtrlXfer
  \/ \E c \in Configs : SetConfiguration(c)
  \/ \E i \in Ifaces :
       \/ ClaimInterface(i) \/ ReleaseInterface(i) \/ ClaimAsserts(i) \/ IndexPanics(i)
       \/ \E a \in Alts : SetAltInterface(i, a)
  \/ \E e \in Eps : DataXfer(e) \/ DataXferFails(e)

RunLoop == panic = "none" /\ (Setup \/ SetupFails \/ Unplug \/ Request)
Completions == panic = "none" /\ \E t \in completed : Deliver(t)

Next == Outside \/ RunLoop \/ Completions

Spec == Init /\ [][Next]_vars

\* kevent reports every port that has a message and the kernel ends all
\* transfers of a device that is gone.  A device need not answer otherwise, and
\* nobody must post or pull the plug.
Fairness ==
  /\ WF_vars(RunLoop)
  /\ WF_vars(Completions)
  /\ WF_vars(plug = "pulled" /\ \E t \in in_flight : Complete(t))

FairSpec == Spec /\ Fairness

--------------------------------------------------------------------------------
(* Properties.                                                              *)

\* While a transfer of an interface is under way the port that its completion
\* comes by is open, whatever has become of the device or its configuration
\* (architecture.md:127-137: the reference "is instead used to prevent the
\* following race condition").
TransfersKeepPorts ==
  \A t \in in_flight \cup completed : t.obj # Device => t.obj \in ports

\* Where an interface has an object, it is an object of that interface, and it
\* is held open exactly as long as the interface counts as claimed
\* (main.rs:1404-1480, 1529-1545).
ClaimsMatchObjects ==
  \A i \in Ifaces :
    if_state[i] # Absent /\ ~OutOfBounds(i) =>
      /\ ObjectOf(i)[1] = i
      /\ if_state[i].claimed <=> ObjectOf(i) \in taken

\* The endpoint of a claimed interface leads to that interface's object and to
\* the pipe the endpoint has in the setting chosen last (main.rs:1667-1678,
\* 1760-1773), so that a transfer does not go to another endpoint.
EndpointsReachTheirPipes ==
  \A e \in Eps :
    LET i == EpIface[e] IN
      if_state[i].claimed /\ ep_to_slot[e] # NoPipe =>
        ep_to_slot[e] = [slot |-> if_state[i].slot, pipe |-> PipeRef[i][alt[i]][e]]

\* Each request that is answered is answered once.
Service == INSTANCE RequestReply WITH
  used <- 1 .. posted,
  asked <- {to_stub[k] : k \in DOMAIN to_stub}
             \cup {t.id : t \in in_flight} \cup {t.id : t \in completed},
  answered <- replies
ServiceSpec == Service!Spec

\* Once the device is gone, every request is answered but control transfers,
\* which hold no port, and no object is left but those of leaked boxes.
UnplugSettles ==
  plug = "pulled" ~>
    panic # "none" \/
            /\ ~known /\ to_stub = <<>>
            /\ \A t \in in_flight \cup completed : t.obj = Device
            /\ ports \subseteq leaked

\* The assertion of claim_interface holds: an interface that is not claimed has
\* no endpoints (main.rs:1668, assert_eq!(iface_state._macos_ep_addrs.len(), 0)).
AssertionHolds == panic # "assertion"

================================================================================
