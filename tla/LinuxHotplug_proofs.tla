--------------------------- MODULE LinuxHotplug_proofs --------------------------
(***************************************************************************)
(* LinuxHotplug: type correctness, that a session describes the device     *)
(* behind its node while that device is there, and that no way leads to a  *)
(* device twice, for any devices, ports and size of the socket.            *)
(*                                                                         *)
(* The first rests on ports: two devices that are present are at different *)
(* ports, so a directory that is not the node's own device's was opened    *)
(* after that device had gone, and it does not come back.  The second      *)
(* rests on the first broadcast of a device being its only "add" and on    *)
(* the scan being over for good when the loop begins.                      *)
(***************************************************************************)
EXTENDS LinuxHotplug, TLAPS, SequenceTheorems

PortsApart == \A d, e \in Devs : d # e /\ Present(d) /\ Present(e) => port[d] # port[e]

\* How far setup has come, and what it has got hold of.
JobSound ==
  job # None =>
    /\ job.fd # None => job.fd = job.named /\ connection[job.fd] # "unborn"
    /\ job.at # None =>
         /\ job.fd # None
         /\ job.at # job.fd => connection[job.fd] # "connected"
    /\ job.of # None => job.at # None /\ job.of = job.at

\* No session is of a device that has yet to come.
SessionsBorn ==
  \A s \in DOMAIN sessions : connection[sessions[s].fd] # "unborn"

\* Where there is no setup, and by what way it was reached otherwise.
StageSound ==
  /\ stage \in {"start", "listening"} => job = None /\ scanned = {} /\ sessions = <<>>
  /\ stage = "scan" /\ job # None => job.via = "scan" /\ job.named \in scanned
  /\ stage = "loop" => job = None
  /\ stage = "udev" /\ job # None => job.via = "udev"

\* During the scan all sessions are of nodes it has come across.
ScannedBefore ==
  stage = "scan" => \A s \in DOMAIN sessions : sessions[s].fd \in scanned

\* What is being set up has no session by the same way.
JobIsNew ==
  job # None =>
    \A s \in DOMAIN sessions : sessions[s].fd = job.named => sessions[s].via # job.via

Adds == {k \in DOMAIN socket : socket[k].action = "add"}
ByUdev ==
  {d \in Devs :
     \/ job # None /\ job.via = "udev" /\ job.named = d
     \/ \E s \in DOMAIN sessions : sessions[s].via = "udev" /\ sessions[s].fd = d}

\* The "add" of a device is in the socket, or has been taken from it, or has
\* yet to be broadcast.
AddsApart ==
  /\ \A j, k \in Adds : socket[j].dev = socket[k].dev => j = k
  /\ \A k \in Adds : broadcasts[socket[k].dev] > 0 /\ socket[k].dev \notin ByUdev
  /\ \A d \in ByUdev : broadcasts[d] > 0

IInv ==
  /\ TypeOK /\ PortsApart /\ JobSound /\ SessionsBorn /\ StageSound /\ ScannedBefore
  /\ JobIsNew /\ AddsApart /\ DescribesItsDevice /\ OncePerWay

--------------------------------------------------------------------------------
(* Sequences.                                                               *)

LEMMA Appended ==
  ASSUME NEW S, NEW q \in Seq(S), NEW x \in S
  PROVE  /\ Append(q, x) \in Seq(S)
         /\ DOMAIN Append(q, x) = DOMAIN q \cup {Len(q) + 1}
         /\ \A k \in DOMAIN q : Append(q, x)[k] = q[k]
         /\ Append(q, x)[Len(q) + 1] = x
         /\ Len(q) + 1 \notin DOMAIN q
<1>1. /\ Append(q, x) \in Seq(S) /\ Len(Append(q, x)) = Len(q) + 1
      /\ \A k \in 1 .. Len(q) : Append(q, x)[k] = q[k]
      /\ Append(q, x)[Len(q) + 1] = x
  BY AppendProperties
<1>2. Len(q) \in Nat /\ DOMAIN q = 1 .. Len(q) /\ DOMAIN Append(q, x) = 1 .. Len(q) + 1
  BY <1>1, LenProperties
<1>3. 1 .. Len(q) + 1 = (1 .. Len(q)) \cup {Len(q) + 1} /\ Len(q) + 1 \notin 1 .. Len(q)
  BY <1>2
<1> QED BY <1>1, <1>2, <1>3

LEMMA Shortened ==
  ASSUME NEW S, NEW q \in Seq(S), q # <<>>
  PROVE  /\ Tail(q) \in Seq(S) /\ Head(q) \in S
         /\ 1 \in DOMAIN q /\ Head(q) = q[1]
         /\ \A k \in DOMAIN Tail(q) : k + 1 \in DOMAIN q /\ k + 1 # 1 /\ Tail(q)[k] = q[k + 1]
         /\ \A j, k \in DOMAIN Tail(q) : j + 1 = k + 1 => j = k
<1>1. /\ Len(q) \in Nat /\ Len(q) > 0 /\ DOMAIN q = 1 .. Len(q)
      /\ Tail(q) \in Seq(S) /\ Len(Tail(q)) = Len(q) - 1
      /\ \A k \in 1 .. Len(Tail(q)) : Tail(q)[k] = q[k + 1]
      /\ Head(q) = q[1] /\ Head(q) \in S
  BY HeadTailProperties, EmptySeq
<1>2. DOMAIN Tail(q) = 1 .. Len(q) - 1
  BY <1>1, LenProperties
<1> QED BY <1>1, <1>2

--------------------------------------------------------------------------------
(* Type correctness, step by step.                                          *)

LEMMA InitInv == Init => IInv
  BY HotplugAssumption, EmptySeq
  DEF Init, IInv, TypeOK, PortsApart, JobSound, SessionsBorn, StageSound, ScannedBefore,
      JobIsNew, AddsApart, Adds, ByUdev, DescribesItsDevice, OncePerWay, Present

LEMMA OutsideType == ASSUME TypeOK, Outside PROVE TypeOK'
<1>1. ASSUME NEW d \in Devs, PlugIn(d) \/ Disconnect(d) \/ Remove(d) PROVE TypeOK'
  BY <1>1 DEF TypeOK, PlugIn, Disconnect, Remove, scan_vars, session_vars
<1>2. ASSUME NEW d \in Devs, Announce(d) PROVE TypeOK'
  <2> DEFINE b == [dev |-> d, action |-> IF broadcasts[d] = 0 THEN "add" ELSE "other"]
  <2>1. b \in Broadcast
    BY DEF Broadcast
  <2> HIDE DEF b
  <2>2. Append(socket, b) \in Seq(Broadcast)
    BY <2>1, Appended DEF TypeOK
  <2>3. socket' \in Seq(Broadcast) /\ missed' \subseteq Devs
    BY <1>2, <2>2 DEF TypeOK, Announce, b
  <2>4. broadcasts[d] \in 0 .. 2 /\ broadcasts[d] < 2
    BY <1>2 DEF TypeOK, Announce
  <2>5. broadcasts[d] + 1 \in 0 .. 2
    BY <2>4
  <2>6. broadcasts' = [broadcasts EXCEPT ![d] = broadcasts[d] + 1]
    BY <1>2 DEF Announce
  <2>7. broadcasts' \in [Devs -> 0 .. 2]
    BY <2>5, <2>6 DEF TypeOK
  <2> QED BY <1>2, <2>3, <2>7 DEF TypeOK, Announce, scan_vars, session_vars
<1> QED BY <1>1, <1>2 DEF Outside

LEMMA FindingType == ASSUME TypeOK, Finding PROVE TypeOK'
  BY DEF TypeOK, Finding, Listen, StartScan, ScanNext, ScanEnds, StartJob, Job, kernel_vars,
         scan_vars, session_vars

LEMMA NextBroadcast ==
  ASSUME TypeOK, socket # <<>>
  PROVE  Head(socket) \in Broadcast /\ Head(socket).dev \in Devs
<1>1. Head(socket) \in Broadcast
  BY Shortened DEF TypeOK
<1> QED BY <1>1 DEF Broadcast

LEMMA ReceivingType == ASSUME TypeOK, Receiving PROVE TypeOK'
<1>1. CASE UdevEvent \/ UdevEventDone
  BY <1>1 DEF TypeOK, UdevEvent, UdevEventDone, kernel_vars, scan_vars, session_vars
<1>2. CASE GetEvent
  <2>1. Tail(socket) \in Seq(Broadcast) /\ Head(socket) \in Broadcast
    BY <1>2, Shortened DEF TypeOK, GetEvent
  <2>2. job' \in Job \cup {None}
    BY <1>2, <2>1 DEF TypeOK, GetEvent, StartJob, Job, Broadcast
  <2> QED BY <1>2, <2>1, <2>2 DEF TypeOK, GetEvent, scan_vars, session_vars
<1> QED BY <1>1, <1>2 DEF Receiving

\* What Register adds to the sessions.
Registered == [via |-> job.via, fd |-> job.fd, of |-> job.of, whole |-> Present(job.at)]

LEMMA RegisterAppends ==
  ASSUME TypeOK, JobSound, Register
  PROVE  /\ job \in Job /\ Registered \in Session
         /\ job.fd = job.named /\ job.fd \in Devs /\ job.of = job.at /\ job.at \in Devs
         /\ sessions' \in Seq(Session)
         /\ DOMAIN sessions' = DOMAIN sessions \cup {Len(sessions) + 1}
         /\ \A s \in DOMAIN sessions : sessions'[s] = sessions[s]
         /\ sessions'[Len(sessions) + 1] = Registered
         /\ Len(sessions) + 1 \notin DOMAIN sessions
<1>1. /\ job \in Job /\ job.of # None /\ job.at # None /\ job.fd # None
      /\ job.fd = job.named /\ job.of = job.at
  BY DEF TypeOK, JobSound, Register
<1>2. job.via \in {"scan", "udev"} /\ job.fd \in Devs /\ job.of \in Devs
  BY <1>1 DEF Job
<1>3. Present(job.at) \in BOOLEAN
  BY DEF Present
<1>4. Registered \in Session
  BY <1>2, <1>3 DEF Registered, Session
<1>5. sessions' = Append(sessions, Registered)
  BY DEF Register, Registered
<1>6. sessions \in Seq(Session)
  BY DEF TypeOK
<1> HIDE DEF Registered
<1> QED BY <1>1, <1>2, <1>4, <1>5, <1>6, Appended

LEMMA SetupType == ASSUME TypeOK, JobSound, Setup PROVE TypeOK'
<1>1. CASE OpenNode \/ OpenSysfs \/ ReadDescriptors
  <2>1. job' \in Job
    BY <1>1 DEF TypeOK, OpenNode, OpenSysfs, SysfsOf, ReadDescriptors, Job
  <2> QED BY <1>1, <2>1 DEF TypeOK, OpenNode, OpenSysfs, ReadDescriptors, kernel_vars,
                            scan_vars, session_vars
<1>2. CASE OpenNodeFails \/ OpenSysfsFails \/ ReadDescriptorsFails
  BY <1>2 DEF TypeOK, OpenNodeFails, OpenSysfsFails, ReadDescriptorsFails, GiveUp,
              kernel_vars, scan_vars, session_vars
<1>3. CASE Register
  BY <1>3, RegisterAppends DEF TypeOK, Register, kernel_vars, scan_vars
<1>4. CASE SetupFails
  BY <1>4 DEF TypeOK, SetupFails, Job, kernel_vars, scan_vars, session_vars
<1> QED BY <1>1, <1>2, <1>3, <1>4 DEF Setup

LEMMA EndingType == ASSUME TypeOK, Ending PROVE TypeOK'
  BY DEF TypeOK, Ending, UsbEvent, kernel_vars, scan_vars

LEMMA NextType == ASSUME TypeOK, JobSound, [Next]_vars PROVE TypeOK'
<1>1. CASE UNCHANGED vars
  BY <1>1 DEF TypeOK, vars, kernel_vars, scan_vars, session_vars
<1> QED BY <1>1, OutsideType, FindingType, ReceivingType, SetupType, EndingType DEF Next

--------------------------------------------------------------------------------
(* The devices behind a setup and its session.                              *)

\* No device comes back, and only one that has yet to come is connected anew.
NoReturn ==
  \A d \in Devs :
    /\ connection[d] # "unborn" => connection'[d] # "unborn"
    /\ connection[d] # "unborn" /\ connection[d] # "connected" => connection'[d] # "connected"

LEMMA NextNoReturn == ASSUME TypeOK, [Next]_vars PROVE NoReturn
<1>1. ASSUME NEW d \in Devs, PlugIn(d) \/ Disconnect(d) \/ Remove(d) PROVE NoReturn
  BY <1>1 DEF TypeOK, PlugIn, Disconnect, Remove, NoReturn
<1>2. ASSUME NEW d \in Devs, Announce(d) PROVE NoReturn
  BY <1>2 DEF Announce, NoReturn
<1>3. CASE Finding
  BY <1>3 DEF Finding, Listen, StartScan, ScanNext, ScanEnds, kernel_vars, NoReturn
<1>4. CASE Receiving
  BY <1>4 DEF Receiving, UdevEvent, GetEvent, UdevEventDone, kernel_vars, NoReturn
<1>5. CASE Setup
  BY <1>5 DEF Setup, OpenNode, OpenNodeFails, OpenSysfs, OpenSysfsFails, ReadDescriptors,
              ReadDescriptorsFails, Register, SetupFails, GiveUp, kernel_vars, NoReturn
<1>6. CASE Ending
  BY <1>6 DEF Ending, UsbEvent, kernel_vars, NoReturn
<1>7. CASE UNCHANGED vars
  BY <1>7 DEF vars, kernel_vars, NoReturn
<1> QED BY <1>1, <1>2, <1>3, <1>4, <1>5, <1>6, <1>7 DEF Next, Outside

LEMMA NextPorts == ASSUME TypeOK, PortsApart, [Next]_vars PROVE PortsApart'
<1>1. ASSUME NEW d \in Devs, PlugIn(d) PROVE PortsApart'
  BY <1>1 DEF TypeOK, PlugIn, PortsApart, Present
<1>2. ASSUME NEW d \in Devs, Disconnect(d) \/ Remove(d) PROVE PortsApart'
  BY <1>2 DEF TypeOK, Disconnect, Remove, PortsApart, Present
<1>3. ASSUME UNCHANGED <<port, connection>> PROVE PortsApart'
  BY <1>3 DEF PortsApart, Present
<1>4. CASE Finding
  BY <1>3, <1>4 DEF Finding, Listen, StartScan, ScanNext, ScanEnds, kernel_vars
<1>5. CASE Receiving
  BY <1>3, <1>5 DEF Receiving, UdevEvent, GetEvent, UdevEventDone, kernel_vars
<1>6. CASE Setup
  BY <1>3, <1>6 DEF Setup, OpenNode, OpenNodeFails, OpenSysfs, OpenSysfsFails,
       ReadDescriptors, ReadDescriptorsFails, Register, SetupFails, GiveUp, kernel_vars
<1>7. CASE Ending
  BY <1>3, <1>7 DEF Ending, UsbEvent, kernel_vars
<1>8. ASSUME NEW d \in Devs, Announce(d) PROVE PortsApart'
  BY <1>3, <1>8 DEF Announce
<1>9. CASE UNCHANGED vars
  BY <1>3, <1>9 DEF vars, kernel_vars
<1> QED BY <1>1, <1>2, <1>4, <1>5, <1>6, <1>7, <1>8, <1>9 DEF Next, Outside

\* What is left to do for a step that leaves the setup alone.
LEMMA JobKept ==
  ASSUME TypeOK, JobSound, NoReturn, job' = job
  PROVE  JobSound'
<1>1. job # None => job.fd \in Devs \cup {None}
  BY DEF TypeOK, Job
<1> QED BY <1>1 DEF JobSound, NoReturn

LEMMA NextJob == ASSUME TypeOK, PortsApart, JobSound, [Next]_vars PROVE JobSound'
<1>0. NoReturn
  BY NextNoReturn
<1>1. ASSUME job' = None PROVE JobSound'
  BY <1>1 DEF JobSound
<1>2. ASSUME NEW way, NEW d \in Devs, StartJob(way, d) PROVE JobSound'
  BY <1>2 DEF StartJob, JobSound
<1>3. CASE Outside
  BY <1>0, <1>3, JobKept DEF Outside, PlugIn, Disconnect, Remove, Announce
<1>4. CASE Finding
  BY <1>0, <1>2, <1>4, JobKept DEF Finding, Listen, StartScan, ScanNext, ScanEnds
<1>5. CASE Receiving
  <2>1. CASE GetEvent
    <3>1. Head(socket).dev \in Devs
      BY <2>1, NextBroadcast DEF GetEvent
    <3> QED BY <1>0, <1>2, <2>1, <3>1, JobKept DEF GetEvent
  <2> QED BY <1>0, <1>5, <2>1, JobKept DEF Receiving, UdevEvent, UdevEventDone
<1>6. CASE OpenNode
  BY <1>6, HotplugAssumption DEF OpenNode, JobSound, TypeOK, Job, kernel_vars
<1>7. CASE OpenSysfs
  <2>1. job \in Job /\ job.fd # None /\ job.fd = job.named
    BY <1>7 DEF OpenSysfs, TypeOK, JobSound
  <2>2. PICK d \in SysfsOf(job) : job' = [job EXCEPT !.at = d]
    BY <1>7 DEF OpenSysfs
  <2>3. d # job.fd => connection[job.fd] # "connected"
    <3>1. job.fd \in Devs
      BY <2>1 DEF Job
    <3> QED BY <2>1, <2>2, <3>1 DEF SysfsOf, PortsApart, Present
  <2>4. d \in Devs /\ job.of = None
    BY <1>7, <2>2 DEF SysfsOf, OpenSysfs, JobSound
  <2> QED BY <1>7, <2>1, <2>2, <2>3, <2>4 DEF OpenSysfs, JobSound, Job, kernel_vars
<1>8. CASE ReadDescriptors
  BY <1>8 DEF ReadDescriptors, JobSound, TypeOK, Job, kernel_vars
<1>9. CASE OpenNodeFails \/ OpenSysfsFails \/ ReadDescriptorsFails \/ Register \/ SetupFails
  BY <1>1, <1>9 DEF OpenNodeFails, OpenSysfsFails, ReadDescriptorsFails, Register,
                    SetupFails, GiveUp
<1>10. CASE Ending
  BY <1>0, <1>10, JobKept DEF Ending, UsbEvent
<1>11. CASE UNCHANGED vars
  BY <1>0, <1>11, JobKept DEF vars
<1> QED BY <1>3, <1>4, <1>5, <1>6, <1>7, <1>8, <1>9, <1>10, <1>11 DEF Next, Setup

\* All steps but Register leave the sessions as they are; which are in the table,
\* only UsbEvent changes besides, and only by taking one out.
LEMMA SessionsKept ==
  ASSUME [Next]_vars, ~Register
  PROVE  sessions' = sessions /\ usb_devices' \subseteq usb_devices
<1>1. CASE Outside
  BY <1>1 DEF Outside, PlugIn, Disconnect, Remove, Announce, session_vars
<1>2. CASE Finding
  BY <1>2 DEF Finding, Listen, StartScan, ScanNext, ScanEnds, session_vars
<1>3. CASE Receiving
  BY <1>3 DEF Receiving, UdevEvent, GetEvent, UdevEventDone, session_vars
<1>4. CASE Setup
  BY <1>4 DEF Setup, OpenNode, OpenNodeFails, OpenSysfs, OpenSysfsFails, ReadDescriptors,
              ReadDescriptorsFails, SetupFails, GiveUp, session_vars
<1>5. CASE Ending
  BY <1>5 DEF Ending, UsbEvent
<1>6. CASE UNCHANGED vars
  BY <1>6 DEF vars, session_vars
<1> QED BY <1>1, <1>2, <1>3, <1>4, <1>5, <1>6 DEF Next

LEMMA NextDescribes ==
  ASSUME TypeOK, JobSound, SessionsBorn, DescribesItsDevice, [Next]_vars
  PROVE  SessionsBorn' /\ DescribesItsDevice'
<1>0. NoReturn
  BY NextNoReturn
<1>1. \A s \in DOMAIN sessions : sessions[s].fd \in Devs
  <2>1. \A s \in DOMAIN sessions : sessions[s] \in Session
    BY DEF TypeOK
  <2> QED BY <2>1 DEF Session
<1>2. usb_devices \subseteq DOMAIN sessions
  BY DEF TypeOK
<1>3. CASE ~Register
  BY <1>0, <1>1, <1>2, <1>3, SessionsKept DEF SessionsBorn, DescribesItsDevice, NoReturn
<1>4. CASE Register
  <2>1. connection[job.fd] # "unborn"
    BY <1>4, RegisterAppends DEF JobSound, Register
  <2>2. Registered.fd = job.fd /\ Registered.of = job.at /\ Registered.whole = Present(job.at)
    BY <1>4, RegisterAppends DEF Registered
  <2>3. Registered.of # Registered.fd \/ ~Registered.whole => connection[job.fd] # "connected"
    BY <1>4, <2>2 DEF JobSound, Register, Present
  <2>4. connection' = connection /\ usb_devices' = usb_devices \cup {Len(sessions) + 1}
    BY <1>4 DEF Register, kernel_vars
  <2>5. SessionsBorn'
    BY <1>4, <2>1, <2>2, <2>4, RegisterAppends DEF SessionsBorn
  <2>6. DescribesItsDevice'
    BY <1>2, <1>4, <2>2, <2>3, <2>4, RegisterAppends DEF DescribesItsDevice
  <2> QED BY <2>5, <2>6
<1> QED BY <1>3, <1>4

--------------------------------------------------------------------------------
(* The ways that lead to devices.                                           *)

\* Setup ends or goes on with the device it was started for.
LEMMA SetupKeepsWay ==
  ASSUME TypeOK, Setup
  PROVE  /\ job # None /\ job \in Job
         /\ UNCHANGED <<stage, scanned, socket, broadcasts>>
         /\ \/ job' = None
            \/ sessions' = sessions /\ job'.via = job.via /\ job'.named = job.named
<1>1. job # None /\ job \in Job
  BY DEF TypeOK, Setup, OpenNode, OpenNodeFails, OpenSysfs, OpenSysfsFails,
         ReadDescriptors, ReadDescriptorsFails, Register, SetupFails
<1>2. UNCHANGED <<stage, scanned, socket, broadcasts>>
  BY DEF Setup, OpenNode, OpenNodeFails, OpenSysfs, OpenSysfsFails, ReadDescriptors,
         ReadDescriptorsFails, Register, SetupFails, GiveUp, kernel_vars, scan_vars
<1>3. CASE OpenNode
  BY <1>1, <1>2, <1>3 DEF OpenNode, Job, session_vars
<1>4. CASE OpenSysfs
  BY <1>1, <1>2, <1>4 DEF OpenSysfs, Job, session_vars
<1>5. CASE ReadDescriptors
  BY <1>1, <1>2, <1>5 DEF ReadDescriptors, Job, session_vars
<1>6. CASE OpenNodeFails \/ OpenSysfsFails \/ ReadDescriptorsFails \/ Register \/ SetupFails
  BY <1>1, <1>2, <1>6 DEF OpenNodeFails, OpenSysfsFails, ReadDescriptorsFails, Register,
                          SetupFails, GiveUp
<1> QED BY <1>1, <1>2, <1>3, <1>4, <1>5, <1>6 DEF Setup

LEMMA NextStage ==
  ASSUME TypeOK, StageSound, [Next]_vars
  PROVE  StageSound'
<1>1. CASE Outside
  BY <1>1 DEF Outside, PlugIn, Disconnect, Remove, Announce, scan_vars, session_vars,
              StageSound
<1>2. CASE Listen \/ StartScan \/ ScanEnds
  BY <1>2 DEF Listen, StartScan, ScanEnds, scan_vars, session_vars, StageSound
<1>3. ASSUME NEW d \in Devs, ScanNext(d) PROVE StageSound'
  BY <1>3 DEF ScanNext, StartJob, StageSound
<1>4. CASE Receiving
  BY <1>4 DEF Receiving, UdevEvent, GetEvent, UdevEventDone, StartJob, StageSound
<1>5. CASE Setup
  BY <1>5, SetupKeepsWay DEF StageSound
<1>6. CASE Ending
  BY <1>6 DEF Ending, UsbEvent, scan_vars, StageSound
<1>7. CASE UNCHANGED vars
  BY <1>7 DEF vars, scan_vars, session_vars, StageSound
<1> QED BY <1>1, <1>2, <1>3, <1>4, <1>5, <1>6, <1>7 DEF Next, Finding

LEMMA NextScanned ==
  ASSUME TypeOK, JobSound, StageSound, ScannedBefore, [Next]_vars
  PROVE  ScannedBefore'
<1>1. CASE Register
  BY <1>1, RegisterAppends
  DEF Register, Registered, scan_vars, JobSound, StageSound, ScannedBefore
<1>2. CASE ~Register
  <2>1. sessions' = sessions
    BY <1>2, SessionsKept
  <2>2. \/ stage' # "scan"
        \/ stage = "scan" /\ scanned \subseteq scanned'
        \/ stage = "listening"
    <3>1. CASE Outside
      BY <3>1 DEF Outside, PlugIn, Disconnect, Remove, Announce, scan_vars
    <3>2. CASE Finding
      BY <3>2 DEF Finding, Listen, StartScan, ScanNext, ScanEnds
    <3>3. CASE Receiving
      BY <3>3 DEF Receiving, UdevEvent, GetEvent, UdevEventDone, scan_vars
    <3>4. CASE Setup
      BY <3>4, SetupKeepsWay
    <3>5. CASE Ending
      BY <3>5 DEF Ending, UsbEvent, scan_vars
    <3>6. CASE UNCHANGED vars
      BY <3>6 DEF vars, scan_vars
    <3> QED BY <3>1, <3>2, <3>3, <3>4, <3>5, <3>6 DEF Next
  <2>3. stage = "listening" => DOMAIN sessions = {}
    BY DEF StageSound
  <2> QED BY <2>1, <2>2, <2>3 DEF ScannedBefore
<1> QED BY <1>1, <1>2

LEMMA NextNew ==
  ASSUME TypeOK, JobSound, ScannedBefore, JobIsNew, AddsApart, [Next]_vars
  PROVE  JobIsNew'
<1>0. ASSUME sessions' = sessions, job' = job \/ job' = None PROVE JobIsNew'
  BY <1>0 DEF JobIsNew
<1>1. CASE Outside
  BY <1>0, <1>1 DEF Outside, PlugIn, Disconnect, Remove, Announce, session_vars
<1>2. CASE Listen \/ StartScan \/ ScanEnds
  BY <1>0, <1>2 DEF Listen, StartScan, ScanEnds, session_vars
<1>3. ASSUME NEW d \in Devs, ScanNext(d) PROVE JobIsNew'
  BY <1>3 DEF ScanNext, StartJob, session_vars, ScannedBefore, JobIsNew
<1>4. CASE UdevEvent \/ UdevEventDone
  BY <1>0, <1>4 DEF UdevEvent, UdevEventDone, session_vars
<1>5. CASE GetEvent
  <2>1. CASE Head(socket).action = "add"
    <3>1. 1 \in Adds /\ socket[1] = Head(socket)
      BY <1>5, <2>1, Shortened DEF GetEvent, Adds, TypeOK
    <3>2. \A s \in DOMAIN sessions :
            sessions[s].fd = Head(socket).dev => sessions[s].via # "udev"
      BY <1>5, <3>1, NextBroadcast DEF AddsApart, ByUdev, GetEvent
    <3>3. sessions' = sessions /\ StartJob("udev", Head(socket).dev)
      BY <1>5, <2>1 DEF GetEvent, session_vars
    <3> QED BY <3>2, <3>3 DEF StartJob, JobIsNew
  <2>2. CASE Head(socket).action # "add"
    BY <1>0, <1>5, <2>2 DEF GetEvent, session_vars
  <2> QED BY <2>1, <2>2
<1>6. CASE Setup
  <2>1. CASE job' = None
    BY <2>1 DEF JobIsNew
  <2>2. CASE job' # None
    BY <1>6, <2>2, SetupKeepsWay DEF JobIsNew
  <2> QED BY <2>1, <2>2
<1>7. CASE Ending
  BY <1>0, <1>7 DEF Ending, UsbEvent
<1>8. CASE UNCHANGED vars
  BY <1>0, <1>8 DEF vars, session_vars
<1> QED BY <1>1, <1>2, <1>3, <1>4, <1>5, <1>6, <1>7, <1>8 DEF Next, Finding, Receiving

LEMMA NextOnce ==
  ASSUME TypeOK, JobSound, JobIsNew, OncePerWay, [Next]_vars
  PROVE  OncePerWay'
<1>1. CASE ~Register
  BY <1>1, SessionsKept DEF OncePerWay
<1>2. CASE Register
  <2>1. Registered.via = job.via /\ Registered.fd = job.named
    BY <1>2, RegisterAppends DEF Registered
  <2>2. \A s \in DOMAIN sessions : sessions[s].fd = job.named => sessions[s].via # job.via
    BY <1>2 DEF JobIsNew, Register
  <2> QED BY <1>2, <2>1, <2>2, RegisterAppends DEF OncePerWay
<1> QED BY <1>1, <1>2

--------------------------------------------------------------------------------
(* The only "add" of a device.                                              *)

LEMMA SocketDevs ==
  ASSUME TypeOK
  PROVE  \A k \in DOMAIN socket : socket[k] \in Broadcast /\ socket[k].dev \in Devs
<1>1. \A k \in DOMAIN socket : socket[k] \in Broadcast
  BY DEF TypeOK
<1> QED BY <1>1 DEF Broadcast

\* A step that takes no broadcast and adds none.
LEMMA AddsKept ==
  ASSUME TypeOK, AddsApart, UNCHANGED <<socket, broadcasts>>,
         ByUdev' \subseteq ByUdev
  PROVE  AddsApart'
<1>1. Adds' = Adds
  BY DEF Adds
<1>2. \A k \in Adds : socket[k].dev \in Devs
  BY SocketDevs DEF Adds
<1> QED BY <1>1, <1>2 DEF AddsApart

LEMMA AnnounceAdds ==
  ASSUME TypeOK, AddsApart, NEW d \in Devs, Announce(d)
  PROVE  AddsApart'
<1>1. ByUdev' = ByUdev
  BY DEF Announce, session_vars, ByUdev
<1>2. /\ broadcasts[d] \in 0 .. 2 /\ broadcasts'[d] = broadcasts[d] + 1
      /\ \A e \in Devs : e # d => broadcasts'[e] = broadcasts[e]
  BY DEF Announce, TypeOK
<1>3. \A e \in Devs : broadcasts[e] > 0 => broadcasts'[e] > 0
  BY <1>2
<1>4. CASE socket' = socket
  <2>1. Adds' = Adds
    BY <1>4 DEF Adds
  <2>2. \A k \in Adds : socket[k].dev \in Devs
    BY SocketDevs DEF Adds
  <2>3. ByUdev \subseteq Devs
    BY DEF ByUdev
  <2> QED BY <1>1, <1>3, <1>4, <2>1, <2>2, <2>3 DEF AddsApart
<1>5. CASE socket' # socket
  <2> DEFINE b == [dev |-> d, action |-> IF broadcasts[d] = 0 THEN "add" ELSE "other"]
             n == Len(socket) + 1
  <2>1. socket' = Append(socket, b)
    BY <1>5 DEF Announce
  <2>2. b \in Broadcast /\ b.dev = d /\ (b.action = "add" <=> broadcasts[d] = 0)
    BY DEF Broadcast
  <2> HIDE DEF b
  <2>3. /\ DOMAIN socket' = DOMAIN socket \cup {n}
        /\ \A k \in DOMAIN socket : socket'[k] = socket[k]
        /\ socket'[n] = b /\ n \notin DOMAIN socket
    BY <2>1, <2>2, Appended DEF TypeOK
  <2> HIDE DEF n
  <2>4. Adds' = Adds \cup {k \in {n} : b.action = "add"}
    BY <2>3 DEF Adds
  <2>5. \A k \in Adds : /\ socket'[k] = socket[k] /\ socket[k].dev \in Devs
                        /\ broadcasts[socket[k].dev] > 0
    BY <2>3, SocketDevs DEF Adds, AddsApart
  <2>6. b.action = "add" => d \notin ByUdev /\ \A k \in Adds : socket[k].dev # d
    BY <1>2, <2>2, <2>5 DEF AddsApart
  <2>7. broadcasts'[d] > 0
    BY <1>2
  <2>8. \A j, k \in Adds' : socket'[j].dev = socket'[k].dev => j = k
    BY <2>2, <2>3, <2>4, <2>5, <2>6 DEF AddsApart
  <2>9. \A k \in Adds' : broadcasts'[socket'[k].dev] > 0 /\ socket'[k].dev \notin ByUdev'
    <3> SUFFICES ASSUME NEW k \in Adds'
                 PROVE  broadcasts'[socket'[k].dev] > 0 /\ socket'[k].dev \notin ByUdev'
      OBVIOUS
    <3>1. CASE k \in Adds
      BY <1>1, <1>3, <2>5, <3>1 DEF AddsApart
    <3>2. CASE k \notin Adds
      <4>1. k = n /\ b.action = "add" /\ socket'[k].dev = d
        BY <2>2, <2>3, <2>4, <3>2
      <4> QED BY <1>1, <2>6, <2>7, <4>1
    <3> QED BY <3>1, <3>2
  <2>10. \A e \in ByUdev' : broadcasts'[e] > 0
    <3>1. ByUdev \subseteq Devs
      BY DEF ByUdev
    <3> QED BY <1>1, <1>3, <3>1 DEF AddsApart
  <2> QED BY <2>8, <2>9, <2>10 DEF AddsApart
<1> QED BY <1>4, <1>5

LEMMA GetEventAdds ==
  ASSUME TypeOK, StageSound, AddsApart, GetEvent
  PROVE  AddsApart'
<1> DEFINE h == Head(socket)
<1>1. /\ h = socket[1] /\ 1 \in DOMAIN socket /\ h \in Broadcast /\ h.dev \in Devs
      /\ socket' = Tail(socket) /\ broadcasts' = broadcasts /\ sessions' = sessions
      /\ job = None
  BY Shortened, NextBroadcast DEF GetEvent, TypeOK, session_vars
<1>2. /\ \A k \in DOMAIN socket' : /\ k + 1 \in DOMAIN socket /\ k + 1 # 1
                                   /\ socket'[k] = socket[k + 1]
      /\ \A j, k \in DOMAIN socket' : j + 1 = k + 1 => j = k
  BY Shortened DEF GetEvent, TypeOK
<1>3. \A d \in ByUdev' : d \in ByUdev \/ (h.action = "add" /\ h.dev = d)
  BY <1>1 DEF GetEvent, StartJob, ByUdev
<1>4. h.action = "add" => 1 \in Adds
  BY <1>1 DEF Adds
<1> HIDE DEF h
<1>5. \A k \in Adds' : k + 1 \in Adds /\ k + 1 # 1 /\ socket'[k] = socket[k + 1]
                       /\ socket[k + 1].dev \in Devs
  BY <1>2, SocketDevs DEF Adds
<1>6. \A k \in Adds' : ~(h.action = "add" /\ h.dev = socket'[k].dev)
  <2> SUFFICES ASSUME NEW k \in Adds', h.action = "add", h.dev = socket'[k].dev
               PROVE  FALSE
    OBVIOUS
  <2>1. 1 \in Adds /\ k + 1 \in Adds /\ socket[1].dev = socket[k + 1].dev /\ k + 1 # 1
    BY <1>1, <1>4, <1>5
  <2> QED BY <2>1 DEF AddsApart
<1>7. \A j, k \in Adds' : socket'[j].dev = socket'[k].dev => j = k
  <2> SUFFICES ASSUME NEW j \in Adds', NEW k \in Adds', socket'[j].dev = socket'[k].dev
               PROVE  j = k
    OBVIOUS
  <2>1. j + 1 = k + 1
    BY <1>5 DEF AddsApart
  <2> QED BY <1>2, <2>1 DEF Adds
<1>8. \A k \in Adds' : broadcasts'[socket'[k].dev] > 0 /\ socket'[k].dev \notin ByUdev'
  <2> SUFFICES ASSUME NEW k \in Adds'
               PROVE  broadcasts'[socket'[k].dev] > 0 /\ socket'[k].dev \notin ByUdev'
    OBVIOUS
  <2>1. socket[k + 1].dev = socket'[k].dev /\ k + 1 \in Adds
    BY <1>5
  <2>2. broadcasts[socket'[k].dev] > 0 /\ socket'[k].dev \notin ByUdev
    BY <2>1 DEF AddsApart
  <2> QED BY <1>1, <1>3, <1>6, <2>2
<1>9. \A d \in ByUdev' : broadcasts'[d] > 0
  BY <1>1, <1>3, <1>4 DEF AddsApart
<1> QED BY <1>7, <1>8, <1>9 DEF AddsApart

LEMMA NextAdds ==
  ASSUME TypeOK, JobSound, StageSound, AddsApart, [Next]_vars
  PROVE  AddsApart'
<1>1. ASSUME NEW d \in Devs, PlugIn(d) \/ Disconnect(d) \/ Remove(d) PROVE AddsApart'
  BY <1>1, AddsKept DEF PlugIn, Disconnect, Remove, session_vars, ByUdev
<1>2. CASE Finding
  BY <1>2, AddsKept
  DEF Finding, Listen, StartScan, ScanNext, ScanEnds, StartJob, kernel_vars, session_vars,
      ByUdev
<1>3. CASE UdevEvent \/ UdevEventDone
  BY <1>3, AddsKept DEF UdevEvent, UdevEventDone, kernel_vars, session_vars, ByUdev
<1>4. CASE Setup
  <2>1. CASE Register
    <3>1. Registered.via = job.via /\ Registered.fd = job.named /\ job' = None
      BY <2>1, RegisterAppends DEF Registered, Register
    <3>2. ByUdev' \subseteq ByUdev
      BY <1>4, <2>1, <3>1, RegisterAppends, SetupKeepsWay DEF ByUdev
    <3> QED BY <1>4, <3>2, SetupKeepsWay, AddsKept
  <2>2. CASE ~Register
    BY <1>4, <2>2, SetupKeepsWay, SessionsKept, AddsKept DEF ByUdev
  <2> QED BY <2>1, <2>2
<1>5. CASE Ending
  BY <1>5, AddsKept DEF Ending, UsbEvent, kernel_vars, ByUdev
<1>6. CASE UNCHANGED vars
  BY <1>6, AddsKept DEF vars, kernel_vars, session_vars, ByUdev
<1> QED BY <1>1, <1>2, <1>3, <1>4, <1>5, <1>6, AnnounceAdds, GetEventAdds
        DEF Next, Outside, Receiving

--------------------------------------------------------------------------------
(* The theorems.                                                            *)

LEMMA NextInv == ASSUME IInv, [Next]_vars PROVE IInv'
  BY NextType, NextPorts, NextJob, NextDescribes, NextStage, NextScanned, NextNew, NextAdds,
     NextOnce DEF IInv

LEMMA Inductive == Spec => []IInv
<1>1. Init => IInv
  BY InitInv
<1>2. IInv /\ [Next]_vars => IInv'
  BY NextInv
<1> QED BY <1>1, <1>2, PTL DEF Spec

\* Every variable keeps its type, in particular no session is made of a setup
\* that has not opened a node and read descriptors (main.rs:461-640).
THEOREM TypeCorrect == Spec => []TypeOK
<1>1. IInv => TypeOK
  BY DEF IInv
<1> QED BY <1>1, Inductive, PTL

\* A session in the table has the descriptors of the device behind its node, all
\* of them, for as long as that device is there (main.rs:469-580).
THEOREM DescribesCorrect == Spec => []DescribesItsDevice
<1>1. IInv => DescribesItsDevice
  BY DEF IInv
<1> QED BY <1>1, Inductive, PTL

\* A device has one session by the scan at most, and one by udevd's broadcasts
\* (main.rs:3513-3560, 3961-4024).
THEOREM OnceCorrect == Spec => []OncePerWay
<1>1. IInv => OncePerWay
  BY DEF IInv
<1> QED BY <1>1, Inductive, PTL

================================================================================
