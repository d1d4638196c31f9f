--------------------------- MODULE WindowsStub_proofs ---------------------------
(***************************************************************************)
(* WindowsStub: type correctness, the references to handles, the wake-ups  *)
(* of the main thread, the paths it knows and the refinement of            *)
(* RequestReply, for any device and any number of requests.                *)
(*                                                                         *)
(* References are not counted in the proof.  What matters of a root is     *)
(* whether it has a reference to spare beside that of its own claim: the   *)
(* handle the device was opened with is one, a claimed interface that is   *)
(* not a root has left one, and a release never takes one.                 *)
(*                                                                         *)
(* The paths the main thread knows lag behind the callback's by the        *)
(* notifications in the channel.  PathsInv says what they become once      *)
(* those are applied.                                                      *)
(***************************************************************************)
EXTENDS WindowsStub, PipeLemmas, TLAPS, SequenceTheorems

Spare(i) == refs[i] > IF i \in claimed THEN 1 ELSE 0

Referenced ==
  /\ \A i \in claimed : refs[i] > 0
  /\ \A i \in claimed : Root[i] # i => Spare(Root[i])
  /\ opened => \E r \in Roots : Spare(r)
  /\ ~opened => claimed = {} /\ \A i \in Ifaces : refs[i] = 0

\* A message in a channel: the event is set or will be, or the main thread is
\* at the channel already.
Wakeups ==
  /\ rx # <<>> => stdin_event \/ reader = "signalling" \/ main \in {"stdin", "exited"}
  /\ notifs # <<>> =>
       hotplug_event \/ callback = "signalling" \/ main \in {"hotplug", "exited"}

IInv == TypeOK /\ Referenced /\ Wakeups

--------------------------------------------------------------------------------
LEMMA RootsAreRoots ==
  /\ Roots \subseteq Ifaces
  /\ \A i \in Ifaces : Root[i] \in Roots
  /\ \A r \in Roots : Root[r] = r
BY RootAssumption DEF Roots

LEMMA InitIInv == Init => IInv
<1> SUFFICES ASSUME Init PROVE IInv
  OBVIOUS
<1>1. PICK r \in Roots :
        /\ driver = [s \in Roots |-> IF s = r THEN "ready" ELSE "unready"]
        /\ paths = {r}
  BY DEF Init
<1>2. /\ to_stub \in Seq(Nat) /\ rx \in Seq(Nat)
      /\ notifs \in Seq([new : BOOLEAN, iface : Roots])
  BY EmptySeq DEF Init
<1>3. TypeOK
  BY <1>1, <1>2 DEF Init, TypeOK
<1>4. Referenced /\ Wakeups
  BY DEF Init, Referenced, Wakeups
<1> QED BY <1>3, <1>4 DEF IInv

\* What the device's references say of the next state if none is touched.
LEMMA ReferencedUnmoved ==
  Referenced /\ UNCHANGED <<opened, claimed, refs>> => Referenced'
BY DEF Referenced, Spare

LEMMA EndTransfersType ==
  ASSUME TypeOK, NEW S, EndTransfers(S)
  PROVE  in_flight' \subseteq Transfer /\ completed' \subseteq Nat
BY DEF TypeOK, EndTransfers, Transfer

--------------------------------------------------------------------------------
(* The steps that leave the main thread where it is.                        *)

LEMMA ReaderStep ==
  ASSUME IInv, Post \/ Disconnect \/ Reader
  PROVE  IInv'
<1> USE DEF pipe_vars, hotplug_vars, device_vars, io_vars
<1>1. CASE Post
  <2>1. to_stub' \in Seq(Nat) /\ posted' \in Nat
    BY <1>1, AppendProperties DEF IInv, TypeOK, Post
  <2> QED BY <1>1, <2>1, ReferencedUnmoved DEF IInv, TypeOK, Wakeups, Post
<1>2. CASE Disconnect
  BY <1>2, ReferencedUnmoved DEF IInv, TypeOK, Wakeups, Disconnect
<1>3. CASE ReadMessage
  <2>1. Head(to_stub) \in Nat /\ to_stub' \in Seq(Nat)
    BY <1>3, HeadTailProperties DEF IInv, TypeOK, ReadMessage
  <2>2. rx' \in Seq(Nat)
    BY <1>3, <2>1, AppendProperties DEF IInv, TypeOK, ReadMessage
  <2> QED BY <1>3, <2>1, <2>2, ReferencedUnmoved DEF IInv, TypeOK, Wakeups, ReadMessage
<1>4. CASE ReadEof
  <2>1. rx' \in Seq(Nat)
    BY <1>4, AppendProperties DEF IInv, TypeOK, ReadEof, Eof
  <2> QED BY <1>4, <2>1, ReferencedUnmoved DEF IInv, TypeOK, Wakeups, ReadEof
<1>5. CASE SignalStdin
  BY <1>5, ReferencedUnmoved DEF IInv, TypeOK, Wakeups, SignalStdin
<1> QED BY <1>1, <1>2, <1>3, <1>4, <1>5 DEF Reader

LEMMA NotifyStep ==
  ASSUME IInv, NEW new \in BOOLEAN, NEW r \in Roots, NEW s \in {"ready", "removed"},
         Notify(new, r), driver' = [driver EXCEPT ![r] = s],
         in_flight' \subseteq Transfer, completed' \subseteq Nat
  PROVE  IInv'
<1> USE DEF pipe_vars, hotplug_vars, device_vars
<1>1. [new |-> new, iface |-> r] \in [new : BOOLEAN, iface : Roots]
  OBVIOUS
<1>2. notifs' \in Seq([new : BOOLEAN, iface : Roots])
  BY <1>1, AppendProperties DEF IInv, TypeOK, Notify
<1>3. driver' \in [Roots -> {"unready", "ready", "removed"}]
  BY DEF IInv, TypeOK
<1>4. TypeOK'
  BY <1>2, <1>3 DEF IInv, TypeOK, Notify
<1>5. Referenced'
  BY ReferencedUnmoved DEF IInv, Notify
<1>6. Wakeups'
  BY DEF IInv, Wakeups, Notify
<1> QED BY <1>4, <1>5, <1>6 DEF IInv

LEMMA SystemStep ==
  ASSUME IInv, System \/ IocpThread
  PROVE  IInv'
<1> USE DEF pipe_vars, hotplug_vars, device_vars, io_vars
<1>1. ASSUME NEW r \in Roots, Arrival(r) PROVE IInv'
  <2>1. Notify(TRUE, r) /\ driver' = [driver EXCEPT ![r] = "ready"]
    BY <1>1 DEF Arrival
  <2>2. in_flight' \subseteq Transfer /\ completed' \subseteq Nat
    BY <1>1 DEF Arrival, IInv, TypeOK
  <2> QED BY <2>1, <2>2, NotifyStep
<1>2. ASSUME NEW r \in Roots, Removal(r) PROVE IInv'
  <2>1. Notify(FALSE, r) /\ driver' = [driver EXCEPT ![r] = "removed"]
    BY <1>2 DEF Removal
  <2>2. in_flight' \subseteq Transfer /\ completed' \subseteq Nat
    BY <1>2, EndTransfersType DEF Removal, IInv
  <2> QED BY <2>1, <2>2, NotifyStep
<1>3. CASE SignalHotplug
  BY <1>3, ReferencedUnmoved DEF IInv, TypeOK, Wakeups, SignalHotplug
<1>4. ASSUME NEW t \in in_flight, Complete(t) PROVE IInv'
  <2>1. in_flight' \subseteq Transfer /\ completed' \subseteq Nat
    BY <1>4 DEF Complete, IInv, TypeOK, Transfer
  <2> QED BY <1>4, <2>1, ReferencedUnmoved DEF IInv, TypeOK, Wakeups, Complete
<1>5. CASE IocpThread
  <2>1. completed' \subseteq Nat /\ replies' \subseteq Nat
    BY <1>5 DEF IocpThread, IInv, TypeOK
  <2> QED BY <1>5, <2>1, ReferencedUnmoved DEF IInv, TypeOK, Wakeups, IocpThread
<1> QED BY <1>1, <1>2, <1>3, <1>4, <1>5 DEF System

--------------------------------------------------------------------------------
(* Requests.                                                                *)

LEMMA NextRequestStep ==
  ASSUME IInv, NextRequest
  PROVE  /\ Head(rx) \in Nat /\ rx' \in Seq(Nat)
         /\ Wakeups'
         /\ UNCHANGED <<posted, disconnected, to_stub, reader, stdin_event, driver,
                        callback, notifs, hotplug_event, main>>
<1>1. Head(rx) \in Nat /\ rx' \in Seq(Nat)
  BY HeadTailProperties DEF IInv, TypeOK, NextRequest
<1> QED BY <1>1 DEF IInv, Wakeups, NextRequest, pipe_vars, hotplug_vars

\* What is left to show of a request.
LEMMA RequestIInv ==
  ASSUME IInv, NextRequest, replies' \subseteq Nat,
         in_flight' \subseteq Transfer, completed' \subseteq Nat,
         known' \in BOOLEAN, opened' \in BOOLEAN, paths' \subseteq Roots,
         claimed' \subseteq Ifaces, refs' \in [Ifaces -> Nat], Referenced'
  PROVE  IInv'
BY NextRequestStep DEF IInv, TypeOK

LEMMA ReplyType ==
  ASSUME IInv, NextRequest, Reply
  PROVE  replies' \subseteq Nat
BY NextRequestStep DEF IInv, TypeOK, Reply

LEMMA OpenDeviceStep == IInv /\ OpenDevice => IInv'
<1> SUFFICES ASSUME IInv, OpenDevice PROVE IInv'
  OBVIOUS
<1>1. PICK r \in paths : refs' = [refs EXCEPT ![r] = 1]
  BY DEF OpenDevice
<1>2. r \in Roots /\ r \in Ifaces /\ refs \in [Ifaces -> Nat]
  BY <1>1, RootsAreRoots DEF IInv, TypeOK
<1>3. refs' \in [Ifaces -> Nat] /\ refs'[r] = 1
  BY <1>1, <1>2
<1>4. claimed = {} /\ claimed' = {} /\ opened' = TRUE
  BY DEF OpenDevice, IInv, Referenced
<1>5. Referenced'
  BY <1>2, <1>3, <1>4 DEF Referenced, Spare
<1>6. replies' \subseteq Nat
  BY ReplyType DEF OpenDevice
<1> QED BY <1>3, <1>5, <1>6, RequestIInv DEF OpenDevice, IInv, TypeOK

LEMMA CloseDeviceStep == IInv /\ CloseDevice => IInv'
<1> SUFFICES ASSUME IInv, CloseDevice PROVE IInv'
  OBVIOUS
<1>1. refs' \in [Ifaces -> Nat] /\ Referenced'
  BY DEF CloseDevice, Referenced
<1>2. in_flight' \subseteq Transfer /\ completed' \subseteq Nat
  BY EndTransfersType DEF CloseDevice, IInv
<1>3. replies' \subseteq Nat
  BY ReplyType DEF CloseDevice
<1> QED BY <1>1, <1>2, <1>3, RequestIInv DEF CloseDevice, IInv, TypeOK

\* A claim leaves every spare reference where it is, and one to the root if the
\* interface is another.
LEMMA ClaimInterfaceStep ==
  ASSUME IInv, NEW i \in Ifaces, ClaimInterface(i)
  PROVE  IInv'
<1> DEFINE r == Root[i]
<1>1. r \in Roots /\ r \in Ifaces /\ refs \in [Ifaces -> Nat] /\ claimed \subseteq Ifaces
      /\ \A j \in Ifaces : Root[j] \in Ifaces /\ Root[Root[j]] = Root[j]
  BY RootAssumption, RootsAreRoots DEF IInv, TypeOK
<1>2. i \notin claimed /\ opened /\ opened' = opened
  BY DEF ClaimInterface
<1>3. RefRoot(i) \in [Ifaces -> Nat] /\ RefRoot(i)[r] = refs[r] + 1
      /\ \A j \in Ifaces \ {r} : RefRoot(i)[j] = refs[j]
  BY <1>1 DEF RefRoot
<1>4. refs' \in [Ifaces -> Nat] /\ claimed' \subseteq Ifaces /\ Referenced'
  <2>1. CASE r = i /\ refs' = RefRoot(i) /\ claimed' = claimed \cup {i}
    <3>1. \A j \in Ifaces : Spare(j) => Spare(j)'
      BY <1>1, <1>2, <1>3, <2>1 DEF Spare
    <3>2. \A j \in claimed' : refs'[j] > 0
      BY <1>1, <1>3, <2>1 DEF IInv, Referenced
    <3> QED BY <1>1, <1>2, <1>3, <2>1, <3>1, <3>2, RootsAreRoots DEF IInv, Referenced
  <2>2. CASE r # i /\ refs' = [RefRoot(i) EXCEPT ![i] = 1] /\ claimed' = claimed \cup {i}
    <3>1. refs' \in [Ifaces -> Nat] /\ refs'[i] = 1 /\ refs'[r] = refs[r] + 1
          /\ \A j \in Ifaces \ {i, r} : refs'[j] = refs[j]
      BY <1>1, <1>3, <2>2
    <3>2. i \notin Roots
      BY <2>2, RootsAreRoots
    <3>3. \A j \in Roots : Spare(j) => Spare(j)'
      BY <1>1, <2>2, <3>1, <3>2, RootsAreRoots DEF Spare
    <3>4. Spare(r)'
      <4>1. r \in claimed' <=> r \in claimed
        BY <2>2
      <4>2. r \in claimed => refs[r] > 0
        BY DEF IInv, Referenced
      <4> QED BY <1>1, <3>1, <4>1, <4>2 DEF Spare
    <3>5. \A j \in claimed' : refs'[j] > 0
      BY <1>1, <2>2, <3>1 DEF IInv, Referenced
    <3>6. \A j \in claimed' : Root[j] # j => Spare(Root[j])'
      BY <1>1, <2>2, <3>3, <3>4, RootsAreRoots DEF IInv, Referenced
    <3>7. (opened => \E s \in Roots : Spare(s))'
      BY <1>1, <3>4
    <3> QED BY <1>1, <1>2, <2>2, <3>1, <3>5, <3>6, <3>7 DEF Referenced
  <2>3. CASE r # i /\ refs' = RefRoot(i) /\ claimed' = claimed
    <3>1. \A j \in Ifaces : Spare(j) => Spare(j)'
      BY <1>1, <1>3, <2>3 DEF Spare
    <3>2. \A j \in claimed' : refs'[j] > 0
      BY <1>1, <1>3, <2>3 DEF IInv, Referenced
    <3> QED BY <1>1, <1>2, <1>3, <2>3, <3>1, <3>2, RootsAreRoots DEF IInv, Referenced
  <2> QED BY <2>1, <2>2, <2>3 DEF ClaimInterface
<1>5. replies' \subseteq Nat
  BY ReplyType DEF ClaimInterface
<1> QED BY <1>4, <1>5, RequestIInv DEF ClaimInterface, IInv, TypeOK

\* A release takes the claim's own reference, so that every spare one stays.
LEMMA ReleaseInterfaceStep ==
  ASSUME IInv, NEW i \in Ifaces, ReleaseInterface(i)
  PROVE  IInv'
<1>1. /\ refs \in [Ifaces -> Nat] /\ claimed \subseteq Ifaces
      /\ \A j \in Ifaces : Root[j] \in Ifaces /\ Root[Root[j]] = Root[j]
  BY RootAssumption DEF IInv, TypeOK
<1>2. i \in claimed /\ opened /\ opened' = opened /\ claimed' = claimed \ {i}
      /\ refs' = [refs EXCEPT ![i] = @ - 1]
  BY DEF ReleaseInterface
<1>3. refs[i] > 0
  BY <1>2 DEF IInv, Referenced
<1>4. refs' \in [Ifaces -> Nat] /\ refs'[i] = refs[i] - 1
      /\ \A j \in Ifaces \ {i} : refs'[j] = refs[j]
  BY <1>1, <1>2, <1>3
<1>5. \A j \in Ifaces : Spare(j) => Spare(j)'
  BY <1>1, <1>2, <1>4 DEF Spare
<1>6. \A j \in claimed' : refs'[j] > 0
  BY <1>1, <1>2, <1>4 DEF IInv, Referenced
<1>7. Referenced'
  BY <1>1, <1>2, <1>5, <1>6, RootsAreRoots DEF IInv, Referenced
<1>8. in_flight' \subseteq Transfer /\ completed' \subseteq Nat
  BY EndTransfersType DEF ReleaseInterface, IInv
<1>9. replies' \subseteq Nat
  BY ReplyType DEF ReleaseInterface
<1> QED BY <1>2, <1>4, <1>7, <1>8, <1>9, RequestIInv DEF ReleaseInterface, IInv, TypeOK

LEMMA SubmitStep ==
  ASSUME IInv, NEW i \in Ifaces, NextRequest, Submit(i)
  PROVE  IInv'
<1>1. [id |-> Head(rx), file |-> Root[i]] \in Transfer
  BY NextRequestStep, RootsAreRoots DEF Transfer
<1>2. in_flight' \subseteq Transfer
  BY <1>1 DEF Submit, IInv, TypeOK
<1>3. replies' \subseteq Nat
  BY ReplyType DEF Submit, IInv, TypeOK
<1>4. Referenced'
  BY ReferencedUnmoved DEF Submit, IInv, device_vars
<1> QED BY <1>2, <1>3, <1>4, RequestIInv DEF Submit, IInv, TypeOK, device_vars

LEMMA RequestStep == IInv /\ Request => IInv'
<1> SUFFICES ASSUME IInv, Request PROVE IInv'
  OBVIOUS
<1>1. CASE Answer
  <2>1. Referenced' /\ replies' \subseteq Nat
    BY <1>1, ReferencedUnmoved, ReplyType DEF Answer, IInv, device_vars
  <2> QED BY <1>1, <2>1, RequestIInv DEF Answer, IInv, TypeOK, device_vars
<1>2. CASE InternalXfer
  <2>1. Referenced' /\ completed' \subseteq Nat
    BY <1>2, ReferencedUnmoved, NextRequestStep DEF InternalXfer, IInv, TypeOK, device_vars
  <2> QED BY <1>2, <2>1, RequestIInv DEF InternalXfer, IInv, TypeOK, device_vars
<1>3. ASSUME NEW i \in Ifaces, DataXfer(i) PROVE IInv'
  BY <1>3, SubmitStep DEF DataXfer
<1>4. ASSUME NEW i \in Ifaces, CtrlXfer(i) PROVE IInv'
  BY <1>4, SubmitStep DEF CtrlXfer
<1> QED
  BY <1>1, <1>2, <1>3, <1>4, OpenDeviceStep, CloseDeviceStep, ClaimInterfaceStep,
     ReleaseInterfaceStep
  DEF Request

--------------------------------------------------------------------------------
(* The loop.                                                                *)

LEMMA NextNotificationStep ==
  ASSUME IInv, NextNotification
  PROVE  /\ Head(notifs) \in [new : BOOLEAN, iface : Roots]
         /\ notifs' \in Seq([new : BOOLEAN, iface : Roots])
         /\ Wakeups'
         /\ UNCHANGED <<posted, disconnected, to_stub, reader, stdin_event, rx, driver,
                        callback, hotplug_event, main, replies>>
<1>1. /\ Head(notifs) \in [new : BOOLEAN, iface : Roots]
      /\ notifs' \in Seq([new : BOOLEAN, iface : Roots])
  BY HeadTailProperties DEF IInv, TypeOK, NextNotification
<1> QED BY <1>1 DEF IInv, Wakeups, NextNotification, pipe_vars

LEMMA RemoveInterfaceStep == IInv /\ RemoveInterface => IInv'
<1> SUFFICES ASSUME IInv, RemoveInterface PROVE IInv'
  OBVIOUS
<1>1. NextNotification /\ paths' \subseteq Roots
  BY DEF RemoveInterface, IInv, TypeOK
<1>2. CASE known /\ paths' = {}
  <2>1. opened' = FALSE /\ claimed' = {} /\ refs' = [i \in Ifaces |-> 0]
    BY <1>2 DEF RemoveInterface
  <2>3. refs' \in [Ifaces -> Nat] /\ Referenced'
    BY <2>1 DEF Referenced
  <2>2. in_flight' \subseteq Transfer /\ completed' \subseteq Nat
    BY <1>2, EndTransfersType DEF RemoveInterface, IInv
  <2> QED BY <1>1, <1>2, <2>1, <2>2, <2>3, NextNotificationStep DEF RemoveInterface, IInv, TypeOK
<1>3. CASE ~(known /\ paths' = {})
  <2>1. UNCHANGED <<known, opened, claimed, refs, in_flight, completed>>
    BY <1>3 DEF RemoveInterface
  <2> QED BY <1>1, <2>1, ReferencedUnmoved, NextNotificationStep DEF IInv, TypeOK
<1> QED BY <1>2, <1>3

LEMMA RunLoopStep == IInv /\ RunLoop => IInv'
<1> SUFFICES ASSUME IInv, RunLoop PROVE IInv'
  OBVIOUS
<1> USE DEF pipe_vars, hotplug_vars, device_vars, io_vars
<1>1. CASE WaitForEvents
  BY <1>1, ReferencedUnmoved DEF IInv, TypeOK, Wakeups, WaitForEvents
<1>2. CASE Drained
  BY <1>2, ReferencedUnmoved DEF IInv, TypeOK, Wakeups, Drained
<1>3. CASE Exit
  <2>1. rx' \in Seq(Nat)
    BY <1>3, HeadTailProperties DEF IInv, TypeOK, Exit
  <2> QED BY <1>3, <2>1, ReferencedUnmoved DEF IInv, TypeOK, Wakeups, Exit
<1>4. CASE NewInterface
  <2>1. paths' \subseteq Roots
    BY <1>4, NextNotificationStep DEF NewInterface, IInv, TypeOK
  <2> QED BY <1>4, <2>1, ReferencedUnmoved, NextNotificationStep
        DEF NewInterface, IInv, TypeOK
<1> QED BY <1>1, <1>2, <1>3, <1>4, RequestStep, RemoveInterfaceStep DEF RunLoop

--------------------------------------------------------------------------------
(* What the notifications on their way will make of the paths.              *)

\* The paths the device has once the first k notifications are handled.
PathsAfter(k) ==
  {r \in Roots :
     /\ r \in paths \/ \E j \in 1 .. k : notifs[j].iface = r /\ notifs[j].new
     /\ \A j \in 1 .. k : notifs[j].iface = r => notifs[j].new}

\* The callback tells of a driver at most twice, of its arrival first.
NotifsInOrder ==
  /\ \A j \in DOMAIN notifs :
       /\ driver[notifs[j].iface] # "unready"
       /\ ~notifs[j].new => driver[notifs[j].iface] = "removed"
       /\ notifs[j].new => notifs[j].iface \notin paths
  /\ \A j, k \in DOMAIN notifs :
       j < k /\ notifs[j].iface = notifs[k].iface => notifs[j].new /\ ~notifs[k].new
  /\ \A r \in paths : driver[r] # "unready"

\* All of them lead to the drivers there are; and when the main thread comes to
\* an arrival it still has the device to add it to.
PathsPending ==
  /\ PathsAfter(Len(notifs)) = Ready
  /\ \A k \in DOMAIN notifs : notifs[k].new => PathsAfter(k - 1) # {}
  /\ known <=> paths # {}

PathsInv == NotifsInOrder /\ PathsPending

LEMMA PathsUnmoved ==
  PathsInv /\ UNCHANGED <<driver, notifs, paths, known>> => PathsInv'
BY DEF PathsInv, NotifsInOrder, PathsPending, PathsAfter, Ready

LEMMA InitPaths == Init => PathsInv
<1> SUFFICES ASSUME Init PROVE PathsInv
  OBVIOUS
<1>1. PICK r \in Roots :
        /\ driver = [s \in Roots |-> IF s = r THEN "ready" ELSE "unready"]
        /\ paths = {r}
  BY DEF Init
<1>2. notifs = <<>> /\ known
  BY DEF Init
<1>3. PathsAfter(0) = {r} /\ Ready = {r}
  BY <1>1, <1>2 DEF PathsAfter, Ready
<1> QED BY <1>1, <1>2, <1>3 DEF PathsInv, NotifsInOrder, PathsPending

\* A notification more, behind the others.
LEMMA NotifyPaths ==
  ASSUME IInv, PathsInv, NEW new \in BOOLEAN, NEW r \in Roots, Notify(new, r),
         driver[r] = IF new THEN "unready" ELSE "ready",
         driver' = [driver EXCEPT ![r] = IF new THEN "ready" ELSE "removed"],
         new => Ready # {}
  PROVE  PathsInv'
<1> DEFINE n == [new |-> new, iface |-> r]
<1>0. PICK L \in Nat : L = Len(notifs)
  BY LenProperties DEF IInv, TypeOK
<1>1. /\ notifs \in Seq([new : BOOLEAN, iface : Roots])
      /\ n \in [new : BOOLEAN, iface : Roots]
      /\ driver \in [Roots -> {"unready", "ready", "removed"}]
  BY DEF IInv, TypeOK
<1>2. notifs' = Append(notifs, n) /\ paths' = paths /\ known' = known
  BY DEF Notify, device_vars
<1>3. /\ DOMAIN notifs = 1 .. L
      /\ Len(notifs') = L + 1 /\ DOMAIN notifs' = 1 .. L + 1
      /\ notifs'[L + 1] = n /\ \A j \in 1 .. L : notifs'[j] = notifs[j]
  BY <1>0, <1>1, <1>2, AppendProperties, LenProperties
<1>4. n.new = new /\ n.iface = r
  OBVIOUS
<1> HIDE DEF n
<1>5. ASSUME NEW j \in 1 .. L PROVE notifs[j].iface \in Roots
  <2>1. notifs[j] \in [new : BOOLEAN, iface : Roots]
    BY <1>0, <1>1, ElementOfSeq
  <2> QED BY <2>1
<1>6. \A s \in Roots \ {r} : driver'[s] = driver[s]
  BY <1>1
<1>7. driver'[r] = IF new THEN "ready" ELSE "removed"
  BY <1>1
<1>8. \A j \in 1 .. L : notifs[j].iface = r => ~new /\ notifs[j].new
  BY <1>3 DEF PathsInv, NotifsInOrder
<1>9. new => r \notin paths
  BY DEF PathsInv, NotifsInOrder
<1>10. NotifsInOrder'
  <2>1. ASSUME NEW j \in 1 .. L + 1
        PROVE  /\ driver'[notifs'[j].iface] # "unready"
               /\ ~notifs'[j].new => driver'[notifs'[j].iface] = "removed"
               /\ notifs'[j].new => notifs'[j].iface \notin paths'
    <3>1. CASE j = L + 1
      BY <1>2, <1>3, <1>4, <1>7, <1>9, <3>1
    <3>2. CASE j \in 1 .. L
      <4>1. notifs'[j] = notifs[j] /\ notifs[j].iface \in Roots
        BY <1>3, <1>5, <3>2
      <4>2. /\ driver[notifs[j].iface] # "unready"
            /\ ~notifs[j].new => driver[notifs[j].iface] = "removed"
            /\ notifs[j].new => notifs[j].iface \notin paths
        BY <1>3, <3>2 DEF PathsInv, NotifsInOrder
      <4>3. notifs[j].iface = r => ~new /\ notifs[j].new
        BY <1>8, <3>2
      <4> QED BY <1>2, <1>6, <1>7, <4>1, <4>2, <4>3
    <3> QED BY <3>1, <3>2
  <2>2. ASSUME NEW j \in 1 .. L + 1, NEW k \in 1 .. L + 1,
               j < k, notifs'[j].iface = notifs'[k].iface
        PROVE  notifs'[j].new /\ ~notifs'[k].new
    <3>1. j \in 1 .. L
      BY <1>3, <2>2
    <3>2. CASE k = L + 1
      BY <1>3, <1>4, <1>8, <2>2, <3>1, <3>2
    <3>3. CASE k \in 1 .. L
      BY <1>3, <2>2, <3>1, <3>3 DEF PathsInv, NotifsInOrder
    <3> QED BY <1>3, <3>2, <3>3
  <2>3. \A s \in paths' : driver'[s] # "unready"
    BY <1>2, <1>6, <1>7 DEF IInv, TypeOK, PathsInv, NotifsInOrder
  <2> QED BY <1>3, <2>1, <2>2, <2>3 DEF NotifsInOrder
<1>11. \A k \in 0 .. L : PathsAfter(k)' = PathsAfter(k)
  BY <1>2, <1>3 DEF PathsAfter
<1>12. PathsAfter(L + 1)' = IF new THEN PathsAfter(L) \cup {r} ELSE PathsAfter(L) \ {r}
  BY <1>2, <1>3, <1>4, <1>8 DEF PathsAfter
<1>13. Ready' = IF new THEN Ready \cup {r} ELSE Ready \ {r}
  BY <1>6, <1>7 DEF Ready
<1>14. PathsAfter(L) = Ready
  BY <1>0 DEF PathsInv, PathsPending
<1>15. ASSUME NEW k \in 1 .. L + 1, notifs'[k].new
       PROVE  PathsAfter(k - 1)' # {}
  <2>1. k - 1 \in 0 .. L
    OBVIOUS
  <2>2. PathsAfter(k - 1)' = PathsAfter(k - 1)
    BY <1>11, <2>1
  <2>3. CASE k = L + 1
    BY <1>3, <1>4, <1>14, <1>15, <2>2, <2>3
  <2>4. CASE k \in 1 .. L
    BY <1>3, <1>15, <2>2, <2>4 DEF PathsInv, PathsPending
  <2> QED BY <2>3, <2>4
<1>16. PathsPending'
  BY <1>2, <1>3, <1>12, <1>13, <1>14, <1>15 DEF PathsInv, PathsPending
<1> QED BY <1>10, <1>16 DEF PathsInv

\* The first notification is taken off the channel and handled.
LEMMA NotificationPaths ==
  ASSUME IInv, PathsInv, NextNotification,
         paths' = IF Head(notifs).new THEN paths \cup {Head(notifs).iface}
                                      ELSE paths \ {Head(notifs).iface},
         known' <=> paths' # {}
  PROVE  PathsInv'
<1>0. PICK L \in Nat : L = Len(notifs)
  BY LenProperties DEF IInv, TypeOK
<1>1. notifs \in Seq([new : BOOLEAN, iface : Roots]) /\ notifs # <<>>
  BY DEF IInv, TypeOK, NextNotification
<1>2. notifs' = Tail(notifs) /\ driver' = driver
  BY DEF NextNotification
<1>3. /\ L > 0 /\ DOMAIN notifs = 1 .. L
      /\ Len(notifs') = L - 1 /\ DOMAIN notifs' = 1 .. L - 1
      /\ \A j \in 1 .. L - 1 : notifs'[j] = notifs[j + 1]
      /\ Head(notifs) = notifs[1]
  BY <1>0, <1>1, <1>2, HeadTailProperties, LenProperties, EmptySeq
<1>4. PICK h \in [new : BOOLEAN, iface : Roots] : h = notifs[1]
  <2>1. 1 \in 1 .. Len(notifs)
    BY <1>0, <1>3
  <2> QED BY <1>1, <2>1, ElementOfSeq
<1>5. paths' = IF h.new THEN paths \cup {h.iface} ELSE paths \ {h.iface}
  BY <1>3, <1>4
<1>6. \A j \in 1 .. L - 1 : j + 1 \in 1 .. L /\ 1 < j + 1
  OBVIOUS
\* What is said of the root again.
<1>7. \A j \in 1 .. L - 1 : notifs'[j].iface = h.iface => h.new /\ ~notifs'[j].new
  BY <1>3, <1>4, <1>6 DEF PathsInv, NotifsInOrder
<1>8. NotifsInOrder'
  <2>1. ASSUME NEW j \in 1 .. L - 1
        PROVE  /\ driver'[notifs'[j].iface] # "unready"
               /\ ~notifs'[j].new => driver'[notifs'[j].iface] = "removed"
               /\ notifs'[j].new => notifs'[j].iface \notin paths'
    <3>1. notifs'[j] = notifs[j + 1] /\ j + 1 \in DOMAIN notifs
      BY <1>3, <1>6
    <3>2. /\ driver[notifs[j + 1].iface] # "unready"
          /\ ~notifs[j + 1].new => driver[notifs[j + 1].iface] = "removed"
          /\ notifs[j + 1].new => notifs[j + 1].iface \notin paths
      BY <3>1 DEF PathsInv, NotifsInOrder
    <3>3. notifs'[j].iface = h.iface => ~notifs'[j].new
      BY <1>7
    <3> QED BY <1>2, <1>5, <3>1, <3>2, <3>3
  <2>2. ASSUME NEW j \in 1 .. L - 1, NEW k \in 1 .. L - 1,
               j < k, notifs'[j].iface = notifs'[k].iface
        PROVE  notifs'[j].new /\ ~notifs'[k].new
    <3>1. /\ notifs'[j] = notifs[j + 1] /\ j + 1 \in DOMAIN notifs
          /\ notifs'[k] = notifs[k + 1] /\ k + 1 \in DOMAIN notifs
          /\ j + 1 < k + 1
      BY <1>3, <1>6, <2>2
    <3> QED BY <2>2, <3>1 DEF PathsInv, NotifsInOrder
  <2>3. \A r \in paths' : driver'[r] # "unready"
    <3>1. driver[h.iface] # "unready"
      BY <1>3, <1>4 DEF PathsInv, NotifsInOrder
    <3> QED BY <1>2, <1>5, <3>1 DEF PathsInv, NotifsInOrder
  <2> QED BY <1>3, <2>1, <2>2, <2>3 DEF NotifsInOrder
<1>9. ASSUME NEW k \in 0 .. L - 1 PROVE PathsAfter(k)' = PathsAfter(k + 1)
  <2>1. \A j \in 1 .. k : j + 1 \in 2 .. k + 1 /\ notifs'[j] = notifs[j + 1]
    BY <1>3
  <2>2. \A j \in 2 .. k + 1 : j - 1 \in 1 .. k /\ notifs[j] = notifs'[j - 1]
    BY <1>3
  <2>3. \A j \in 1 .. k + 1 : j = 1 \/ j \in 2 .. k + 1
    OBVIOUS
  <2>4. ASSUME NEW r \in Roots
        PROVE  (\E j \in 1 .. k + 1 : notifs[j].iface = r /\ notifs[j].new)
                 <=> \/ h.iface = r /\ h.new
                     \/ \E j \in 1 .. k : notifs'[j].iface = r /\ notifs'[j].new
    BY <1>4, <2>1, <2>2, <2>3
  <2>5. ASSUME NEW r \in Roots
        PROVE  (\A j \in 1 .. k + 1 : notifs[j].iface = r => notifs[j].new)
                 <=> /\ h.iface = r => h.new
                     /\ \A j \in 1 .. k : notifs'[j].iface = r => notifs'[j].new
    BY <1>4, <2>1, <2>2, <2>3
  <2>6. ASSUME NEW j \in 1 .. k, notifs'[j].iface = h.iface
        PROVE  h.new /\ ~notifs'[j].new
    BY <1>7, <2>6
  <2>7. ASSUME NEW r \in Roots PROVE r \in PathsAfter(k)' <=> r \in PathsAfter(k + 1)
    BY <1>5, <2>4, <2>5, <2>6 DEF PathsAfter
  <2> QED BY <2>7 DEF PathsAfter
<1>10. PathsPending'
  <2>1. PathsAfter(L - 1)' = Ready'
    <3>1. L - 1 \in 0 .. L - 1 /\ (L - 1) + 1 = L
      BY <1>3
    <3> QED BY <1>0, <1>2, <1>9, <3>1 DEF PathsInv, PathsPending, Ready
  <2>2. ASSUME NEW k \in 1 .. L - 1, notifs'[k].new PROVE PathsAfter(k - 1)' # {}
    <3>1. k - 1 \in 0 .. L - 1 /\ (k - 1) + 1 = k /\ (k + 1) - 1 = k /\ k + 1 \in DOMAIN notifs
      BY <1>3
    <3>2. PathsAfter(k - 1)' = PathsAfter(k)
      BY <1>9, <3>1
    <3>3. PathsAfter((k + 1) - 1) # {}
      BY <1>3, <2>2, <3>1 DEF PathsInv, PathsPending
    <3> QED BY <3>1, <3>2, <3>3
  <2> QED BY <1>3, <2>1, <2>2 DEF PathsPending
<1> QED BY <1>8, <1>10 DEF PathsInv

LEMMA NextPaths == IInv /\ PathsInv /\ [Next]_vars => PathsInv'
<1> SUFFICES ASSUME IInv, PathsInv, [Next]_vars PROVE PathsInv'
  OBVIOUS
<1>1. ASSUME NEW r \in Roots, Arrival(r) PROVE PathsInv'
  BY <1>1, NotifyPaths DEF Arrival
<1>2. ASSUME NEW r \in Roots, Removal(r) PROVE PathsInv'
  BY <1>2, NotifyPaths DEF Removal
<1>3. CASE NewInterface
  <2>1. NextNotification /\ Head(notifs).new
    BY <1>3 DEF NewInterface
  <2>2. /\ notifs \in Seq([new : BOOLEAN, iface : Roots]) /\ notifs # <<>>
        /\ paths \subseteq Roots /\ known \in BOOLEAN
    BY <2>1 DEF IInv, TypeOK, NextNotification
  <2>3. 1 \in DOMAIN notifs /\ Head(notifs) = notifs[1]
    BY <2>2, HeadTailProperties, EmptySeq
  <2>4. PathsAfter(1 - 1) # {}
    BY <2>1, <2>3 DEF PathsInv, PathsPending
  <2>5. PathsAfter(1 - 1) = paths
    BY <2>2 DEF PathsAfter
  <2>6. known /\ paths' = paths \cup {Head(notifs).iface} /\ known' = known
    BY <1>3, <2>4, <2>5 DEF NewInterface, PathsInv, PathsPending
  <2> QED BY <2>1, <2>2, <2>6, NotificationPaths
<1>4. CASE RemoveInterface
  <2>1. NextNotification /\ ~Head(notifs).new /\ paths' = paths \ {Head(notifs).iface}
    BY <1>4 DEF RemoveInterface
  <2>2. known' <=> paths' # {}
    BY <1>4, <2>1 DEF RemoveInterface, PathsInv, PathsPending
  <2> QED BY <2>1, <2>2, NotificationPaths
<1>5. UNCHANGED <<driver, notifs, paths, known>> => PathsInv'
  BY PathsUnmoved
<1> USE DEF pipe_vars, hotplug_vars, device_vars, io_vars
<1>6. CASE Post \/ Disconnect \/ Reader \/ SignalHotplug \/ IocpThread \/ UNCHANGED vars
  BY <1>5, <1>6
  DEF Post, Disconnect, Reader, ReadMessage, ReadEof, SignalStdin, SignalHotplug,
      IocpThread, vars
<1>7. ASSUME NEW t \in in_flight, Complete(t) PROVE PathsInv'
  BY <1>5, <1>7 DEF Complete
<1>8. CASE Request
  <2>1. NextRequest /\ UNCHANGED <<paths, known>>
    BY <1>8
    DEF Request, Answer, OpenDevice, CloseDevice, InternalXfer, ClaimInterface,
        ReleaseInterface, DataXfer, CtrlXfer, Submit
  <2> QED BY <1>5, <2>1 DEF NextRequest
<1>9. CASE WaitForEvents \/ Exit \/ Drained
  BY <1>5, <1>9 DEF WaitForEvents, Exit, Drained
<1> QED BY <1>1, <1>2, <1>3, <1>4, <1>6, <1>7, <1>8, <1>9 DEF Next, System, RunLoop

--------------------------------------------------------------------------------
(* Where the ids are: each in one place, and there once.                    *)

FlightIds == {t.id : t \in in_flight}

\* A request is on stdin, in the channel, with the device or in a packet.
IdsApart ==
  /\ NoRepeat(to_stub) /\ NoRepeat(rx)
  /\ \A t, u \in in_flight : t.id = u.id => t = u
  /\ Elems(to_stub) \cap Elems(rx) = {}
  /\ (Elems(to_stub) \cup Elems(rx)) \cap (FlightIds \cup completed) = {}
  /\ FlightIds \cap completed = {}
  /\ Elems(to_stub) \cup (Elems(rx) \ {Eof}) \cup FlightIds \cup completed \subseteq 1 .. posted

\* The step is one of RequestReply, or none, in terms of sets of ids.
ServiceStep ==
  LET used == 1 .. posted
      asking == Elems(to_stub) \cup (Elems(rx) \ {Eof}) \cup FlightIds \cup completed
  IN  \/ /\ used \subseteq used' /\ used' # used
         /\ asking' = asking \cup (used' \ used)
         /\ replies' = replies
      \/ \E id \in asking : /\ asking' = asking \ {id}
                            /\ replies' = replies \cup {id}
                            /\ used' = used
      \/ used' = used /\ asking' = asking /\ replies' = replies

LEMMA ServiceStepRefines ==
  ASSUME ServiceStep
  PROVE  [Service!Next]_(Service!vars)
BY DEF ServiceStep, Elems, FlightIds, Service!Next, Service!Ask, Service!Finish,
       Service!Deliver, Service!vars

\* Transfers end: their ids go from the device to packets.
LEMMA TransfersEnd ==
  ASSUME IdsApart, NEW S, in_flight' = in_flight \ S,
         completed' = completed \cup {t.id : t \in in_flight \cap S}
  PROVE  /\ FlightIds' \cup completed' = FlightIds \cup completed
         /\ FlightIds' \cap completed' = {}
         /\ \A t, u \in in_flight' : t.id = u.id => t = u
<1>1. FlightIds' = {t.id : t \in in_flight \ S}
  BY DEF FlightIds
<1>2. {t.id : t \in in_flight \ S} \cap {t.id : t \in in_flight \cap S} = {}
  BY DEF IdsApart
<1> QED BY <1>1, <1>2 DEF IdsApart, FlightIds

LEMMA EndTransfersIds ==
  ASSUME IdsApart, NEW S, EndTransfers(S)
  PROVE  /\ FlightIds' \cup completed' = FlightIds \cup completed
         /\ FlightIds' \cap completed' = {}
         /\ \A t, u \in in_flight' : t.id = u.id => t = u
<1> DEFINE T == {t \in in_flight : t.file \in S}
<1>1. in_flight' = in_flight \ T /\ completed' = completed \cup {t.id : t \in in_flight \cap T}
  <2>1. in_flight' = in_flight \ T /\ in_flight \cap T = T
    BY DEF EndTransfers
  <2> QED BY <2>1 DEF EndTransfers
<1> QED BY <1>1, TransfersEnd

LEMMA IdsUnmoved ==
  IdsApart /\ UNCHANGED <<posted, to_stub, rx, io_vars>> => IdsApart' /\ ServiceStep
BY DEF IdsApart, ServiceStep, Elems, NoRepeat, FlightIds, io_vars

LEMMA ReaderIds ==
  ASSUME IInv, IdsApart, Post \/ Disconnect \/ Reader
  PROVE  IdsApart' /\ ServiceStep
<1> USE DEF pipe_vars, io_vars
<1>1. posted \in Nat /\ to_stub \in Seq(Nat) /\ rx \in Seq(Nat)
  BY DEF IInv, TypeOK
<1>2. CASE Post
  <2>1. posted' = posted + 1 /\ to_stub' = Append(to_stub, posted + 1)
        /\ UNCHANGED <<rx, io_vars>>
    BY <1>2 DEF Post
  <2>2. /\ posted + 1 \in Nat /\ posted + 1 \notin 1 .. posted /\ posted + 1 # Eof
        /\ 1 .. posted' = (1 .. posted) \cup {posted + 1}
    BY <1>1, <2>1 DEF Eof
  <2>3. /\ posted + 1 \notin Elems(to_stub) /\ posted + 1 \notin Elems(rx)
        /\ posted + 1 \notin FlightIds \cup completed
    BY <2>2 DEF IdsApart
  <2>4. NoRepeat(to_stub') /\ Elems(to_stub') = Elems(to_stub) \cup {posted + 1}
    BY <1>1, <2>1, <2>2, <2>3, AppendElems DEF IdsApart
  <2>5. Elems(rx)' = Elems(rx) /\ NoRepeat(rx)' = NoRepeat(rx) /\ FlightIds' = FlightIds
        /\ completed' = completed /\ in_flight' = in_flight /\ replies' = replies
    BY <2>1 DEF FlightIds
  <2>6. IdsApart'
    BY <2>2, <2>3, <2>4, <2>5 DEF IdsApart
  <2>7. ServiceStep
    BY <2>2, <2>4, <2>5 DEF ServiceStep
  <2> QED BY <2>6, <2>7
<1>3. CASE Disconnect \/ SignalStdin
  BY <1>3, IdsUnmoved DEF Disconnect, SignalStdin
<1>4. CASE ReadMessage
  <2>1. to_stub # <<>> /\ to_stub' = Tail(to_stub) /\ rx' = Append(rx, Head(to_stub))
        /\ UNCHANGED <<posted, io_vars>>
    BY <1>4 DEF ReadMessage
  <2>2. Head(to_stub) \in Nat
    BY <1>1, <2>1, HeadTailProperties
  <2>3. /\ Head(to_stub) \in Elems(to_stub)
        /\ NoRepeat(to_stub') /\ Elems(to_stub') = Elems(to_stub) \ {Head(to_stub)}
    BY <1>1, <2>1, TailElems DEF IdsApart
  <2>4. /\ Head(to_stub) \in 1 .. posted /\ Head(to_stub) \notin Elems(rx)
        /\ Head(to_stub) \notin FlightIds \cup completed /\ Head(to_stub) # Eof
    BY <2>3 DEF IdsApart, Eof
  <2>5. NoRepeat(rx') /\ Elems(rx') = Elems(rx) \cup {Head(to_stub)}
    BY <1>1, <2>1, <2>2, <2>4, AppendElems DEF IdsApart
  <2>6. FlightIds' = FlightIds /\ completed' = completed /\ in_flight' = in_flight
        /\ replies' = replies /\ posted' = posted
    BY <2>1 DEF FlightIds
  <2>7. IdsApart'
    BY <2>3, <2>4, <2>5, <2>6 DEF IdsApart
  <2>8. ServiceStep
    BY <2>3, <2>4, <2>5, <2>6 DEF ServiceStep
  <2> QED BY <2>7, <2>8
<1>5. CASE ReadEof
  <2>1. rx' = Append(rx, Eof) /\ Eof \notin Elems(rx) /\ UNCHANGED <<posted, to_stub, io_vars>>
    BY <1>5 DEF ReadEof, Elems
  <2>2. NoRepeat(rx') /\ Elems(rx') = Elems(rx) \cup {Eof}
    BY <1>1, <2>1, AppendElems DEF IdsApart, Eof
  <2>3. Eof \notin 1 .. posted
    BY DEF Eof
  <2>4. FlightIds' = FlightIds /\ completed' = completed /\ in_flight' = in_flight
        /\ replies' = replies /\ posted' = posted /\ to_stub' = to_stub
    BY <2>1 DEF FlightIds
  <2>5. IdsApart'
    <3>1. Eof \notin Elems(to_stub) \cup FlightIds \cup completed
      BY <2>3 DEF IdsApart
    <3> QED BY <2>2, <2>4, <3>1 DEF IdsApart
  <2>6. ServiceStep
    BY <2>2, <2>4 DEF ServiceStep
  <2> QED BY <2>5, <2>6
<1> QED BY <1>2, <1>3, <1>4, <1>5 DEF Reader

LEMMA SystemIds ==
  ASSUME IInv, IdsApart, System \/ IocpThread
  PROVE  IdsApart' /\ ServiceStep
<1> USE DEF pipe_vars, io_vars
<1>1. ASSUME UNCHANGED <<posted, to_stub, rx, replies>>,
             FlightIds' \cup completed' = FlightIds \cup completed,
             FlightIds' \cap completed' = {},
             \A t, u \in in_flight' : t.id = u.id => t = u
      PROVE  IdsApart' /\ ServiceStep
  <2>1. Elems(rx)' = Elems(rx) /\ NoRepeat(rx)' = NoRepeat(rx) /\ posted' = posted
        /\ Elems(to_stub)' = Elems(to_stub) /\ NoRepeat(to_stub)' = NoRepeat(to_stub)
    BY <1>1
  <2>2. IdsApart'
    BY <1>1, <2>1 DEF IdsApart
  <2>3. ServiceStep
    BY <1>1, <2>1 DEF ServiceStep
  <2> QED BY <2>2, <2>3
<1>2. ASSUME NEW r \in Roots, Arrival(r) PROVE IdsApart' /\ ServiceStep
  BY <1>2, IdsUnmoved DEF Arrival, Notify
<1>3. ASSUME NEW r \in Roots, Removal(r) PROVE IdsApart' /\ ServiceStep
  BY <1>1, <1>3, EndTransfersIds DEF Removal, Notify
<1>4. CASE SignalHotplug
  BY <1>4, IdsUnmoved DEF SignalHotplug
<1>5. ASSUME NEW t \in in_flight, Complete(t) PROVE IdsApart' /\ ServiceStep
  <2>1. in_flight \cap {t} = {t}
    BY <1>5
  <2>2. in_flight' = in_flight \ {t}
        /\ completed' = completed \cup {u.id : u \in in_flight \cap {t}}
    BY <1>5, <2>1 DEF Complete
  <2> QED BY <1>1, <1>5, <2>2, TransfersEnd DEF Complete
<1>6. CASE IocpThread
  <2>1. PICK id \in completed : completed' = completed \ {id} /\ replies' = replies \cup {id}
    BY <1>6 DEF IocpThread
  <2>2. UNCHANGED <<posted, to_stub, rx, in_flight>>
    BY <1>6 DEF IocpThread
  <2>3. /\ Elems(rx)' = Elems(rx) /\ Elems(to_stub)' = Elems(to_stub)
        /\ NoRepeat(rx)' = NoRepeat(rx) /\ NoRepeat(to_stub)' = NoRepeat(to_stub)
        /\ FlightIds' = FlightIds /\ posted' = posted /\ in_flight' = in_flight
    BY <2>2 DEF FlightIds
  <2>4. IdsApart'
    BY <2>1, <2>3 DEF IdsApart
  <2>5. id \notin Elems(to_stub) \cup Elems(rx) \cup FlightIds
    BY <2>1 DEF IdsApart
  <2>6. ServiceStep
    BY <2>1, <2>3, <2>5 DEF ServiceStep
  <2> QED BY <2>4, <2>6
<1> QED BY <1>2, <1>3, <1>4, <1>5, <1>6 DEF System

\* A request leaves the channel: it is answered, or it is with the device.
LEMMA NextRequestIds ==
  ASSUME IInv, IdsApart, NextRequest,
         FlightIds' \cap completed' = {},
         \A t, u \in in_flight' : t.id = u.id => t = u,
         \/ /\ Reply
            /\ FlightIds' \cup completed' = FlightIds \cup completed
         \/ /\ replies' = replies
            /\ FlightIds' \cup completed' = FlightIds \cup completed \cup {Head(rx)}
  PROVE  IdsApart' /\ ServiceStep
<1>1. rx \in Seq(Nat) /\ rx # <<>> /\ Head(rx) # Eof /\ rx' = Tail(rx)
      /\ posted' = posted /\ to_stub' = to_stub
  BY DEF IInv, TypeOK, NextRequest, pipe_vars
<1>2. Head(rx) \in Elems(rx) /\ NoRepeat(rx') /\ Elems(rx') = Elems(rx) \ {Head(rx)}
  BY <1>1, TailElems DEF IdsApart
<1>3. Elems(to_stub)' = Elems(to_stub) /\ NoRepeat(to_stub)' = NoRepeat(to_stub)
  BY <1>1
<1>4. Head(rx) \in 1 .. posted /\ Head(rx) \notin Elems(to_stub)
      /\ Head(rx) \notin FlightIds \cup completed
  BY <1>1, <1>2 DEF IdsApart
<1>5. IdsApart'
  BY <1>1, <1>2, <1>3, <1>4 DEF IdsApart
<1>6. ServiceStep
  BY <1>1, <1>2, <1>3, <1>4 DEF ServiceStep, Reply
<1> QED BY <1>5, <1>6

LEMMA RequestIds ==
  ASSUME IInv, IdsApart, Request
  PROVE  IdsApart' /\ ServiceStep
<1> USE DEF device_vars
<1>1. ASSUME NextRequest, Reply, UNCHANGED <<in_flight, completed>>
      PROVE  IdsApart' /\ ServiceStep
  <2>1. FlightIds' = FlightIds
    BY <1>1 DEF FlightIds
  <2> QED BY <1>1, <2>1, NextRequestIds DEF IdsApart
<1>2. ASSUME NextRequest, Reply, NEW S, EndTransfers(S)
      PROVE  IdsApart' /\ ServiceStep
  BY <1>2, EndTransfersIds, NextRequestIds
<1>3. NextRequest => Head(rx) \notin FlightIds \cup completed
  <2> SUFFICES ASSUME NextRequest PROVE Head(rx) \notin FlightIds \cup completed
    OBVIOUS
  <2>1. rx \in Seq(Nat) /\ rx # <<>>
    BY DEF IInv, TypeOK, NextRequest
  <2> QED BY <2>1, TailElems DEF IdsApart
<1>4. ASSUME NEW i \in Ifaces, NextRequest, Submit(i)
      PROVE  IdsApart' /\ ServiceStep
  <2>1. CASE Reply /\ UNCHANGED in_flight
    BY <1>1, <1>4, <2>1 DEF Submit
  <2>2. CASE /\ in_flight' = in_flight \cup {[id |-> Head(rx), file |-> Root[i]]}
             /\ replies' = replies
    <3>1. completed' = completed
      BY <1>4 DEF Submit
    <3>2. FlightIds' = FlightIds \cup {Head(rx)}
      <4> DEFINE n == [id |-> Head(rx), file |-> Root[i]]
      <4>1. n.id = Head(rx) /\ in_flight' = in_flight \cup {n}
        BY <2>2
      <4> HIDE DEF n
      <4> QED BY <4>1 DEF FlightIds
    <3>3. \A t \in in_flight : t.id # Head(rx)
      BY <1>3, <1>4 DEF FlightIds
    <3>4. \A t, u \in in_flight' : t.id = u.id => t = u
      BY <2>2, <3>3 DEF IdsApart
    <3>5. FlightIds' \cap completed' = {}
      BY <1>3, <1>4, <3>1, <3>2 DEF IdsApart
    <3> QED BY <1>4, <2>2, <3>1, <3>2, <3>4, <3>5, NextRequestIds
  <2> QED BY <1>4, <2>1, <2>2 DEF Submit
<1>5. CASE Answer
  BY <1>1, <1>5 DEF Answer
<1>6. CASE OpenDevice
  BY <1>1, <1>6 DEF OpenDevice
<1>7. CASE CloseDevice
  BY <1>2, <1>7 DEF CloseDevice
<1>8. CASE InternalXfer
  <2>1. FlightIds' = FlightIds /\ in_flight' = in_flight
    BY <1>8 DEF InternalXfer, FlightIds
  <2>2. NextRequest /\ completed' = completed \cup {Head(rx)} /\ replies' = replies
    BY <1>8 DEF InternalXfer
  <2>3. FlightIds' \cap completed' = {}
    BY <1>3, <2>1, <2>2 DEF IdsApart
  <2> QED BY <2>1, <2>2, <2>3, NextRequestIds DEF IdsApart
<1>9. ASSUME NEW i \in Ifaces, ClaimInterface(i) PROVE IdsApart' /\ ServiceStep
  BY <1>1, <1>9 DEF ClaimInterface
<1>10. ASSUME NEW i \in Ifaces, ReleaseInterface(i) PROVE IdsApart' /\ ServiceStep
  BY <1>2, <1>10 DEF ReleaseInterface
<1>11. ASSUME NEW i \in Ifaces, DataXfer(i) \/ CtrlXfer(i) PROVE IdsApart' /\ ServiceStep
  BY <1>4, <1>11 DEF DataXfer, CtrlXfer
<1> QED BY <1>5, <1>6, <1>7, <1>8, <1>9, <1>10, <1>11 DEF Request

LEMMA NextIds ==
  ASSUME IInv, IdsApart, [Next]_vars
  PROVE  IdsApart' /\ ServiceStep
<1> USE DEF pipe_vars, hotplug_vars, io_vars
<1>1. CASE WaitForEvents \/ Drained \/ NewInterface \/ UNCHANGED vars
  BY <1>1, IdsUnmoved DEF WaitForEvents, Drained, NewInterface, NextNotification, vars
<1>2. CASE Exit
  <2>1. rx \in Seq(Nat) /\ rx # <<>> /\ Head(rx) = Eof /\ rx' = Tail(rx)
        /\ UNCHANGED <<posted, to_stub, in_flight, completed, replies>>
    BY <1>2 DEF IInv, TypeOK, Exit
  <2>2. NoRepeat(rx') /\ Elems(rx') = Elems(rx) \ {Eof}
    BY <2>1, TailElems DEF IdsApart
  <2>3. Elems(to_stub)' = Elems(to_stub) /\ NoRepeat(to_stub)' = NoRepeat(to_stub)
        /\ FlightIds' = FlightIds
    BY <2>1 DEF FlightIds
  <2>4. IdsApart'
    BY <2>1, <2>2, <2>3 DEF IdsApart
  <2>5. ServiceStep
    BY <2>1, <2>2, <2>3 DEF ServiceStep
  <2> QED BY <2>4, <2>5
<1>3. CASE RemoveInterface
  <2>1. UNCHANGED <<posted, to_stub, rx, replies>>
    BY <1>3 DEF RemoveInterface, NextNotification
  <2>2. /\ FlightIds' \cup completed' = FlightIds \cup completed
        /\ FlightIds' \cap completed' = {}
        /\ \A t, u \in in_flight' : t.id = u.id => t = u
    <3>1. CASE UNCHANGED <<in_flight, completed>>
      BY <3>1 DEF IdsApart, FlightIds
    <3>2. CASE EndTransfers(Handles)
      BY <3>2, EndTransfersIds
    <3> QED BY <1>3, <3>1, <3>2 DEF RemoveInterface
  <2>3. /\ Elems(rx)' = Elems(rx) /\ Elems(to_stub)' = Elems(to_stub) /\ posted' = posted
        /\ NoRepeat(rx)' = NoRepeat(rx) /\ NoRepeat(to_stub)' = NoRepeat(to_stub)
    BY <2>1
  <2>4. IdsApart'
    BY <2>2, <2>3 DEF IdsApart
  <2>5. ServiceStep
    BY <2>1, <2>2, <2>3 DEF ServiceStep
  <2> QED BY <2>4, <2>5
<1> QED BY <1>1, <1>2, <1>3, ReaderIds, SystemIds, RequestIds DEF Next, RunLoop

--------------------------------------------------------------------------------
(* The theorems.                                                            *)

LEMMA SpecIInv == Spec => []IInv
<1>1. IInv /\ UNCHANGED vars => IInv'
  BY ReferencedUnmoved
  DEF IInv, TypeOK, Wakeups, vars, pipe_vars, hotplug_vars, device_vars, io_vars
<1>2. IInv /\ [Next]_vars => IInv'
  BY <1>1, ReaderStep, SystemStep, RunLoopStep DEF Next
<1> QED BY <1>2, InitIInv, PTL DEF Spec

\* Every variable always holds a value of its type; in particular no reference
\* count drops below zero.
THEOREM TypeCorrect == Spec => []TypeOK
BY SpecIInv, PTL DEF IInv

\* An interface that is claimed has its handle and its root's, and an open device
\* has a handle: none of the expect()s and unwrap()s of main.rs that say so can
\* end the stub (main.rs:2443, 2470, 2566, 2590, 2622, 2687, 2730, 2775).
THEOREM HandlesCorrect == Spec => []HandlesSuffice
<1>1. IInv => HandlesSuffice
  <2> SUFFICES ASSUME IInv PROVE HandlesSuffice
    OBVIOUS
  <2>1. refs \in [Ifaces -> Nat] /\ claimed \subseteq Ifaces /\ Referenced
    BY DEF IInv, TypeOK
  <2>2. \A r \in Ifaces : Spare(r) => refs[r] > 0
    BY <2>1 DEF Spare
  <2>3. ClaimHasHandles
    BY <2>1, <2>2, RootAssumption DEF ClaimHasHandles, Referenced
  <2>4. OpenHasHandle
    BY <2>1, <2>2, RootsAreRoots DEF OpenHasHandle, Handles, Referenced
  <2> QED BY <2>3, <2>4 DEF HandlesSuffice
<1> QED BY <1>1, SpecIInv, PTL

\* The main thread never waits while a message lies in a channel and nothing is
\* about to wake it (main.rs:3836-3890, stdio_windows.rs:76-81).
THEOREM WakeupsCorrect == Spec => []NoLostWakeup
<1>1. IInv => NoLostWakeup
  BY DEF IInv, Wakeups, NoLostWakeup
<1> QED BY <1>1, SpecIInv, PTL

\* Once the notifications are handled, the device has the paths of exactly the
\* drivers that are there, and it is known as long as there is one, in whatever
\* order the interfaces came and went (main.rs:3856-3884, enum_windows.rs:1475).
THEOREM PathsCorrect == Spec => []PathsFollow
<1>1. IInv /\ PathsInv => PathsFollow
  <2> SUFFICES ASSUME IInv, PathsInv, notifs = <<>> PROVE paths = Ready /\ (known <=> Ready # {})
    BY DEF PathsFollow
  <2>1. PathsAfter(0) = paths
    BY DEF PathsAfter, IInv, TypeOK
  <2> QED BY <2>1 DEF PathsInv, PathsPending
<1> QED BY <1>1, InitPaths, NextPaths, SpecIInv, PTL DEF Spec

\* The stub on Windows implements RequestReply across its three threads: every
\* request is carried out once and answered once, by the main thread or by the
\* IOCP thread, whatever fails and whenever handles are closed under transfers
\* (stdio_windows.rs:21-83, main.rs:3074-3118, usb_windows.rs:18-173).
THEOREM ServiceCorrect == Spec => ServiceSpec
<1>1. Init => Service!Init /\ IdsApart
  <2> SUFFICES ASSUME Init PROVE Service!Init /\ IdsApart
    OBVIOUS
  <2>1. 1 .. posted = {} /\ to_stub = <<>> /\ rx = <<>>
        /\ in_flight = {} /\ completed = {} /\ replies = {}
    BY DEF Init
  <2>2. Service!Init
    BY <2>1 DEF Service!Init
  <2>3. IdsApart
    BY <2>1 DEF IdsApart, NoRepeat, Elems, FlightIds
  <2> QED BY <2>2, <2>3
<1>2. IInv /\ IdsApart /\ [Next]_vars => IdsApart' /\ [Service!Next]_(Service!vars)
  BY NextIds, ServiceStepRefines
<1> QED BY <1>1, <1>2, SpecIInv, PTL DEF Spec, ServiceSpec, Service!Spec

================================================================================
