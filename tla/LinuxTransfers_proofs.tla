-------------------------- MODULE LinuxTransfers_proofs ------------------------
(***************************************************************************)
(* LinuxTransfers: type correctness, the ownership of URBs and boxes, and  *)
(* the refinement of RequestReply, for any devices and any bound, with     *)
(* system calls failing at will; and, if none fails, that a timeout hits   *)
(* its own transfer.                                                       *)
(*                                                                         *)
(* An URB is submitted under a fresh id or the box of another would be     *)
(* freed with it, so the invariant says where ids can be: in one of the    *)
(* pipes or with an URB, and once only (IdsApart).                         *)
(***************************************************************************)
EXTENDS LinuxTransfers, PipeLemmas, TLAPS, SequenceTheorems

UrbIds == {t.id : t \in in_flight \cup completed}
WrapperIds == {t.id : t \in wrappers}

IdsApart ==
  /\ Distinct(to_stub) /\ Distinct(to_bg)
  /\ \A t, u \in wrappers : t.id = u.id => t = u
  /\ SeqIds(to_stub) \cap WrapperIds = {}
  /\ SeqIds(to_stub) \cap SeqIds(to_bg) = {}
  /\ SeqIds(to_bg) \cap UrbIds = {}
  /\ SeqIds(to_stub) \cup SeqIds(to_bg) \cup WrapperIds \subseteq 1 .. next_id - 1

\* A batch has one event of stdin at most, fetched when there was a request.
StdinOnce ==
  /\ \A j, k \in DOMAIN epoll_buf :
       epoll_buf[j] = StdinEvent /\ epoll_buf[k] = StdinEvent => j = k
  /\ (\E j \in DOMAIN epoll_buf : epoll_buf[j] = StdinEvent) => to_stub # <<>>

IInv == TypeOK /\ SlotOwned /\ KernelHasBoxes /\ IdsApart /\ StdinOnce

--------------------------------------------------------------------------------
(* The actions, reduced to what the invariant speaks of.                    *)

\* A request is taken off stdin and the event that said so is used up.
LEMMA RequestedStep ==
  ASSUME IInv, NEW kinds, Requested(kinds)
  PROVE  /\ to_stub # <<>>
         /\ Head(to_stub) \in Transfer
         /\ to_stub' = Tail(to_stub)
         /\ epoll_buf' = Tail(epoll_buf)
         /\ epoll_buf # <<>> /\ Head(epoll_buf) = StdinEvent
<1>1. epoll_buf \in Seq(Events) /\ to_stub \in Seq(Transfer)
  BY DEF IInv, TypeOK
<1>2. epoll_buf # <<>> /\ Head(epoll_buf) \in Events /\ Head(epoll_buf).source = "stdin"
  BY <1>1, HeadTailProperties DEF Requested, Handling
<1>3. Head(epoll_buf) = StdinEvent
  BY <1>2 DEF Events, StdinEvent
<1>4. epoll_buf[1] = StdinEvent /\ 1 \in DOMAIN epoll_buf
  BY <1>1, <1>2, <1>3, HeadTailProperties, EmptySeq
<1>5. to_stub # <<>>
  BY <1>4 DEF IInv, StdinOnce
<1> QED BY <1>1, <1>2, <1>3, <1>5, HeadTailProperties DEF Requested

\* What is left of a batch.
LEMMA BatchTail ==
  ASSUME IInv, epoll_buf # <<>>
  PROVE  /\ Head(epoll_buf) \in Events
         /\ Tail(epoll_buf) \in Seq(Events)
         /\ \A j, k \in DOMAIN Tail(epoll_buf) :
              Tail(epoll_buf)[j] = StdinEvent /\ Tail(epoll_buf)[k] = StdinEvent => j = k
         /\ (\E j \in DOMAIN Tail(epoll_buf) : Tail(epoll_buf)[j] = StdinEvent)
              => to_stub # <<>> /\ Head(epoll_buf) # StdinEvent
<1>1. epoll_buf \in Seq(Events)
  BY DEF IInv, TypeOK
<1>2. /\ Len(epoll_buf) \in Nat /\ Len(epoll_buf) >= 1
      /\ DOMAIN epoll_buf = 1 .. Len(epoll_buf)
      /\ Head(epoll_buf) = epoll_buf[1] /\ Head(epoll_buf) \in Events
      /\ Tail(epoll_buf) \in Seq(Events)
      /\ DOMAIN Tail(epoll_buf) = 1 .. Len(epoll_buf) - 1
      /\ \A k \in 1 .. Len(epoll_buf) - 1 : Tail(epoll_buf)[k] = epoll_buf[k + 1]
  BY <1>1, HeadTailProperties, EmptySeq
<1>3. \A k \in 1 .. Len(epoll_buf) - 1 :
        k + 1 \in 1 .. Len(epoll_buf) /\ k + 1 # 1 /\ 1 \in 1 .. Len(epoll_buf)
  BY <1>2
<1>4. \A j, k \in 1 .. Len(epoll_buf) - 1 : j + 1 = k + 1 => j = k
  BY <1>2
<1> QED BY <1>2, <1>3, <1>4 DEF IInv, StdinOnce

\* The step is one of RequestReply, or none, in terms of sets of ids.
ServiceStep ==
  LET used == 1 .. next_id - 1
      asking == UrbIds \cup SeqIds(to_stub)
      answering == SeqIds(to_bg)
  IN  \/ /\ used \subseteq used' /\ used' # used
         /\ asking' = asking \cup (used' \ used)
         /\ answering' = answering
      \/ \E id \in asking : /\ asking' = asking \ {id}
                            /\ answering' = answering \cup {id}
                            /\ used' = used
      \/ \E id \in answering : /\ answering' = answering \ {id}
                               /\ used' = used /\ asking' = asking
      \/ used' = used /\ asking' = asking /\ answering' = answering

LEMMA ServiceStepRefines ==
  ASSUME ServiceStep
  PROVE  [Service!Next]_(Service!vars)
BY DEF ServiceStep, UrbIds, SeqIds, Service!Next, Service!Ask, Service!Finish,
       Service!Deliver, Service!vars

\* Nothing of the urbs, the boxes and the pipes changes.
id_vars == <<next_id, to_stub, to_bg, wrappers, in_flight, completed, timeout_urb, timers>>

LEMMA Unmoved ==
  ASSUME IInv, UNCHANGED id_vars
  PROVE  (SlotOwned /\ KernelHasBoxes /\ IdsApart)' /\ ServiceStep
BY DEF IInv, id_vars, SlotOwned, KernelHasBoxes, IdsApart, UrbIds, WrapperIds, ServiceStep

--------------------------------------------------------------------------------
(* The extension.                                                           *)

LEMMA PostStep ==
  ASSUME IInv, NEW d \in Devs, NEW kind \in {"probe", "ctrl", "data", "isoc"}, Post(d, kind)
  PROVE  IInv' /\ ServiceStep
<1> DEFINE t == [id |-> next_id, dev |-> d, kind |-> kind]
<1>1. t \in Transfer /\ t.id = next_id /\ next_id \in Nat /\ to_stub \in Seq(Transfer)
  BY DEF IInv, TypeOK, Transfer
<1>2. t.id \notin 1 .. next_id - 1 /\ 1 .. next_id' - 1 = (1 .. next_id - 1) \cup {t.id}
  <2>1. next_id' = next_id + 1
    BY DEF Post
  <2>3. next_id # 0
    BY DEF IInv, TypeOK
  <2> QED BY <1>1, <2>1, <2>3
<1>3. t.id \notin SeqIds(to_stub)
  BY <1>2 DEF IInv, IdsApart
<1>4. /\ to_stub' = Append(to_stub, t) /\ asked' = asked \cup {t} /\ next_id' = next_id + 1
      /\ UNCHANGED <<stage, to_bg, usb_devices, urb_vars, epoll_buf, connection>>
  BY DEF Post
<1> HIDE DEF t
<1>5. /\ to_stub' \in Seq(Transfer) /\ Distinct(to_stub') /\ to_stub' # <<>>
      /\ SeqIds(to_stub') = SeqIds(to_stub) \cup {t.id}
  BY <1>1, <1>3, <1>4, AppendIds DEF IInv, IdsApart
<1>6. TypeOK'
  BY <1>1, <1>4, <1>5 DEF IInv, TypeOK, urb_vars
<1>7. SlotOwned' /\ KernelHasBoxes'
  BY <1>4 DEF IInv, SlotOwned, KernelHasBoxes, urb_vars
<1>a. /\ UrbIds' = UrbIds /\ WrapperIds' = WrapperIds /\ UrbIds \subseteq WrapperIds
      /\ SeqIds(to_bg') = SeqIds(to_bg) /\ Distinct(to_bg')
  BY <1>4 DEF UrbIds, WrapperIds, urb_vars, IInv, IdsApart, KernelHasBoxes
<1>b. t.id \notin SeqIds(to_bg) /\ t.id \notin WrapperIds /\ t.id \notin UrbIds
  BY <1>2, <1>a DEF IInv, IdsApart
<1>8. IdsApart'
  BY <1>2, <1>4, <1>5, <1>a, <1>b DEF IInv, IdsApart, urb_vars
<1>9. StdinOnce'
  BY <1>4, <1>5 DEF IInv, StdinOnce
<1>10. ServiceStep
  BY <1>2, <1>5, <1>a, <1>b DEF ServiceStep
<1> QED BY <1>6, <1>7, <1>8, <1>9, <1>10 DEF IInv

LEMMA ReceiveReplyStep ==
  ASSUME IInv, ReceiveReply
  PROVE  IInv' /\ ServiceStep
<1>1. /\ to_bg \in Seq(Transfer) /\ to_bg # <<>> /\ Distinct(to_bg) /\ to_bg' = Tail(to_bg)
      /\ UNCHANGED <<stage, next_id, to_stub, usb_devices, urb_vars, epoll_buf, connection>>
      /\ asked' \subseteq asked
  BY DEF IInv, TypeOK, IdsApart, ReceiveReply
<1>2. /\ to_bg' \in Seq(Transfer) /\ Distinct(to_bg')
      /\ Head(to_bg).id \in SeqIds(to_bg)
      /\ SeqIds(to_bg') = SeqIds(to_bg) \ {Head(to_bg).id}
  BY <1>1, TailIds
<1>3. TypeOK'
  BY <1>1, <1>2 DEF IInv, TypeOK, urb_vars
<1>4. SlotOwned' /\ KernelHasBoxes' /\ StdinOnce'
  BY <1>1 DEF IInv, SlotOwned, KernelHasBoxes, StdinOnce, urb_vars
<1>5. UrbIds' = UrbIds /\ WrapperIds' = WrapperIds /\ SeqIds(to_stub)' = SeqIds(to_stub)
  BY <1>1 DEF UrbIds, WrapperIds, SeqIds, urb_vars
<1>6. IdsApart'
  BY <1>1, <1>2, <1>5 DEF IInv, IdsApart, urb_vars
<1>7. ServiceStep
  BY <1>1, <1>2, <1>5 DEF ServiceStep
<1> QED BY <1>3, <1>4, <1>6, <1>7 DEF IInv

LEMMA ExtensionStep ==
  ASSUME IInv, Extension
  PROVE  IInv' /\ ServiceStep
<1>1. ASSUME NEW d \in Devs, Register(d) \/ ReceiveUnplug(d)
      PROVE  IInv' /\ ServiceStep
  <2>1. TypeOK'
    BY <1>1 DEF Register, ReceiveUnplug, IInv, TypeOK, urb_vars
  <2>2. UNCHANGED id_vars /\ UNCHANGED epoll_buf
    BY <1>1 DEF Register, ReceiveUnplug, urb_vars, id_vars
  <2>3. StdinOnce'
    BY <2>2 DEF IInv, StdinOnce, id_vars
  <2> QED BY <2>1, <2>2, <2>3, Unmoved DEF IInv
<1>2. ASSUME NEW d \in Devs, Probe(d)
      PROVE  IInv' /\ ServiceStep
  BY <1>2, PostStep DEF Probe
<1>3. ASSUME NEW d \in Devs, NEW kind \in Kinds, PageTransfer(d, kind)
      PROVE  IInv' /\ ServiceStep
  BY <1>3, PostStep, KindsAssumption DEF PageTransfer
<1> QED BY <1>1, <1>2, <1>3, ReceiveReplyStep DEF Extension

--------------------------------------------------------------------------------
(* The kernel.                                                              *)

\* URBs go from in_flight to completed, and slots are cleared.
LEMMA UrbsShift ==
  ASSUME IInv,
         in_flight' \cup completed' = in_flight \cup completed,
         in_flight' \cap completed' = {},
         \A d \in Devs : timeout_urb'[d] \in {timeout_urb[d], NoUrb},
         UNCHANGED <<next_id, to_stub, to_bg, wrappers, timers>>
  PROVE  (SlotOwned /\ KernelHasBoxes /\ IdsApart)' /\ ServiceStep
<1>1. UrbIds' = UrbIds
  BY DEF UrbIds
<1>2. /\ WrapperIds' = WrapperIds
      /\ SeqIds(to_stub)' = SeqIds(to_stub) /\ SeqIds(to_bg)' = SeqIds(to_bg)
      /\ Distinct(to_stub)' = Distinct(to_stub) /\ Distinct(to_bg)' = Distinct(to_bg)
  BY DEF WrapperIds
<1>3. SlotOwned' /\ KernelHasBoxes'
  BY DEF IInv, SlotOwned, KernelHasBoxes
<1>4. IdsApart'
  BY <1>1, <1>2 DEF IInv, IdsApart
<1>5. ServiceStep
  BY <1>1, <1>2 DEF ServiceStep
<1> QED BY <1>3, <1>4, <1>5

LEMMA KernelStep ==
  ASSUME IInv, Kernel
  PROVE  IInv' /\ ServiceStep
<1>1. ASSUME NEW t \in in_flight, Complete(t)
      PROVE  IInv' /\ ServiceStep
  <2>1. TypeOK' /\ StdinOnce'
    BY <1>1 DEF Complete, extension, IInv, TypeOK, StdinOnce
  <2>2. (SlotOwned /\ KernelHasBoxes /\ IdsApart)' /\ ServiceStep
    <3>1. /\ in_flight' = in_flight \ {t} /\ completed' = completed \cup {t}
          /\ in_flight \cap completed = {}
          /\ UNCHANGED <<next_id, to_stub, to_bg, wrappers, timers, timeout_urb>>
      BY <1>1 DEF Complete, extension, IInv, KernelHasBoxes
    <3>2. /\ in_flight' \cup completed' = in_flight \cup completed
          /\ in_flight' \cap completed' = {}
      BY <1>1, <3>1
    <3> QED BY <3>1, <3>2, UrbsShift
  <2> QED BY <2>1, <2>2 DEF IInv
<1>2. ASSUME NEW d \in Devs, Remove(d)
      PROVE  IInv' /\ ServiceStep
  <2>1. TypeOK' /\ StdinOnce'
    BY <1>2 DEF Remove, extension, IInv, TypeOK, StdinOnce, Of
  <2>2. (SlotOwned /\ KernelHasBoxes /\ IdsApart)' /\ ServiceStep
    <3>1. /\ in_flight' = in_flight \ Of(in_flight, d)
          /\ completed' = completed \cup Of(in_flight, d)
          /\ in_flight \cap completed = {}
          /\ UNCHANGED <<next_id, to_stub, to_bg, wrappers, timers, timeout_urb>>
      BY <1>2 DEF Remove, extension, IInv, KernelHasBoxes
    <3>2. /\ in_flight' \cup completed' = in_flight \cup completed
          /\ in_flight' \cap completed' = {}
      BY <3>1 DEF Of
    <3> QED BY <3>1, <3>2, UrbsShift
  <2> QED BY <2>1, <2>2 DEF IInv
<1>3. ASSUME (\E t \in timers : Expire(t)) \/ \E d \in Devs : Disconnect(d)
      PROVE  IInv' /\ ServiceStep
  <2>1. TypeOK'
    BY <1>3 DEF Expire, Disconnect, extension, urb_vars, IInv, TypeOK
  <2>2. UNCHANGED id_vars /\ UNCHANGED epoll_buf
    BY <1>3 DEF Expire, Disconnect, extension, urb_vars, id_vars
  <2>3. StdinOnce'
    BY <2>2 DEF IInv, StdinOnce, id_vars
  <2> QED BY <2>1, <2>2, <2>3, Unmoved DEF IInv
<1> QED BY <1>1, <1>2, <1>3 DEF Kernel

--------------------------------------------------------------------------------
(* The run loop.                                                            *)

LEMMA EpollWaitStep ==
  ASSUME IInv, EpollWait
  PROVE  IInv' /\ ServiceStep
<1>1. PICK n \in 1 .. Cardinality(Ready) : \E batch \in [1 .. n -> Ready] :
         /\ \A j, k \in 1 .. n : j # k => batch[j] # batch[k]
         /\ epoll_buf' = batch
  BY DEF EpollWait
<1>2. /\ n \in Nat
      /\ epoll_buf' \in [1 .. n -> Ready]
      /\ \A j, k \in 1 .. n : j # k => epoll_buf'[j] # epoll_buf'[k]
  BY <1>1
<1>3. \A d \in Devs : UsbEvent(d, UsbMask(d)) \in Events
  BY DEF UsbMask, UsbEvent, Events
<1>4. \A t \in expired : TimerEvent(t) \in Events
  BY DEF TimerEvent, Events, IInv, TypeOK
<1>5. Ready \subseteq Events
  BY <1>3, <1>4 DEF Ready, IInv, TypeOK, StdinEvent, Events
<1>6. epoll_buf' \in Seq(Events)
  BY <1>2, <1>5
<1>7. /\ UNCHANGED <<extension, to_stub, to_bg, usb_devices, urb_vars, connection>>
  BY DEF EpollWait
<1>8. TypeOK'
  BY <1>6, <1>7 DEF IInv, TypeOK, extension, urb_vars
<1>9. StdinEvent \in Ready => to_stub # <<>>
  BY DEF Ready, StdinEvent, TimerEvent, UsbEvent
<1>10. StdinOnce'
  BY <1>2, <1>7, <1>9 DEF StdinOnce
<1>11. UNCHANGED id_vars
  BY <1>7 DEF id_vars, extension, urb_vars
<1> QED BY <1>8, <1>10, <1>11, Unmoved DEF IInv

LEMMA UsbEventDoneStep ==
  ASSUME IInv, UsbEventDone
  PROVE  IInv' /\ ServiceStep
<1>1. /\ epoll_buf # <<>> /\ epoll_buf' = Tail(epoll_buf) /\ usb_devices' \subseteq usb_devices
      /\ UNCHANGED <<extension, to_stub, to_bg, urb_vars, connection>>
  BY DEF UsbEventDone, Handling
<1>2. TypeOK'
  BY <1>1, BatchTail DEF IInv, TypeOK, extension, urb_vars
<1>3. StdinOnce'
  BY <1>1, BatchTail DEF StdinOnce
<1>4. UNCHANGED id_vars
  BY <1>1 DEF id_vars, extension, urb_vars
<1> QED BY <1>2, <1>3, <1>4, Unmoved DEF IInv

LEMMA TimeoutStep ==
  ASSUME IInv, Timeout
  PROVE  IInv' /\ ServiceStep
<1>1. /\ epoll_buf # <<>> /\ epoll_buf' = Tail(epoll_buf)
      /\ UNCHANGED <<extension, to_stub, to_bg, usb_devices, wrappers, timers, expired,
                     connection>>
  BY DEF Timeout, Handling
<1>2. StdinOnce'
  BY <1>1, BatchTail DEF StdinOnce
<1>3. CASE UNCHANGED <<in_flight, completed, timeout_urb>>
  <2>1. TypeOK'
    BY <1>1, <1>3, BatchTail DEF IInv, TypeOK, extension
  <2>2. UNCHANGED id_vars
    BY <1>1, <1>3 DEF id_vars, extension
  <2> QED BY <1>2, <2>1, <2>2, Unmoved DEF IInv
<1>4. ASSUME NEW d \in Devs, NEW u \in in_flight,
             in_flight' = in_flight \ {u}, completed' = completed \cup {u},
             timeout_urb' = [timeout_urb EXCEPT ![d] = NoUrb]
      PROVE  IInv' /\ ServiceStep
  <2>1. timeout_urb \in [Devs -> Transfer \cup {NoUrb}] /\ in_flight \cap completed = {}
    BY DEF IInv, TypeOK, KernelHasBoxes
  <2>2. TypeOK'
    BY <1>1, <1>4, <2>1, BatchTail DEF IInv, TypeOK, extension
  <2>3. /\ in_flight' \cup completed' = in_flight \cup completed
        /\ in_flight' \cap completed' = {}
    BY <1>4, <2>1
  <2>4. \A e \in Devs : timeout_urb'[e] \in {timeout_urb[e], NoUrb}
    BY <1>4, <2>1
  <2>5. UNCHANGED <<next_id, to_stub, to_bg, wrappers, timers>>
    BY <1>1 DEF extension
  <2> QED BY <1>2, <2>2, <2>3, <2>4, <2>5, UrbsShift DEF IInv
<1>5. Head(epoll_buf).of.dev \in Devs
  <2>1. Head(epoll_buf) \in Events /\ Head(epoll_buf).source = "timer"
    BY <1>1, BatchTail DEF Timeout, Handling
  <2> QED BY <2>1 DEF Events, Transfer
<1> QED BY <1>3, <1>4, <1>5 DEF Timeout, Discardable

\* A request leaves stdin.
LEMMA RequestIds ==
  ASSUME IInv, NEW kinds, Requested(kinds)
  PROVE  /\ Head(to_stub) \in Transfer /\ Head(to_stub).id \in SeqIds(to_stub)
         /\ to_stub' \in Seq(Transfer) /\ Distinct(to_stub')
         /\ SeqIds(to_stub') = SeqIds(to_stub) \ {Head(to_stub).id}
         /\ epoll_buf' \in Seq(Events) /\ StdinOnce'
         /\ UNCHANGED <<extension, usb_devices, connection>>
<1>1. to_stub # <<>> /\ epoll_buf # <<>> /\ Head(epoll_buf) = StdinEvent
      /\ to_stub' = Tail(to_stub) /\ epoll_buf' = Tail(epoll_buf)
  BY RequestedStep
<1>2. to_stub \in Seq(Transfer) /\ Distinct(to_stub)
  BY DEF IInv, TypeOK, IdsApart
<1>3. StdinOnce' /\ epoll_buf' \in Seq(Events)
  BY <1>1, BatchTail DEF StdinOnce
<1> QED BY <1>1, <1>2, <1>3, TailIds DEF Requested

\* A reply is written to stdout.
LEMMA ReplyIds ==
  ASSUME IInv, NEW t \in Transfer, t.id \notin SeqIds(to_bg), to_bg' = Append(to_bg, t)
  PROVE  /\ to_bg' \in Seq(Transfer) /\ Distinct(to_bg')
         /\ SeqIds(to_bg') = SeqIds(to_bg) \cup {t.id}
BY AppendIds DEF IInv, TypeOK, IdsApart

LEMMA RefuseStep ==
  ASSUME IInv, Refuse
  PROVE  IInv' /\ ServiceStep
<1> DEFINE t == Head(to_stub)
<1>1. /\ t \in Transfer /\ t.id \in SeqIds(to_stub)
      /\ to_stub' \in Seq(Transfer) /\ Distinct(to_stub')
      /\ SeqIds(to_stub') = SeqIds(to_stub) \ {t.id}
      /\ epoll_buf' \in Seq(Events) /\ StdinOnce'
      /\ UNCHANGED <<extension, usb_devices, connection>>
  BY RequestIds DEF Refuse
<1>2. to_bg' = Append(to_bg, t) /\ UNCHANGED urb_vars
  BY DEF Refuse
<1> HIDE DEF t
<1>3. t.id \notin SeqIds(to_bg) /\ t.id \notin WrapperIds /\ UrbIds \subseteq WrapperIds
  BY <1>1 DEF IInv, IdsApart, KernelHasBoxes, UrbIds, WrapperIds
<1>4. /\ to_bg' \in Seq(Transfer) /\ Distinct(to_bg')
      /\ SeqIds(to_bg') = SeqIds(to_bg) \cup {t.id}
  BY <1>1, <1>2, <1>3, ReplyIds
<1>5. UrbIds' = UrbIds /\ WrapperIds' = WrapperIds
  BY <1>2 DEF UrbIds, WrapperIds, urb_vars
<1>6. TypeOK'
  BY <1>1, <1>2, <1>4 DEF IInv, TypeOK, extension, urb_vars
<1>7. SlotOwned' /\ KernelHasBoxes'
  BY <1>2 DEF IInv, SlotOwned, KernelHasBoxes, urb_vars
<1>8. IdsApart'
  BY <1>1, <1>2, <1>3, <1>4, <1>5 DEF IInv, IdsApart, extension, urb_vars
<1>9. ServiceStep
  BY <1>1, <1>3, <1>4, <1>5 DEF ServiceStep, extension
<1> QED BY <1>1, <1>6, <1>7, <1>8, <1>9 DEF IInv

LEMMA SubmitStep ==
  ASSUME IInv, NEW kinds, Requested(kinds), Submit(Head(to_stub)),
         \/ UNCHANGED <<timers, timeout_urb>>
         \/ ArmTimer(Head(to_stub))
  PROVE  IInv' /\ ServiceStep
<1> DEFINE t == Head(to_stub)
<1>1. /\ t \in Transfer /\ t.id \in SeqIds(to_stub)
      /\ to_stub' \in Seq(Transfer) /\ Distinct(to_stub')
      /\ SeqIds(to_stub') = SeqIds(to_stub) \ {t.id}
      /\ epoll_buf' \in Seq(Events) /\ StdinOnce'
      /\ UNCHANGED <<extension, usb_devices, connection>>
  BY RequestIds
<1>2. /\ wrappers' = wrappers \cup {t}
      /\ \/ in_flight' = in_flight \cup {t} /\ to_bg' = to_bg
         \/ in_flight' = in_flight /\ to_bg' = Append(to_bg, t)
      /\ UNCHANGED <<completed, expired>>
  BY DEF Submit
<1>3. \/ UNCHANGED <<timers, timeout_urb>>
      \/ timers' = timers \cup {t} /\ timeout_urb' = [timeout_urb EXCEPT ![t.dev] = t]
  BY DEF ArmTimer
<1> HIDE DEF t
<1>4. t.id \notin SeqIds(to_bg) /\ t.id \notin WrapperIds /\ UrbIds \subseteq WrapperIds
  BY <1>1 DEF IInv, IdsApart, KernelHasBoxes, UrbIds, WrapperIds
<1>5. WrapperIds' = WrapperIds \cup {t.id}
  BY <1>2 DEF WrapperIds
<1>6. t \notin wrappers /\ t.dev \in Devs
  BY <1>1, <1>4 DEF WrapperIds, Transfer
<1>7. timeout_urb \in [Devs -> Transfer \cup {NoUrb}]
  BY DEF IInv, TypeOK
<1>8. SlotOwned'
  BY <1>2, <1>3, <1>6, <1>7 DEF IInv, SlotOwned
<1>9. KernelHasBoxes'
  BY <1>2, <1>6 DEF IInv, KernelHasBoxes
<1>10. timeout_urb' \in [Devs -> Transfer \cup {NoUrb}] /\ timers' \subseteq Transfer
  <2>1. timers \subseteq Transfer
    BY DEF IInv, TypeOK
  <2>2. timers' \subseteq Transfer
    BY <1>1, <1>3, <2>1
  <2>3. timeout_urb' \in [Devs -> Transfer \cup {NoUrb}]
    BY <1>1, <1>3, <1>7
  <2> QED BY <2>2, <2>3
<1>11. \A u, v \in wrappers' : u.id = v.id => u = v
  BY <1>2, <1>4 DEF IInv, IdsApart, WrapperIds
<1>12. CASE in_flight' = in_flight \cup {t} /\ to_bg' = to_bg
  <2>1. TypeOK'
    BY <1>1, <1>2, <1>10, <1>12 DEF IInv, TypeOK, extension
  <2>2. UrbIds' = UrbIds \cup {t.id}
    BY <1>2, <1>12 DEF UrbIds
  <2>3. SeqIds(to_bg') = SeqIds(to_bg) /\ Distinct(to_bg')
    BY <1>12 DEF IInv, IdsApart
  <2>4. IdsApart'
    BY <1>1, <1>4, <1>5, <1>11, <2>2, <2>3 DEF IInv, IdsApart, extension
  <2>5. ServiceStep
    BY <1>1, <1>4, <2>2, <2>3 DEF ServiceStep, extension
  <2> QED BY <1>1, <1>8, <1>9, <2>1, <2>4, <2>5 DEF IInv
<1>13. CASE in_flight' = in_flight /\ to_bg' = Append(to_bg, t)
  <2>1. /\ to_bg' \in Seq(Transfer) /\ Distinct(to_bg')
        /\ SeqIds(to_bg') = SeqIds(to_bg) \cup {t.id}
    BY <1>1, <1>4, <1>13, ReplyIds
  <2>2. TypeOK'
    BY <1>1, <1>2, <1>10, <1>13, <2>1 DEF IInv, TypeOK, extension
  <2>3. UrbIds' = UrbIds
    BY <1>2, <1>13 DEF UrbIds
  <2>4. IdsApart'
    BY <1>1, <1>4, <1>5, <1>11, <2>1, <2>3 DEF IInv, IdsApart, extension
  <2>5. ServiceStep
    BY <1>1, <1>4, <2>1, <2>3 DEF ServiceStep, extension
  <2> QED BY <1>1, <1>8, <1>9, <2>2, <2>4, <2>5 DEF IInv
<1> QED BY <1>2, <1>12, <1>13

LEMMA ReapStep ==
  ASSUME IInv, NEW t \in completed, Reap(t)
  PROVE  IInv' /\ ServiceStep
<1>1. /\ completed' = completed \ {t} /\ wrappers' = wrappers \ {t}
      /\ timers' = timers \ {t} /\ expired' = expired \ {t}
      /\ timeout_urb' = IF timeout_urb[t.dev] = t
                        THEN [timeout_urb EXCEPT ![t.dev] = NoUrb] ELSE timeout_urb
      /\ to_bg' = Append(to_bg, t)
      /\ UNCHANGED <<extension, to_stub, usb_devices, in_flight, epoll_buf, connection>>
  BY DEF Reap
<1>2. /\ t \in Transfer /\ t.dev \in Devs /\ t \in wrappers /\ t \notin in_flight
      /\ timeout_urb \in [Devs -> Transfer \cup {NoUrb}]
  BY DEF IInv, TypeOK, KernelHasBoxes, Transfer
<1>3. \A u \in wrappers : u.id = t.id => u = t
  BY <1>2 DEF IInv, IdsApart
<1>4. /\ t.id \in UrbIds /\ t.id \in WrapperIds
      /\ t.id \notin SeqIds(to_bg) /\ t.id \notin SeqIds(to_stub)
      /\ UrbIds \subseteq WrapperIds
  BY <1>2 DEF IInv, IdsApart, KernelHasBoxes, UrbIds, WrapperIds
<1>5. UrbIds' = UrbIds \ {t.id} /\ WrapperIds' = WrapperIds \ {t.id}
  BY <1>1, <1>2, <1>3 DEF UrbIds, WrapperIds, IInv, KernelHasBoxes
<1>6. /\ to_bg' \in Seq(Transfer) /\ Distinct(to_bg')
      /\ SeqIds(to_bg') = SeqIds(to_bg) \cup {t.id}
  BY <1>1, <1>2, <1>4, ReplyIds
<1>7. SeqIds(to_stub') = SeqIds(to_stub) /\ Distinct(to_stub')
  BY <1>1 DEF IInv, IdsApart
<1>8. TypeOK'
  BY <1>1, <1>2, <1>6 DEF IInv, TypeOK, extension
<1>9. SlotOwned'
  BY <1>1, <1>2 DEF IInv, SlotOwned
<1>10. KernelHasBoxes'
  BY <1>1, <1>2 DEF IInv, KernelHasBoxes
<1>11. IdsApart'
  BY <1>1, <1>4, <1>5, <1>6, <1>7 DEF IInv, IdsApart, extension
<1>12. StdinOnce'
  BY <1>1 DEF IInv, StdinOnce
<1>13. ServiceStep
  BY <1>1, <1>4, <1>5, <1>6, <1>7 DEF ServiceStep, extension
<1> QED BY <1>8, <1>9, <1>10, <1>11, <1>12, <1>13 DEF IInv

--------------------------------------------------------------------------------
(* The theorems.                                                            *)

LEMMA InitIInv == Init => IInv
<1> SUFFICES ASSUME Init PROVE IInv
  OBVIOUS
<1>1. TypeOK
  BY DEF Init, TypeOK
<1>2. SlotOwned /\ KernelHasBoxes /\ StdinOnce
  BY DEF Init, SlotOwned, KernelHasBoxes, StdinOnce
<1>3. SeqIds(to_stub) = {} /\ SeqIds(to_bg) = {} /\ WrapperIds = {} /\ UrbIds = {}
  BY DEF Init, SeqIds, WrapperIds, UrbIds
<1>4. IdsApart
  BY <1>3 DEF Init, IdsApart, Distinct
<1> QED BY <1>1, <1>2, <1>4 DEF IInv

LEMMA NextIInv ==
  ASSUME IInv, [Next]_vars
  PROVE  IInv' /\ ServiceStep
<1>1. CASE UNCHANGED vars
  <2>1. UNCHANGED id_vars /\ UNCHANGED epoll_buf
    BY <1>1 DEF vars, extension, urb_vars, id_vars
  <2>2. TypeOK' /\ StdinOnce'
    BY <1>1 DEF vars, extension, urb_vars, IInv, TypeOK, StdinOnce
  <2> QED BY <2>1, <2>2, Unmoved DEF IInv
<1>2. CASE CtrlXfer
  <2>1. Submit(Head(to_stub)) /\ Requested({"probe", "ctrl"})
    BY <1>2 DEF CtrlXfer
  <2>2. UNCHANGED <<timers, timeout_urb>> \/ ArmTimer(Head(to_stub))
    BY <1>2 DEF CtrlXfer
  <2> QED BY <2>1, <2>2, SubmitStep
<1>3. CASE DataXfer
  BY <1>3, SubmitStep DEF DataXfer
<1>4. CASE IsocXfer
  BY <1>4, SubmitStep DEF IsocXfer
<1> QED
  BY <1>1, <1>2, <1>3, <1>4, ExtensionStep, KernelStep, EpollWaitStep, RefuseStep,
     TimeoutStep, ReapStep, UsbEventDoneStep
  DEF Next, RunLoop, Handle

LEMMA SpecIInv == Spec => []IInv
<1>1. IInv /\ [Next]_vars => IInv'
  BY NextIInv
<1> QED BY <1>1, InitIInv, PTL DEF Spec

--------------------------------------------------------------------------------
(* Timeouts.  The extension has one transfer of its own under way at each   *)
(* device, so a slot can only hold the URB of the timer that expires, but   *)
(* for an event of a timer that was closed after its batch was fetched: by  *)
(* then the slot must be empty until the batch is through.                  *)

\* Transfers on stdin, with the kernel and on stdout.
Under_way == in_flight \cup completed \cup Elems(to_stub) \cup Elems(to_bg)

IsProbe(t) == t.kind = "probe"

\* The extension awaits its own transfers, one at a time for each device.
OneProbe ==
  /\ \A t \in Under_way : IsProbe(t) => t \in asked
  /\ \A t, u \in asked : IsProbe(t) /\ IsProbe(u) /\ t.dev = u.dev => t = u

\* Only probes have timers, which are closed with the URB: none is left behind by
\* a submission that failed, but for a device that is gone.
TimersLive ==
  /\ expired \subseteq timers
  /\ \A t \in timers : IsProbe(t)
  /\ \A t \in timers : connection[t.dev] = "connected" => t \in in_flight \cup completed

\* While the event of a timer is to be handled, no other timer of its device is
\* set, and if stdin is to be read first, no other is asked for.
TimerEventsOwn ==
  \A e \in Elems(epoll_buf) :
    e.source = "timer" /\ connection[e.of.dev] = "connected" =>
      /\ \A u \in timers : u.dev = e.of.dev => u = e.of
      /\ StdinEvent \in Elems(epoll_buf) =>
           ~(IsProbe(Head(to_stub)) /\ Head(to_stub).dev = e.of.dev)

Timely == OneProbe /\ TimersLive /\ TimerEventsOwn

\* Nothing new is under way, no timer is set and no event is fetched.
LEMMA NothingNew ==
  ASSUME Timely,
         Under_way' \subseteq Under_way, asked' = asked,
         timers' \subseteq timers, expired' \subseteq timers',
         \A t \in timers' : t \in in_flight \cup completed => t \in in_flight' \cup completed',
         \A d \in Devs : connection'[d] = "connected" => connection[d] = "connected",
         timers \subseteq Transfer, Elems(epoll_buf) \subseteq Events,
         Elems(epoll_buf') \subseteq Elems(epoll_buf),
         to_stub' = to_stub \/ StdinEvent \notin Elems(epoll_buf')
  PROVE  Timely'
<1>1. OneProbe'
  BY DEF Timely, OneProbe
<1>2. \A t \in timers : t.dev \in Devs
  BY DEF Transfer
<1>3. TimersLive'
  BY <1>2 DEF Timely, TimersLive
<1>4. \A e \in Elems(epoll_buf) : e.source = "timer" => e.of.dev \in Devs
  BY DEF Events, Transfer
<1>5. TimerEventsOwn'
  BY <1>4 DEF Timely, TimerEventsOwn
<1> QED BY <1>1, <1>3, <1>5 DEF Timely

\* The same of any events: what is left of a batch was in it.
LEMMA BatchHolds ==
  ASSUME IInv, epoll_buf # <<>>, epoll_buf' = Tail(epoll_buf)
  PROVE  /\ Elems(epoll_buf') \subseteq Elems(epoll_buf)
         /\ Head(epoll_buf) \in Elems(epoll_buf)
BY TailHolds DEF IInv, TypeOK

LEMMA BatchEvents == IInv => timers \subseteq Transfer /\ Elems(epoll_buf) \subseteq Events
BY DEF IInv, TypeOK, Elems

LEMMA RequestHolds ==
  ASSUME IInv, NEW kinds, Requested(kinds)
  PROVE  /\ Head(to_stub) \in Transfer /\ Head(to_stub) \in Elems(to_stub)
         /\ Head(to_stub).kind \in kinds
         /\ Elems(to_stub') \subseteq Elems(to_stub)
         /\ Elems(epoll_buf') \subseteq Elems(epoll_buf)
         /\ StdinEvent \in Elems(epoll_buf) /\ StdinEvent \notin Elems(epoll_buf')
         /\ UNCHANGED <<extension, usb_devices, connection>>
<1>1. /\ to_stub # <<>> /\ to_stub' = Tail(to_stub) /\ to_stub \in Seq(Transfer)
      /\ epoll_buf # <<>> /\ epoll_buf' = Tail(epoll_buf) /\ Head(epoll_buf) = StdinEvent
  BY RequestedStep DEF IInv, TypeOK
<1>2. StdinEvent \notin Elems(epoll_buf')
  BY <1>1, BatchTail DEF Elems
<1> QED BY <1>1, <1>2, BatchHolds, TailHolds DEF Requested

LEMMA RefuseTimely ==
  ASSUME IInv, Timely, Refuse
  PROVE  Timely'
<1>1. /\ Head(to_stub) \in Transfer /\ Head(to_stub) \in Elems(to_stub)
      /\ Elems(to_stub') \subseteq Elems(to_stub)
      /\ Elems(epoll_buf') \subseteq Elems(epoll_buf) /\ StdinEvent \notin Elems(epoll_buf')
      /\ UNCHANGED <<extension, connection>>
  BY RequestHolds DEF Refuse
<1>2. UNCHANGED urb_vars /\ Elems(to_bg') = Elems(to_bg) \cup {Head(to_stub)}
  BY <1>1, AppendHolds DEF Refuse, IInv, TypeOK
<1>3. Under_way' \subseteq Under_way
  BY <1>1, <1>2 DEF Under_way, urb_vars
<1> QED BY <1>1, <1>2, <1>3, NothingNew, BatchEvents DEF extension, urb_vars, Timely, TimersLive

\* A request is submitted without a timer.
LEMMA SubmitTimely ==
  ASSUME IInv, Timely, NEW kinds, Requested(kinds), Submit(Head(to_stub)),
         UNCHANGED <<timers, timeout_urb>>
  PROVE  Timely'
<1>1. /\ Head(to_stub) \in Transfer /\ Head(to_stub) \in Elems(to_stub)
      /\ Elems(to_stub') \subseteq Elems(to_stub)
      /\ Elems(epoll_buf') \subseteq Elems(epoll_buf) /\ StdinEvent \notin Elems(epoll_buf')
      /\ UNCHANGED <<extension, connection>>
  BY RequestHolds
<1>2. /\ in_flight \subseteq in_flight' /\ in_flight' \subseteq in_flight \cup {Head(to_stub)}
      /\ Elems(to_bg') \subseteq Elems(to_bg) \cup {Head(to_stub)}
      /\ UNCHANGED <<completed, expired>>
  BY <1>1, AppendHolds DEF Submit, IInv, TypeOK
<1>3. Under_way' \subseteq Under_way
  BY <1>1, <1>2 DEF Under_way
<1> QED BY <1>1, <1>2, <1>3, NothingNew, BatchEvents DEF extension, Timely, TimersLive

\* A probe is submitted with one.
LEMMA ProbeTimely ==
  ASSUME ~SyscallsMayFail, IInv, Timely, NEW kinds, Requested(kinds),
         IsProbe(Head(to_stub)), Submit(Head(to_stub)), ArmTimer(Head(to_stub))
  PROVE  Timely'
<1> DEFINE t == Head(to_stub)
<1>1. /\ t \in Transfer /\ t \in Elems(to_stub)
      /\ Elems(to_stub') \subseteq Elems(to_stub)
      /\ Elems(epoll_buf') \subseteq Elems(epoll_buf)
      /\ StdinEvent \in Elems(epoll_buf) /\ StdinEvent \notin Elems(epoll_buf')
      /\ UNCHANGED <<extension, connection>>
  BY RequestHolds
<1>2. /\ in_flight \subseteq in_flight' /\ in_flight' \subseteq in_flight \cup {t}
      /\ connection[t.dev] = "connected" => t \in in_flight'
      /\ Elems(to_bg') \subseteq Elems(to_bg) \cup {t}
      /\ UNCHANGED <<completed, expired>>
  <2>1. PICK ok \in SyscallResults(t.dev) :
           /\ in_flight' = IF ok THEN in_flight \cup {t} ELSE in_flight
           /\ to_bg' = IF ok THEN to_bg ELSE Append(to_bg, t)
    BY DEF Submit
  <2>2. connection[t.dev] = "connected" => ok
    BY <2>1 DEF SyscallResults
  <2>3. Elems(to_bg') \subseteq Elems(to_bg) \cup {t}
    BY <1>1, <2>1, AppendHolds DEF IInv, TypeOK
  <2> QED BY <2>1, <2>2, <2>3 DEF Submit
<1>3. timers' = timers \cup {t}
  BY DEF ArmTimer
<1>4. IsProbe(t)
  OBVIOUS
<1>5. \A e \in Elems(epoll_buf) :
        e.source = "timer" /\ connection[e.of.dev] = "connected" => t.dev # e.of.dev
  BY <1>1, <1>4 DEF Timely, TimerEventsOwn
<1> HIDE DEF t
<1>6. Under_way' \subseteq Under_way
  BY <1>1, <1>2 DEF Under_way
<1>7. OneProbe'
  BY <1>1, <1>6 DEF Timely, OneProbe, extension
<1>8. TimersLive'
  BY <1>1, <1>2, <1>3, <1>4 DEF Timely, TimersLive, IsProbe
<1>9. TimerEventsOwn'
  BY <1>1, <1>3, <1>5 DEF Timely, TimerEventsOwn
<1> QED BY <1>7, <1>8, <1>9 DEF Timely

LEMMA PostTimely ==
  ASSUME IInv, Timely, NEW d \in Devs, NEW kind \in {"probe", "ctrl", "data", "isoc"},
         Post(d, kind), kind = "probe" => Of(asked, d) = {}
  PROVE  Timely'
<1> DEFINE t == [id |-> next_id, dev |-> d, kind |-> kind]
<1>1. t \in Transfer /\ t.dev = d /\ t.kind = kind
  BY DEF IInv, TypeOK, Transfer
<1>2. /\ to_stub' = Append(to_stub, t) /\ asked' = asked \cup {t}
      /\ UNCHANGED <<to_bg, urb_vars, epoll_buf, connection>>
  BY DEF Post
<1> HIDE DEF t
<1>3. /\ Elems(to_stub') = Elems(to_stub) \cup {t}
      /\ to_stub # <<>> => Head(to_stub') = Head(to_stub)
  BY <1>1, <1>2, AppendHolds DEF IInv, TypeOK
<1>4. OneProbe'
  <2>1. Under_way' = Under_way \cup {t}
    BY <1>2, <1>3 DEF Under_way, urb_vars
  <2>2. \A u \in asked : u.dev = d => ~IsProbe(t)
    BY <1>1 DEF Of, IsProbe
  <2> QED BY <1>1, <1>2, <2>1, <2>2 DEF Timely, OneProbe
<1>5. TimersLive'
  BY <1>2 DEF Timely, TimersLive, urb_vars
<1>6. StdinEvent \in Elems(epoll_buf) => to_stub # <<>>
  BY DEF IInv, StdinOnce, Elems
<1>7. TimerEventsOwn'
  BY <1>2, <1>3, <1>6 DEF Timely, TimerEventsOwn, urb_vars
<1> QED BY <1>4, <1>5, <1>7 DEF Timely

LEMMA ReceiveReplyTimely ==
  ASSUME IInv, Timely, ReceiveReply
  PROVE  Timely'
<1>1. /\ to_bg \in Seq(Transfer) /\ to_bg # <<>> /\ Distinct(to_bg) /\ to_bg' = Tail(to_bg)
      /\ asked' = {t \in asked : t.id # Head(to_bg).id}
      /\ UNCHANGED <<to_stub, urb_vars, epoll_buf, connection>>
  BY DEF IInv, TypeOK, IdsApart, ReceiveReply
<1>2. /\ Elems(to_bg') \subseteq Elems(to_bg)
      /\ Head(to_bg).id \in SeqIds(to_bg)
      /\ SeqIds(to_bg') = SeqIds(to_bg) \ {Head(to_bg).id}
  BY <1>1, TailHolds, TailIds
<1>3. Under_way' \subseteq Under_way
  BY <1>1, <1>2 DEF Under_way, urb_vars
<1>4. \A t \in Under_way' : t.id # Head(to_bg).id
  <2>1. \A t \in Elems(to_bg') : t.id \in SeqIds(to_bg')
    BY DEF Elems, SeqIds
  <2>2. \A t \in Elems(to_stub) : t.id \in SeqIds(to_stub)
    BY DEF Elems, SeqIds
  <2>3. \A t \in in_flight \cup completed : t.id \in UrbIds
    BY DEF UrbIds
  <2> QED BY <1>1, <1>2, <2>1, <2>2, <2>3 DEF Under_way, urb_vars, IInv, IdsApart
<1>5. OneProbe'
  BY <1>1, <1>3, <1>4 DEF Timely, OneProbe
<1>6. TimersLive' /\ TimerEventsOwn'
  BY <1>1 DEF Timely, TimersLive, TimerEventsOwn, urb_vars
<1> QED BY <1>5, <1>6 DEF Timely

LEMMA EpollWaitTimely ==
  ASSUME IInv, Timely, EpollWait
  PROVE  Timely'
<1>1. PICK n \in Nat : epoll_buf' \in [1 .. n -> Ready]
  BY DEF EpollWait
<1>2. Elems(epoll_buf') \subseteq Ready
  BY <1>1 DEF Elems
<1>3. UNCHANGED <<extension, to_stub, to_bg, usb_devices, urb_vars, connection>>
  BY DEF EpollWait
<1>4. OneProbe' /\ TimersLive'
  BY <1>3 DEF Timely, OneProbe, TimersLive, Under_way, extension, urb_vars
<1>5. ASSUME NEW e \in Elems(epoll_buf'), e.source = "timer", connection[e.of.dev] = "connected"
      PROVE  /\ \A u \in timers : u.dev = e.of.dev => u = e.of
             /\ StdinEvent \in Elems(epoll_buf') =>
                  ~(IsProbe(Head(to_stub)) /\ Head(to_stub).dev = e.of.dev)
  <2>1. PICK t \in expired : e = TimerEvent(t)
    BY <1>2, <1>5 DEF Ready, StdinEvent, TimerEvent, UsbEvent
  <2>2. e.of = t
    BY <2>1 DEF TimerEvent
  <2>3. t \in timers /\ IsProbe(t) /\ t \in in_flight \cup completed /\ t \in asked
    BY <1>5, <2>2 DEF Timely, OneProbe, TimersLive, Under_way
  <2>4. \A u \in timers : u.dev = t.dev => u \in asked /\ IsProbe(u)
    BY <1>5, <2>2 DEF Timely, OneProbe, TimersLive, Under_way
  <2>5. ASSUME StdinEvent \in Elems(epoll_buf')
        PROVE  ~(IsProbe(Head(to_stub)) /\ Head(to_stub).dev = t.dev)
    <3>1. to_stub # <<>> /\ to_stub \in Seq(Transfer)
      BY <1>2, <2>5 DEF Ready, StdinEvent, TimerEvent, UsbEvent, IInv, TypeOK
    <3>2. Head(to_stub) \in Elems(to_stub) /\ Head(to_stub).id \in SeqIds(to_stub)
      BY <3>1, TailHolds DEF Elems, SeqIds
    <3>3. t.id \in WrapperIds
      BY <2>3 DEF WrapperIds, IInv, KernelHasBoxes
    <3>4. Head(to_stub) # t
      BY <3>2, <3>3 DEF IInv, IdsApart
    <3> QED BY <2>3, <3>2, <3>4 DEF Timely, OneProbe, Under_way
  <2> QED BY <2>2, <2>3, <2>4, <2>5 DEF Timely, OneProbe
<1>6. TimerEventsOwn'
  BY <1>3, <1>5 DEF TimerEventsOwn, urb_vars
<1> QED BY <1>4, <1>6 DEF Timely

LEMMA InitTimely == Init => Timely
BY DEF Init, Timely, OneProbe, TimersLive, TimerEventsOwn, Under_way, Elems

LEMMA NextTimely ==
  ASSUME ~SyscallsMayFail, IInv, Timely, [Next]_vars
  PROVE  Timely'
<1>1. CASE UNCHANGED vars
  BY <1>1 DEF vars, extension, urb_vars, Timely, OneProbe, TimersLive, TimerEventsOwn, Under_way
<1>2. ASSUME NEW d \in Devs, Probe(d) PROVE Timely'
  BY <1>2, PostTimely DEF Probe
<1>3. ASSUME NEW d \in Devs, Register(d) \/ ReceiveUnplug(d) PROVE Timely'
  <2>1. UNCHANGED <<asked, to_stub, to_bg, urb_vars, epoll_buf, connection>>
    BY <1>3 DEF Register, ReceiveUnplug
  <2> QED BY <2>1 DEF urb_vars, Timely, OneProbe, TimersLive, TimerEventsOwn, Under_way
<1>4. ASSUME NEW d \in Devs, NEW kind \in Kinds, PageTransfer(d, kind) PROVE Timely'
  BY <1>4, PostTimely, KindsAssumption DEF PageTransfer
<1>5. ASSUME NEW t \in in_flight, Complete(t) PROVE Timely'
  <2>1. in_flight' \cup completed' = in_flight \cup completed
    BY <1>5 DEF Complete
  <2>2. UNCHANGED <<extension, to_stub, to_bg, timers, expired, epoll_buf, connection>>
    BY <1>5 DEF Complete
  <2> QED BY <2>1, <2>2, NothingNew, BatchEvents DEF Under_way, extension, Timely, TimersLive
<1>6. ASSUME NEW t \in timers, Expire(t) PROVE Timely'
  <2>1. UNCHANGED <<extension, to_stub, to_bg, timers, in_flight, completed, epoll_buf, connection>>
        /\ expired' = expired \cup {t}
    BY <1>6 DEF Expire
  <2> QED BY <2>1, NothingNew, BatchEvents DEF Under_way, extension, Timely, TimersLive
<1>7. ASSUME NEW d \in Devs, Disconnect(d) PROVE Timely'
  <2>1. UNCHANGED <<extension, to_stub, to_bg, urb_vars, epoll_buf>>
    BY <1>7 DEF Disconnect
  <2>2. \A e \in Devs : connection'[e] = "connected" => connection[e] = "connected"
    BY <1>7 DEF Disconnect, IInv, TypeOK
  <2> QED BY <2>1, <2>2, NothingNew, BatchEvents
          DEF Under_way, extension, urb_vars, Timely, TimersLive
<1>8. ASSUME NEW d \in Devs, Remove(d) PROVE Timely'
  <2>1. in_flight' \cup completed' = in_flight \cup completed
    BY <1>8 DEF Remove, Of
  <2>2. UNCHANGED <<extension, to_stub, to_bg, timers, expired, epoll_buf>>
    BY <1>8 DEF Remove
  <2>3. \A e \in Devs : connection'[e] = "connected" => connection[e] = "connected"
    BY <1>8 DEF Remove, IInv, TypeOK
  <2> QED BY <2>1, <2>2, <2>3, NothingNew, BatchEvents DEF Under_way, extension, Timely, TimersLive
<1>9. CASE CtrlXfer
  <2>1. Submit(Head(to_stub)) /\ Requested({"probe", "ctrl"})
    BY <1>9 DEF CtrlXfer
  <2>2. \/ IsProbe(Head(to_stub)) /\ ArmTimer(Head(to_stub))
        \/ UNCHANGED <<timers, timeout_urb>>
    BY <1>9 DEF CtrlXfer, IsProbe
  <2> QED BY <2>1, <2>2, SubmitTimely, ProbeTimely
<1>10. CASE DataXfer
  BY <1>10, SubmitTimely DEF DataXfer
<1>11. CASE IsocXfer
  BY <1>11, SubmitTimely DEF IsocXfer
<1>12. CASE Timeout
  <2>1. in_flight' \cup completed' = in_flight \cup completed
    BY <1>12 DEF Timeout, Discardable
  <2>2. /\ epoll_buf # <<>> /\ epoll_buf' = Tail(epoll_buf)
        /\ UNCHANGED <<extension, to_stub, to_bg, timers, expired, connection>>
    BY <1>12 DEF Timeout, Handling
  <2> QED BY <2>1, <2>2, NothingNew, BatchEvents, BatchHolds
          DEF Under_way, extension, Timely, TimersLive
<1>13. ASSUME NEW t \in completed, Reap(t) PROVE Timely'
  <2>1. /\ completed' = completed \ {t} /\ timers' = timers \ {t} /\ expired' = expired \ {t}
        /\ to_bg' = Append(to_bg, t)
        /\ UNCHANGED <<extension, to_stub, in_flight, epoll_buf, connection>>
    BY <1>13 DEF Reap
  <2>2. Elems(to_bg') = Elems(to_bg) \cup {t}
    BY <2>1, AppendHolds DEF IInv, TypeOK
  <2> QED BY <2>1, <2>2, NothingNew, BatchEvents DEF Under_way, extension, Timely, TimersLive
<1>14. CASE UsbEventDone
  <2>1. /\ epoll_buf # <<>> /\ epoll_buf' = Tail(epoll_buf)
        /\ UNCHANGED <<extension, to_stub, to_bg, urb_vars, connection>>
    BY <1>14 DEF UsbEventDone, Handling
  <2> QED BY <2>1, NothingNew, BatchEvents, BatchHolds
          DEF Under_way, extension, urb_vars, Timely, TimersLive
<1> QED
  BY <1>1, <1>2, <1>3, <1>4, <1>5, <1>6, <1>7, <1>8, <1>9, <1>10, <1>11, <1>12, <1>13, <1>14,
     ReceiveReplyTimely, EpollWaitTimely, RefuseTimely
  DEF Next, Extension, Kernel, RunLoop, Handle

\* What a timeout discards has a timer of its device, and that is the one.
LEMMA TimeoutOwn ==
  ASSUME IInv, Timely, Timeout, NEW t \in in_flight, t \notin in_flight'
  PROVE  t = TimerHandled
<1>1. epoll_buf # <<>> /\ Head(epoll_buf).source = "timer"
  BY DEF Timeout, Handling
<1>2. Head(epoll_buf) \in Elems(epoll_buf) /\ Head(epoll_buf) \in Events
  BY <1>1, TailHolds DEF IInv, TypeOK
<1>3. Head(epoll_buf).of.dev \in Devs
  BY <1>1, <1>2 DEF Events, Transfer
<1>4. /\ t = timeout_urb[Head(epoll_buf).of.dev] /\ t # NoUrb /\ Discardable(t)
  BY DEF Timeout
<1>5. t \in timers /\ t.dev = Head(epoll_buf).of.dev /\ connection[t.dev] = "connected"
  BY <1>3, <1>4 DEF IInv, SlotOwned, Discardable
<1> QED BY <1>1, <1>2, <1>5 DEF Timely, TimerEventsOwn, TimerHandled

\* Every variable always holds a value of its type.
THEOREM TypeCorrect == Spec => []TypeOK
BY SpecIInv, PTL DEF IInv

\* DISCARDURB never gets a pointer to a freed URB, and the box of an URB lives
\* until the kernel has handed the URB back (main.rs:3579 and 3634).
THEOREM OwnershipCorrect == Spec => []BoxesOutlive
BY SpecIInv, PTL DEF IInv, BoxesOutlive

\* The run loop never blocks reading an empty stdin (main.rs:3503-3508).
THEOREM StdinCorrect == Spec => []StdinNeverBlocks
<1>1. IInv => StdinNeverBlocks
  <2> SUFFICES ASSUME IInv, Handling("stdin") PROVE to_stub # <<>>
    BY DEF StdinNeverBlocks
  <2>1. epoll_buf \in Seq(Events) /\ epoll_buf # <<>> /\ Head(epoll_buf).source = "stdin"
    BY DEF IInv, TypeOK, Handling
  <2>2. 1 \in DOMAIN epoll_buf /\ Head(epoll_buf) = epoll_buf[1] /\ epoll_buf[1] \in Events
    BY <2>1, HeadTailProperties, EmptySeq
  <2>3. epoll_buf[1] = StdinEvent
    BY <2>1, <2>2 DEF Events, StdinEvent
  <2> QED BY <2>2, <2>3 DEF IInv, StdinOnce
<1> QED BY <1>1, SpecIInv, PTL

\* The stub on Linux implements RequestReply for transfers: each is carried out
\* once and answered once, whatever fails and whenever the device goes away.
THEOREM ServiceCorrect == Spec => ServiceSpec
<1>1. Init => Service!Init
  <2> SUFFICES ASSUME Init PROVE Service!Init
    OBVIOUS
  <2>1. 1 .. next_id - 1 = {}
    BY DEF Init
  <2> QED BY <2>1 DEF Init, Service!Init
<1>2. IInv /\ [Next]_vars => [Service!Next]_(Service!vars)
  BY NextIInv, ServiceStepRefines
<1> QED BY <1>1, <1>2, SpecIInv, PTL DEF Spec, ServiceSpec, Service!Spec

\* With system calls that fail only for a device that is gone, a timeout discards
\* the URB it was set up for and no other, also when its event is handled after
\* that URB was reaped (main.rs:3561-3590).
THEOREM TimeoutCorrect == ~SyscallsMayFail => (Spec => TimeoutHitsOwn)
<1> SUFFICES ASSUME ~SyscallsMayFail PROVE Spec => TimeoutHitsOwn
  OBVIOUS
<1>1. IInv /\ Timely /\ [Next]_vars => Timely'
  BY NextTimely
<1>2. IInv /\ Timely =>
        [Timeout => \A t \in in_flight : t \notin in_flight' => t = TimerHandled]_vars
  BY TimeoutOwn
<1> QED BY <1>1, <1>2, InitTimely, SpecIInv, PTL DEF Spec, TimeoutHitsOwn

================================================================================
