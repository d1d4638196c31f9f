-------------------------- MODULE BrokerSafety_proofs --------------------------
(***************************************************************************)
(* Broker: type correctness, the inductive invariant and the safety        *)
(* properties it implies.                                                  *)
(*                                                                         *)
(* Types and the counting of opens need each other: the open count stays a *)
(* natural number because a page that closes is one of those it counts.    *)
(*                                                                         *)
(* RefsAreLive and EveryCallHasOneRef are not inductive as they stand.     *)
(* Aborting the calls of one page marks whatever has their ids as dead, so *)
(* no two transactions may share an id; and a new id must not be one that  *)
(* is still in use.  IdsFresh and IdsUnique say so.                        *)
(***************************************************************************)
EXTENDS Broker, TLAPS, FiniteSetTheorems, SequenceTheorems

--------------------------------------------------------------------------------
(* Types.                                                                   *)

ConfigValues == Configs \cup {Unconfigured}

\* The bookkeeping of a queued request keeps its types.
LEMMA QueueType ==
  ASSUME TypeOK,
         NEW p \in Pages, NEW STATE refs, NEW type \in RequestTypes, NEW cb \in Callbacks,
         NEW iface \in Targets, NEW value \in ConfigValues,
         Queue(p, refs, type, cb, iface, value)
  PROVE  /\ to_stub' \in Seq(RequestMessage)
         /\ usb_txns' \subseteq PageTransaction
         /\ next_id' \in Nat
         /\ transactions' \in [Pages -> SUBSET TxnRef]
         /\ outstanding' \in [Pages -> SUBSET Nat]
         /\ to_bg' = to_bg
<1>1. MarkDead(refs) \subseteq PageTransaction
  BY DEF TypeOK, BgTypeOK, MarkDead, PageTransaction
<1>2. next_id \in Nat /\ Request(type, next_id, iface, value) \in RequestMessage
  BY DEF TypeOK, BgTypeOK, Request, RequestMessage, ConfigValues
<1>3. to_stub' \in Seq(RequestMessage)
  BY <1>2, AppendProperties DEF Queue, TypeOK
<1> DEFINE txn == [id |-> next_id, page |-> p, cb |-> cb, iface |-> iface,
                   value |-> value, alive |-> TRUE]
<1>a. txn \in PageTransaction
  BY <1>2 DEF PageTransaction, ConfigValues
<1>b. usb_txns' = MarkDead(refs) \cup {txn}
  BY DEF Queue
<1> HIDE DEF txn
<1>4. usb_txns' \subseteq PageTransaction
  BY <1>1, <1>a, <1>b
<1>5. transactions' \in [Pages -> SUBSET TxnRef]
  BY <1>2 DEF Queue, TypeOK, BgTypeOK, TxnRef
<1>6. outstanding' \in [Pages -> SUBSET Nat]
  BY <1>2 DEF Queue, TypeOK, BgTypeOK
<1> QED BY <1>2, <1>3, <1>4, <1>5, <1>6 DEF Queue

\* So do the requests of a close, whose number is that of the claims or one more.
LEMMA CloseRequestsType ==
  ASSUME TypeOK, NEW p \in Pages, NEW ord \in Ascending(claimed_interfaces[p])
  PROVE  CloseRequests(ord) \in Seq(RequestMessage)
<1> DEFINE S == claimed_interfaces[p]
           n == Cardinality(S)
           release == [k \in 1 .. n |->
             Request("ReleaseInterface", next_id + k - 1, ord[k], Unconfigured)]
<1>1. S \subseteq Ifaces /\ next_id \in Nat
  BY DEF TypeOK, BgTypeOK
<1>2. n \in Nat
  BY <1>1, IfacesAssumption, FS_Subset, FS_CardinalityType
<1>3. ord \in [1 .. n -> S] /\ Len(ord) = n /\ ord \in Seq(S)
  <2>1. ord \in [1 .. n -> S]
    BY DEF Ascending
  <2> QED BY <2>1, <1>2
<1>4. \A k \in 1 .. n : release[k] \in RequestMessage
  BY <1>1, <1>2, <1>3 DEF Request, RequestMessage, RequestTypes, Targets
<1>5. release \in Seq(RequestMessage)
  BY <1>2, <1>4
<1>6. Request("CloseDevice", next_id + n, DeviceTarget, Unconfigured) \in RequestMessage
  BY <1>1, <1>2 DEF Request, RequestMessage, RequestTypes, Targets
<1> HIDE DEF n
<1> QED BY <1>3, <1>5, <1>6, AppendProperties DEF CloseRequests, n

\* And its entries in usb_txns, with everything else a close touches.
LEMMA CloseDeviceType ==
  ASSUME TypeOK, NEW p \in Pages, CloseDeviceOfPage(p), opened_count >= 1
  PROVE  /\ to_stub' \in Seq(RequestMessage)
         /\ usb_txns' \subseteq PageTransaction
         /\ next_id' \in Nat
         /\ transactions' \in [Pages -> SUBSET TxnRef]
         /\ opened' \in [Pages -> BOOLEAN]
         /\ opened_count' \in Nat
         /\ to_bg' = to_bg
<1>1. PICK ord \in Ascending(claimed_interfaces[p]) : CloseDeviceOfPage(p)!(ord)
  BY DEF CloseDeviceOfPage
<1> DEFINE sent == CloseRequests(ord)
<1>2. sent \in Seq(RequestMessage)
  BY CloseRequestsType
<1>3. \A k \in 1 .. Len(sent) : CloseTransaction(p, sent[k]) \in PageTransaction
  <2> SUFFICES ASSUME NEW k \in 1 .. Len(sent)
               PROVE  CloseTransaction(p, sent[k]) \in PageTransaction
    OBVIOUS
  <2>1. sent[k] \in RequestMessage
    BY <1>2, ElementOfSeq
  <2> QED BY <2>1 DEF CloseTransaction, PageTransaction, RequestMessage, Callbacks
<1>4. MarkDead(Everything(p)) \subseteq PageTransaction
  BY DEF TypeOK, BgTypeOK, MarkDead, PageTransaction
<1>5. Len(sent) \in Nat
  BY <1>2, LenProperties
<1> HIDE DEF sent
<1>6. to_stub' \in Seq(RequestMessage)
  BY <1>1, <1>2, ConcatProperties DEF TypeOK, sent
<1>7. usb_txns' \subseteq PageTransaction
  BY <1>1, <1>3, <1>4 DEF sent
<1>8. next_id' \in Nat
  BY <1>1, <1>5 DEF TypeOK, BgTypeOK, sent
<1> QED BY <1>1, <1>6, <1>7, <1>8 DEF TypeOK, BgTypeOK

\* A page that has the device open is counted.
LEMMA OpenIsCounted ==
  ASSUME TypeOK, OpenCountCovers, NEW p \in Pages, opened[p]
  PROVE  opened_count >= 1
<1>1. IsFiniteSet(OpenPages) /\ p \in OpenPages
  BY PagesAssumption, FS_Subset DEF OpenPages
<1>2. Cardinality(OpenPages) \in Nat /\ Cardinality(OpenPages) # 0
  BY <1>1, FS_CardinalityType, FS_EmptySet
<1> QED BY <1>2 DEF OpenCountCovers, TypeOK, BgTypeOK

--------------------------------------------------------------------------------
(* The shapes a page's request can have.                                    *)

\* It is settled on the spot: nothing is queued and nothing aborted.
SettledAtOnce(p) ==
  \/ RequestDevice(p) \/ OpenAgain(p) \/ OpenShared(p) \/ CloseAgain(p)
  \/ \E i \in Ifaces : ClaimAgain(p, i) \/ ReleaseAgain(p, i)

\* The request of a transaction, as far as the stub tells requests apart.
Fits(cb, type) ==
  /\ cb = "open" <=> type = "OpenDevice"
  /\ cb = "set_config" <=> type = "SetConfiguration"
  /\ cb = "claim_interface" <=> type = "ClaimInterface"
  /\ cb \in {"release_interface", "close_release"} <=> type = "ReleaseInterface"
  /\ cb = "xfer" <=> type = "Transfer"
  /\ cb = "close" <=> type = "CloseDevice"

\* It queues one transaction and aborts some of the page's calls, which only a
\* page that has the device open does.
QueuesCall(p) ==
  \E refs \in SUBSET transactions[p], type \in RequestTypes, cb \in Callbacks,
     iface \in Targets, value \in ConfigValues :
    /\ Queue(p, refs, type, cb, iface, value)
    /\ p \in pages
    /\ IF cb = "open" THEN refs = {} /\ ~opened[p] /\ ~(opened_count > 0) ELSE opened[p]
    /\ Fits(cb, type) /\ cb \notin {"close", "close_release"}
    /\ cb \in {"claim_interface", "release_interface"} => iface \in Ifaces
    /\ QueueUnchanged

\* Or it closes the device.
LEMMA PageRequestShape ==
  ASSUME NEW p \in Pages, PageRequest(p)
  PROVE  SettledAtOnce(p) \/ QueuesCall(p) \/ ClosePage(p)
<1>1. ASSUME NEW STATE refs, refs \in SUBSET transactions[p], NEW type \in RequestTypes,
             NEW cb \in Callbacks, NEW iface \in Targets, NEW value \in ConfigValues,
             HasDevice(p),
             IF cb = "open" THEN refs = {} /\ ~opened[p] /\ ~(opened_count > 0) ELSE opened[p],
             Fits(cb, type), cb \notin {"close", "close_release"},
             cb \in {"claim_interface", "release_interface"} => iface \in Ifaces,
             Queue(p, refs, type, cb, iface, value), QueueUnchanged
      PROVE  QueuesCall(p)
  BY <1>1 DEF QueuesCall, HasDevice
<1>2. /\ Everything(p) \in SUBSET transactions[p]
      /\ AllInterfaces(p) \in SUBSET transactions[p]
      /\ \A i : ThisInterface(p, i) \in SUBSET transactions[p]
      /\ Nothing = {}
  BY DEF Everything, AllInterfaces, ThisInterface, Nothing
<1>3. DeviceTarget \in Targets /\ Ifaces \subseteq Targets
      /\ Unconfigured \in ConfigValues /\ Configs \subseteq ConfigValues
  BY DEF Targets, ConfigValues
<1> USE DEF RequestTypes, Callbacks, Fits
<1>4. CASE OpenFirst(p)
  BY <1>1, <1>2, <1>3, <1>4 DEF OpenFirst
<1>5. CASE Reset(p)
  BY <1>1, <1>2, <1>3, <1>5 DEF Reset, HasOpenDevice
<1>6. CASE \E c \in Configs : SetConfig(p, c)
  BY <1>1, <1>2, <1>3, <1>6 DEF SetConfig
<1>7. CASE \E i \in Ifaces : ClaimFree(p, i)
  BY <1>1, <1>2, <1>3, <1>7 DEF ClaimFree, HasOpenDevice
<1>8. CASE \E i \in Ifaces : ReleaseHeld(p, i)
  BY <1>1, <1>2, <1>3, <1>8 DEF ReleaseHeld, HasOpenDevice
<1>9. CASE \E i \in Ifaces : SetAlt(p, i)
  BY <1>1, <1>2, <1>3, <1>9 DEF SetAlt, HasOpenDevice
<1>10. CASE \E i \in Ifaces : ClearHaltPage(p, i)
  BY <1>1, <1>2, <1>3, <1>10 DEF ClearHaltPage, HasOpenDevice
<1>11. CASE \E i \in Targets : CtrlXfer(p, i)
  BY <1>1, <1>2, <1>3, <1>11 DEF CtrlXfer, HasOpenDevice
<1>12. CASE \E i \in Ifaces : DataXfer(p, i)
  BY <1>1, <1>2, <1>3, <1>12 DEF DataXfer, HasOpenDevice
<1> QED
  BY <1>4, <1>5, <1>6, <1>7, <1>8, <1>9, <1>10, <1>11, <1>12
  DEF PageRequest, Open, Close, Claim, Release, SettledAtOnce

--------------------------------------------------------------------------------

\* The target of a claim is an interface.
ClaimTargets ==
  \A t \in usb_txns : t.cb = "claim_interface" => t.iface \in Ifaces

\* Every request of a page keeps the types.
LEMMA PageRequestType ==
  ASSUME TypeOK, OpenCountCovers, NEW p \in Pages, PageRequest(p), UNCHANGED stub_vars
  PROVE  TypeOK'
<1> USE DEF TypeOK, BgTypeOK, StubTypeOK, stub_vars, router_vars, device_vars,
            page_dev_vars, view_vars
<1>1. CASE SettledAtOnce(p)
  <2>1. CASE RequestDevice(p)
    BY <2>1 DEF RequestDevice
  <2>2. CASE OpenAgain(p)
    BY <2>2 DEF OpenAgain
  <2>3. CASE OpenShared(p)
    BY <2>3 DEF OpenShared
  <2>4. CASE CloseAgain(p)
    BY <2>4 DEF CloseAgain
  <2>5. CASE \E i \in Ifaces : ClaimAgain(p, i)
    BY <2>5 DEF ClaimAgain
  <2>6. CASE \E i \in Ifaces : ReleaseAgain(p, i)
    BY <2>6 DEF ReleaseAgain
  <2> QED BY <1>1, <2>1, <2>2, <2>3, <2>4, <2>5, <2>6 DEF SettledAtOnce
<1>2. CASE QueuesCall(p)
  <2>1. PICK refs \in SUBSET transactions[p], type \in RequestTypes, cb \in Callbacks,
             iface \in Targets, value \in ConfigValues :
               Queue(p, refs, type, cb, iface, value) /\ QueueUnchanged
    BY <1>2 DEF QueuesCall
  <2> QED BY <2>1, QueueType DEF QueueUnchanged
<1>3. CASE ClosePage(p)
  <2>1. opened_count >= 1
    BY <1>3, OpenIsCounted DEF ClosePage
  <2> QED BY <1>3, <2>1, CloseDeviceType DEF ClosePage
<1> QED BY <1>1, <1>2, <1>3, PageRequestShape

\* The end of a page keeps them.
LEMMA DisconnectType ==
  ASSUME TypeOK, OpenCountCovers, NEW p \in Pages, Disconnect(p), UNCHANGED stub_vars
  PROVE  TypeOK'
<1>1. CASE DisconnectIdle(p)
  BY <1>1 DEF DisconnectIdle, PageGone, TypeOK, BgTypeOK, StubTypeOK, stub_vars
<1>2. CASE DisconnectOpen(p)
  <2>1. opened_count >= 1
    BY <1>2, OpenIsCounted DEF DisconnectOpen
  <2>2. CloseDeviceOfPage(p) /\ PageGone(p)
    BY <1>2 DEF DisconnectOpen
  <2> QED
    BY <2>1, <2>2, CloseDeviceType
    DEF PageGone, TypeOK, BgTypeOK, StubTypeOK, stub_vars
<1> QED BY <1>1, <1>2 DEF Disconnect

\* What any reply does to the types, before its callback's own effect.
LEMMA CallbackType ==
  ASSUME TypeOK, NEW t \in usb_txns, NEW cbs, NEW ok \in BOOLEAN, Callback(t, cbs, ok)
  PROVE  /\ to_bg' \in Seq(ResponseMessage)
         /\ usb_txns' \subseteq PageTransaction
         /\ transactions' \in [Pages -> SUBSET TxnRef]
         /\ outstanding' \in [Pages -> SUBSET Nat]
         /\ UNCHANGED <<to_stub, known, next_id, pages, page_devices>>
         /\ t \in PageTransaction
<1>1. t \in PageTransaction
  BY DEF TypeOK, BgTypeOK
<1>2. to_bg' \in Seq(ResponseMessage)
  BY HeadTailProperties DEF Callback, Receive, TypeOK
<1> QED
  BY <1>1, <1>2 DEF Callback, Receive, Settle, TypeOK, BgTypeOK, PageTransaction

\* Every message of the stub keeps the types.
LEMMA BgReceiveType ==
  ASSUME TypeOK, ClaimTargets, BgReceive, UNCHANGED stub_vars
  PROVE  TypeOK'
<1> USE DEF TypeOK, BgTypeOK, StubTypeOK, stub_vars
<1>1. CASE UnplugDevice
  <2>1. to_bg' \in Seq(ResponseMessage)
    BY <1>1, HeadTailProperties DEF UnplugDevice
  <2> QED BY <1>1, <2>1 DEF UnplugDevice, page_dev_vars, view_vars
<1>2. CASE to_bg # <<>> /\ OnDeadReply
  <2>1. to_bg' \in Seq(ResponseMessage)
    BY <1>2, HeadTailProperties DEF OnDeadReply, Receive
  <2> QED BY <1>2, <2>1 DEF OnDeadReply, Receive, NoStateChange
<1>3. ASSUME NEW t \in usb_txns, OnOpened(t)
      PROVE  TypeOK'
  <2>1. Callback(t, {"open"}, TRUE)
    BY <1>3 DEF OnOpened
  <2>2. t.page \in Pages
    BY <2>1, CallbackType DEF PageTransaction
  <2>3. opened' \in [Pages -> BOOLEAN] /\ view_opened' \in [Pages -> BOOLEAN]
    BY <1>3, <2>2 DEF OnOpened
  <2>4. opened_count' \in Nat
    BY <1>3 DEF OnOpened
  <2> QED BY <1>3, <2>1, <2>3, <2>4, CallbackType DEF OnOpened
<1>4. ASSUME NEW t \in usb_txns, OnConfigSet(t)
      PROVE  TypeOK'
  <2>1. Callback(t, {"set_config"}, TRUE)
    BY <1>4 DEF OnConfigSet
  <2>2. t.page \in Pages /\ t.value \in Configs \cup {Unconfigured}
    BY <2>1, CallbackType DEF PageTransaction
  <2> QED BY <1>4, <2>1, <2>2, CallbackType DEF OnConfigSet, Unclaimed
<1>5. ASSUME NEW t \in usb_txns, OnClaimed(t)
      PROVE  TypeOK'
  <2>1. Callback(t, {"claim_interface"}, TRUE)
    BY <1>5 DEF OnClaimed
  <2>2. t.page \in Pages /\ t.iface \in Ifaces
    BY <2>1, CallbackType DEF PageTransaction, ClaimTargets, Callback
  <2>3. claimed_interfaces' \in [Pages -> SUBSET Ifaces]
    BY <1>5, <2>2 DEF OnClaimed
  <2> QED BY <1>5, <2>1, <2>2, <2>3, CallbackType DEF OnClaimed
<1>6. ASSUME NEW t \in usb_txns, OnReleased(t)
      PROVE  TypeOK'
  <2>1. Callback(t, {"release_interface", "close_release"}, TRUE)
    BY <1>6 DEF OnReleased
  <2>2. t.page \in Pages
    BY <2>1, CallbackType DEF PageTransaction
  <2> QED BY <1>6, <2>1, <2>2, CallbackType DEF OnReleased
<1>7. ASSUME NEW t \in usb_txns, OnDone(t) \/ OnError(t)
      PROVE  TypeOK'
  <2>1. CASE OnDone(t)
    BY <2>1, CallbackType DEF OnDone, NoStateChange
  <2>2. CASE OnError(t)
    BY <2>2, CallbackType DEF OnError, NoStateChange
  <2> QED BY <1>7, <2>1, <2>2
<1> QED
  BY <1>1, <1>2, <1>3, <1>4, <1>5, <1>6, <1>7 DEF BgReceive, StubReply

\* Answering a request, which was on the stub's stdin.
LEMMA AnswerType ==
  ASSUME TypeOK, to_stub # <<>>
  PROVE  /\ Head(to_stub) \in RequestMessage
         /\ Tail(to_stub) \in Seq(RequestMessage)
         /\ \A ok \in BOOLEAN :
              AnswerNow(ok) => /\ to_stub' \in Seq(RequestMessage)
                               /\ to_bg' \in Seq(ResponseMessage)
<1>1. Head(to_stub) \in RequestMessage /\ Tail(to_stub) \in Seq(RequestMessage)
  BY HeadTailProperties DEF TypeOK
<1>2. \A ok \in BOOLEAN : Reply(Head(to_stub).id, ok) \in ResponseMessage
  BY <1>1 DEF Reply, ResponseMessage, RequestMessage
<1>3. ASSUME NEW ok \in BOOLEAN, AnswerNow(ok)
      PROVE  to_stub' \in Seq(RequestMessage) /\ to_bg' \in Seq(ResponseMessage)
  <2>1. to_bg \in Seq(ResponseMessage) /\ Reply(Head(to_stub).id, ok) \in ResponseMessage
    BY <1>2 DEF TypeOK
  <2>2. Append(to_bg, Reply(Head(to_stub).id, ok)) \in Seq(ResponseMessage)
    BY <2>1, AppendProperties
  <2> QED BY <1>1, <1>3, <2>2 DEF AnswerNow
<1> QED BY <1>1, <1>3

\* Every step of the stub keeps the types.
LEMMA StubType ==
  ASSUME TypeOK, StubNext, UNCHANGED bg_vars
  PROVE  TypeOK'
<1> USE DEF StubTypeOK, stub_vars
<1>1. BgTypeOK'
  BY DEF TypeOK, BgTypeOK, bg_vars, router_vars, device_vars, page_dev_vars, view_vars
<1>2. IoctlResults \subseteq BOOLEAN /\ StubTypeOK
  BY DEF IoctlResults, TypeOK
<1>3. CASE DeviceNotFound
  BY <1>1, <1>2, <1>3, AnswerType DEF DeviceNotFound, TypeOK
<1>4. CASE OpenDevice
  BY <1>1, <1>2, <1>4, AnswerType DEF OpenDevice, Receiving, TypeOK
<1>5. CASE CloseDevice
  <2>1. PICK ok \in BOOLEAN, released \in SUBSET Ifaces :
          /\ if_state' = [i \in Ifaces |-> IF i \in released THEN "free" ELSE if_state[i]]
          /\ stub_opened' = (stub_opened /\ ~ok)
          /\ AnswerNow(ok)
    BY <1>2, <1>5 DEF CloseDevice, StubClaimed
  <2>2. if_state' \in [Ifaces -> IfStates] /\ stub_opened' \in BOOLEAN
    BY <1>2, <2>1 DEF IfStates
  <2> QED BY <1>1, <1>2, <1>5, <2>1, <2>2, AnswerType DEF CloseDevice, Receiving, TypeOK
<1>6. CASE ResetDevice
  BY <1>1, <1>2, <1>6, AnswerType DEF ResetDevice, Receiving, TypeOK
<1>7. CASE SetConfiguration
  <2>1. PICK changed \in BOOLEAN, probed \in BOOLEAN :
          LET c == Head(to_stub).value IN
            /\ stub_config' = IF changed THEN c ELSE stub_config
            /\ if_state' = IF changed /\ probed THEN Probed(c) ELSE if_state
            /\ AnswerNow(changed /\ probed)
    BY <1>2, <1>7 DEF SetConfiguration
  <2>2. Head(to_stub).value \in Configs \cup {Unconfigured}
    BY <1>7, AnswerType DEF SetConfiguration, Receiving, RequestMessage
  <2>3. \A c : Probed(c) \in [Ifaces -> IfStates]
    BY DEF Probed, IfStates
  <2> QED
    BY <1>1, <1>2, <1>7, <2>1, <2>2, <2>3, AnswerType
    DEF SetConfiguration, Receiving, TypeOK
<1>8. CASE ClaimInterface
  BY <1>1, <1>2, <1>8, AnswerType DEF ClaimInterface, Receiving, TypeOK, IfStates
<1>9. CASE ReleaseInterface
  <2>1. PICK ok \in BOOLEAN : /\ if_state' = [if_state EXCEPT ![Head(to_stub).iface] =
                                                IF ok THEN "free" ELSE @]
                              /\ AnswerNow(ok)
    BY <1>2, <1>9 DEF ReleaseInterface
  <2>2. if_state' \in [Ifaces -> IfStates]
    BY <1>2, <2>1 DEF IfStates
  <2> QED BY <1>1, <1>2, <1>9, <2>1, <2>2, AnswerType DEF ReleaseInterface, Receiving, TypeOK
<1>10. CASE SetAltOrClearHalt
  BY <1>1, <1>2, <1>10, AnswerType DEF SetAltOrClearHalt, Receiving, TypeOK
<1>11. CASE Transfer
  BY <1>1, <1>2, <1>11, AnswerType DEF Transfer, Receiving, TypeOK, RequestMessage
<1>12. CASE ReapUrb
  <2>1. PICK id \in urbs, ok \in BOOLEAN : /\ urbs' = urbs \ {id}
                                           /\ to_bg' = Append(to_bg, Reply(id, ok))
    BY <1>12 DEF ReapUrb
  <2>2. Reply(id, ok) \in ResponseMessage
    BY <1>2, <2>1 DEF Reply, ResponseMessage
  <2>3. to_bg' \in Seq(ResponseMessage)
    BY <2>1, <2>2, AppendProperties DEF TypeOK
  <2> QED BY <1>1, <1>2, <1>12, <2>1, <2>3 DEF ReapUrb, TypeOK
<1>13. CASE Unplugged \/ Destroyed
  <2>1. UnplugEvent \in ResponseMessage
    BY DEF UnplugEvent, ResponseMessage
  <2>2. to_bg' \in Seq(ResponseMessage)
    BY <1>13, <2>1, AppendProperties DEF Unplugged, Destroyed, TypeOK
  <2> QED BY <1>1, <1>2, <1>13, <2>2 DEF Unplugged, Destroyed, TypeOK
<1> QED
  BY <1>3, <1>4, <1>5, <1>6, <1>7, <1>8, <1>9, <1>10, <1>11, <1>12, <1>13
  DEF StubNext, HandleStdin

--------------------------------------------------------------------------------
(* The invariant.                                                           *)

IdsFresh == \A t \in usb_txns : t.id < next_id
IdsUnique == \A t, u \in usb_txns : t.id = u.id => t = u

\* Opens are counted, and a page that has the device open knows it.
Opens == OpenCountCovers /\ ViewOpen

\* The transactions, the txn_refs and the page's calls match.
Calls == ClaimTargets /\ IdsFresh /\ IdsUnique /\ RefsAreLive /\ EveryCallHasOneRef

\* Claims, in the background script and in the stub.
Claims == OwnerHoldsClaim /\ ClaimsNeedOpen

IInv == TypeOK /\ Opens /\ Calls /\ Claims

--------------------------------------------------------------------------------
(* What a step does to transactions, txn_refs and calls.                    *)

txn_vars == <<usb_txns, next_id, transactions, outstanding, pages>>

\* A reply to a live transaction, or to a dead or unknown one.
Answered ==
  \/ \E t \in usb_txns, cbs \in SUBSET Callbacks, ok \in BOOLEAN : Callback(t, cbs, ok)
  \/ to_bg # <<>> /\ OnDeadReply

LEMMA StepShape ==
  ASSUME [Next]_vars
  PROVE  \/ UNCHANGED txn_vars
         \/ \E p \in Pages : \/ QueuesCall(p)
                             \/ ClosePage(p)
                             \/ Disconnect(p)
         \/ Answered
<1>1. CASE UNCHANGED vars \/ StubStep
  BY <1>1 DEF vars, bg_vars, router_vars, page_dev_vars, view_vars, txn_vars, StubStep
<1>2. CASE UnplugDevice
  BY <1>2 DEF UnplugDevice, page_dev_vars, view_vars, txn_vars
<1>3. CASE StubReply
  <2>1. ASSUME NEW t \in usb_txns, \/ OnOpened(t) \/ OnConfigSet(t) \/ OnClaimed(t)
                                   \/ OnReleased(t) \/ OnDone(t) \/ OnError(t)
        PROVE  Answered
    <3>1. \A cbs \in SUBSET Callbacks, ok \in BOOLEAN : Callback(t, cbs, ok) => Answered
      BY DEF Answered
    <3> QED
      BY <2>1, <3>1
      DEF OnOpened, OnConfigSet, OnClaimed, OnReleased, OnDone, OnError, Callbacks
  <2> QED BY <1>3, <2>1 DEF StubReply, Answered
<1>4. ASSUME NEW p \in Pages, SettledAtOnce(p)
      PROVE  UNCHANGED txn_vars
  BY <1>4 DEF SettledAtOnce, RequestDevice, OpenAgain, OpenShared, CloseAgain,
              ClaimAgain, ReleaseAgain, router_vars, page_dev_vars, view_vars, txn_vars
<1>5. ASSUME NEW p \in Pages, PageRequest(p)
      PROVE  UNCHANGED txn_vars \/ QueuesCall(p) \/ ClosePage(p)
  BY <1>4, <1>5, PageRequestShape
<1> QED BY <1>1, <1>2, <1>3, <1>5 DEF Next, BgStep, BgNext, BgReceive

\* The requests of a close get consecutive new ids.
LEMMA CloseRequestsIds ==
  ASSUME TypeOK, NEW p \in Pages, NEW ord \in Ascending(claimed_interfaces[p])
  PROVE  /\ CloseRequests(ord) \in Seq(RequestMessage)
         /\ \A k \in 1 .. Len(CloseRequests(ord)) : CloseRequests(ord)[k].id = next_id + k - 1
<1> DEFINE n == Len(ord)
           release == [k \in 1 .. n |->
             Request("ReleaseInterface", next_id + k - 1, ord[k], Unconfigured)]
           close == Request("CloseDevice", next_id + n, DeviceTarget, Unconfigured)
<1>1. CloseRequests(ord) \in Seq(RequestMessage)
  BY CloseRequestsType
<1>2. next_id \in Nat /\ n \in Nat
  <2>1. IsFiniteSet(claimed_interfaces[p])
    BY IfacesAssumption, FS_Subset DEF TypeOK, BgTypeOK
  <2>2. Cardinality(claimed_interfaces[p]) \in Nat
    BY <2>1, FS_CardinalityType
  <2>3. ord \in [1 .. Cardinality(claimed_interfaces[p]) -> claimed_interfaces[p]]
    BY DEF Ascending
  <2> QED BY <2>2, <2>3 DEF TypeOK, BgTypeOK
<1>3. /\ \A k \in 1 .. n : release[k].id = next_id + k - 1
      /\ close.id = next_id + n
  BY DEF Request
<1>4. release \in Seq(Range(release)) /\ Len(release) = n
  BY <1>2 DEF Range
<1>5. /\ Len(Append(release, close)) = n + 1
      /\ Append(release, close)[n + 1] = close
      /\ \A k \in 1 .. n : Append(release, close)[k] = release[k]
  BY <1>2, <1>4, AppendProperties
<1>6. CloseRequests(ord) = IF opened_count = 1 THEN Append(release, close) ELSE release
  BY DEF CloseRequests
<1> HIDE DEF release, close, n
<1>7. \A k \in 1 .. n + 1 : k \in 1 .. n \/ k = n + 1
  BY <1>2
<1> QED BY <1>1, <1>2, <1>3, <1>4, <1>5, <1>6, <1>7

--------------------------------------------------------------------------------
(* Calls.                                                                   *)

\* Two txn_refs with one id are one, of one page.
LEMMA RefsUnique ==
  ASSUME TypeOK, IdsUnique, RefsAreLive,
         NEW p \in Pages, NEW q \in Pages, NEW r \in transactions[p],
         NEW x \in transactions[q], r.id = x.id
  PROVE  p = q /\ r = x
<1>1. PICK t \in usb_txns : t.id = r.id /\ t.page = p /\ t.iface = r.intf
  BY DEF RefsAreLive
<1>2. PICK u \in usb_txns : u.id = x.id /\ u.page = q /\ u.iface = x.intf
  BY DEF RefsAreLive
<1>3. t = u
  BY <1>1, <1>2 DEF IdsUnique
<1>4. r \in TxnRef /\ x \in TxnRef
  BY DEF TypeOK, BgTypeOK
<1> QED BY <1>1, <1>2, <1>3, <1>4 DEF TxnRef

\* Marking transactions dead changes nothing else of them, and no ids.
LEMMA MarkDeadProperties ==
  ASSUME TypeOK, IdsUnique, NEW STATE refs
  PROVE  /\ \A t \in MarkDead(refs) : \E u \in usb_txns :
              t.id = u.id /\ t.page = u.page /\ t.cb = u.cb /\ t.iface = u.iface /\ t.value = u.value
         /\ \A t, u \in MarkDead(refs) : t.id = u.id => t = u
<1> DEFINE Marked(u) == IF u.id \in Ids(refs) THEN [u EXCEPT !.alive = FALSE] ELSE u
<1>1. \A t \in MarkDead(refs) : \E u \in usb_txns : t = Marked(u)
  BY DEF MarkDead
<1>2. \A u \in usb_txns : u \in PageTransaction
  BY DEF TypeOK, BgTypeOK
<1>3. \A u \in usb_txns : /\ Marked(u).id = u.id /\ Marked(u).page = u.page
                          /\ Marked(u).cb = u.cb /\ Marked(u).iface = u.iface
                          /\ Marked(u).value = u.value
  BY <1>2 DEF PageTransaction
<1> HIDE DEF Marked
<1>4. ASSUME NEW t \in MarkDead(refs), NEW u \in MarkDead(refs), t.id = u.id
      PROVE  t = u
  <2>1. PICK v \in usb_txns : t = Marked(v)
    BY <1>1
  <2>2. PICK w \in usb_txns : u = Marked(w)
    BY <1>1
  <2>3. v = w
    BY <1>3, <1>4, <2>1, <2>2 DEF IdsUnique
  <2> QED BY <2>1, <2>2, <2>3
<1> QED BY <1>1, <1>3, <1>4

\* Queueing a call.
LEMMA QueueCalls ==
  ASSUME TypeOK, Calls, NEW p \in Pages, QueuesCall(p)
  PROVE  Calls'
<1>1. PICK refs \in SUBSET transactions[p], type \in RequestTypes, cb \in Callbacks,
           iface \in Targets, value \in ConfigValues :
             /\ Queue(p, refs, type, cb, iface, value)
             /\ cb = "claim_interface" => iface \in Ifaces
             /\ QueueUnchanged
  BY DEF QueuesCall
<1> DEFINE txn == [id |-> next_id, page |-> p, cb |-> cb, iface |-> iface,
                   value |-> value, alive |-> TRUE]
           ref == [id |-> next_id, intf |-> iface]
<1>2. /\ usb_txns' = MarkDead(refs) \cup {txn}
      /\ next_id' = next_id + 1
      /\ transactions' = [transactions EXCEPT ![p] = (@ \ refs) \cup {ref}]
      /\ outstanding' = [outstanding EXCEPT ![p] = (@ \ Ids(refs)) \cup {next_id}]
      /\ pages' = pages
  BY <1>1 DEF Queue, QueueUnchanged
<1>3. txn.id = next_id /\ txn.page = p /\ txn.cb = cb /\ txn.iface = iface /\ txn.alive
      /\ ref.id = next_id /\ ref.intf = iface
  OBVIOUS
<1>4. next_id \in Nat /\ \A t \in usb_txns : t.id \in Nat /\ t \in PageTransaction
  BY DEF TypeOK, BgTypeOK, PageTransaction
<1>5. \A t \in MarkDead(refs) : \E u \in usb_txns :
        t.id = u.id /\ t.page = u.page /\ t.cb = u.cb /\ t.iface = u.iface
  BY MarkDeadProperties DEF Calls
<1>6. \A t \in MarkDead(refs) : t.id < next_id
  BY <1>5 DEF Calls, IdsFresh
<1> HIDE DEF txn, ref
<1>7. ClaimTargets'
  BY <1>1, <1>2, <1>3, <1>5 DEF Calls, ClaimTargets
<1>8. IdsFresh'
  BY <1>2, <1>3, <1>4, <1>5, <1>6 DEF IdsFresh
<1>9. IdsUnique'
  <2>1. \A t, u \in MarkDead(refs) : t.id = u.id => t = u
    BY MarkDeadProperties DEF Calls
  <2> QED BY <1>2, <1>3, <1>4, <1>5, <1>6, <2>1 DEF IdsUnique
<1>10. RefsAreLive'
  <2> SUFFICES ASSUME NEW q \in Pages, NEW r \in transactions'[q]
               PROVE  \E t \in usb_txns' : t.id = r.id /\ t.page = q /\ t.iface = r.intf /\ t.alive
    BY DEF RefsAreLive
  <2>1. CASE q = p /\ r = ref
    BY <1>2, <1>3, <2>1
  <2>2. CASE ~(q = p /\ r = ref)
    <3>1. r \in transactions[q] /\ (q = p => r \notin refs)
      BY <1>2, <2>2 DEF TypeOK, BgTypeOK
    <3>2. r.id \notin Ids(refs)
      BY <1>1, <3>1, RefsUnique DEF Ids, Calls
    <3>3. PICK t \in usb_txns : t.id = r.id /\ t.page = q /\ t.iface = r.intf /\ t.alive
      BY <3>1 DEF Calls, RefsAreLive
    <3>4. t \in MarkDead(refs)
      BY <3>2, <3>3 DEF MarkDead
    <3> QED BY <1>2, <3>3, <3>4
  <2> QED BY <2>1, <2>2
<1>11. EveryCallHasOneRef'
  <2>1. \A r \in transactions[p], x \in transactions[p] : r.id = x.id => r = x
    BY RefsUnique DEF Calls
  <2>2. Ids((transactions[p] \ refs) \cup {ref}) = (Ids(transactions[p]) \ Ids(refs)) \cup {next_id}
    BY <1>1, <1>3, <2>1 DEF Ids
  <2>3. p \in pages => outstanding[p] = Ids(transactions[p])
    BY DEF Calls, EveryCallHasOneRef
  <2>4. p \in pages => outstanding'[p] = Ids(transactions'[p])
    BY <1>2, <2>2, <2>3 DEF TypeOK, BgTypeOK
  <2>5. \A q \in pages : q # p => outstanding'[q] = Ids(transactions'[q])
    BY <1>2 DEF Calls, EveryCallHasOneRef, TypeOK, BgTypeOK
  <2> QED BY <1>2, <2>4, <2>5 DEF EveryCallHasOneRef, Ids
<1> QED BY <1>7, <1>8, <1>9, <1>10, <1>11 DEF Calls

\* Closing a page's device, by its own call or because the page is gone.
LEMMA CloseCalls ==
  ASSUME TypeOK, Calls, NEW p \in Pages, CloseDeviceOfPage(p),
         pages' \subseteq pages,
         \A q \in pages' : outstanding'[q] = IF q = p THEN outstanding[q] \ Ids(Everything(p))
                                                      ELSE outstanding[q]
  PROVE  Calls'
<1>1. PICK ord \in Ascending(claimed_interfaces[p]) : CloseDeviceOfPage(p)!(ord)
  BY DEF CloseDeviceOfPage
<1> DEFINE sent == CloseRequests(ord)
           refs == Everything(p)
           new == {CloseTransaction(p, sent[k]) : k \in 1 .. Len(sent)}
<1>2. /\ usb_txns' = MarkDead(refs) \cup new
      /\ next_id' = next_id + Len(sent)
      /\ transactions' = [transactions EXCEPT ![p] = {}]
  BY <1>1
<1>3. sent \in Seq(RequestMessage) /\ \A k \in 1 .. Len(sent) : sent[k].id = next_id + k - 1
  BY CloseRequestsIds
<1>4. Len(sent) \in Nat
  BY <1>3, LenProperties
<1>5. next_id \in Nat /\ \A t \in usb_txns : t.id \in Nat /\ t \in PageTransaction
  BY DEF TypeOK, BgTypeOK, PageTransaction
<1>6. \A t \in MarkDead(refs) : \E u \in usb_txns :
        t.id = u.id /\ t.page = u.page /\ t.cb = u.cb /\ t.iface = u.iface
  BY MarkDeadProperties DEF Calls
<1>7. \A t \in MarkDead(refs) : t.id < next_id /\ t.id \in Nat
  BY <1>5, <1>6 DEF Calls, IdsFresh
<1> HIDE DEF sent
<1>8. \A t \in new : /\ t.id >= next_id /\ t.id < next_id + Len(sent)
                     /\ t.cb # "claim_interface"
  <2> SUFFICES ASSUME NEW k \in 1 .. Len(sent)
               PROVE  LET t == CloseTransaction(p, sent[k]) IN
                        /\ t.id >= next_id /\ t.id < next_id + Len(sent)
                        /\ t.cb # "claim_interface"
    OBVIOUS
  <2>1. CloseTransaction(p, sent[k]).id = next_id + k - 1
    BY <1>3 DEF CloseTransaction
  <2> QED BY <1>4, <1>5, <2>1 DEF CloseTransaction
<1>9. \A t, u \in new : t.id = u.id => t = u
  <2> SUFFICES ASSUME NEW j \in 1 .. Len(sent), NEW k \in 1 .. Len(sent),
                      CloseTransaction(p, sent[j]).id = CloseTransaction(p, sent[k]).id
               PROVE  j = k
    OBVIOUS
  <2> QED BY <1>3, <1>4, <1>5 DEF CloseTransaction
<1> HIDE DEF new, refs
<1>10. ClaimTargets'
  BY <1>2, <1>6, <1>8 DEF Calls, ClaimTargets
<1>11. IdsFresh'
  BY <1>2, <1>4, <1>5, <1>7, <1>8 DEF IdsFresh
<1>12. IdsUnique'
  <2>1. \A t, u \in MarkDead(refs) : t.id = u.id => t = u
    BY MarkDeadProperties DEF Calls
  <2>2. \A t \in MarkDead(refs), u \in new : t.id # u.id
    <3> SUFFICES ASSUME NEW t \in MarkDead(refs), NEW u \in new, t.id = u.id
                 PROVE  FALSE
      OBVIOUS
    <3> QED BY <1>5, <1>7, <1>8
  <2> QED BY <1>2, <1>9, <2>1, <2>2 DEF IdsUnique
<1>13. RefsAreLive'
  <2> SUFFICES ASSUME NEW q \in Pages, NEW r \in transactions'[q]
               PROVE  \E t \in usb_txns' : t.id = r.id /\ t.page = q /\ t.iface = r.intf /\ t.alive
    BY DEF RefsAreLive
  <2>1. q # p /\ r \in transactions[q]
    BY <1>2 DEF TypeOK, BgTypeOK
  <2>2. r.id \notin Ids(refs)
    BY <2>1, RefsUnique DEF Ids, Calls, refs, Everything
  <2>3. PICK t \in usb_txns : t.id = r.id /\ t.page = q /\ t.iface = r.intf /\ t.alive
    BY <2>1 DEF Calls, RefsAreLive
  <2>4. t \in MarkDead(refs)
    BY <2>2, <2>3 DEF MarkDead
  <2> QED BY <1>2, <2>3, <2>4
<1>14. EveryCallHasOneRef'
  <2> SUFFICES ASSUME NEW q \in pages'
               PROVE  outstanding'[q] = Ids(transactions'[q])
    BY DEF EveryCallHasOneRef, Ids
  <2>1. q \in pages /\ q \in Pages /\ outstanding[q] = Ids(transactions[q])
    BY DEF TypeOK, BgTypeOK, Calls, EveryCallHasOneRef
  <2>2. CASE q = p
    BY <1>2, <2>1, <2>2 DEF Ids, Everything, TypeOK, BgTypeOK
  <2>3. CASE q # p
    BY <1>2, <2>1, <2>3 DEF TypeOK, BgTypeOK
  <2> QED BY <2>2, <2>3
<1> QED BY <1>10, <1>11, <1>12, <1>13, <1>14 DEF Calls

\* A reply.
LEMMA AnsweredCalls ==
  ASSUME TypeOK, Calls, Answered
  PROVE  Calls'
<1>1. ASSUME NEW t \in usb_txns, NEW cbs, NEW ok, Callback(t, cbs, ok)
      PROVE  Calls'
  <2>1. t.page \in Pages
    BY DEF TypeOK, BgTypeOK, PageTransaction
  <2>2. /\ usb_txns' = {u \in usb_txns : u.id # t.id}
        /\ transactions' = [transactions EXCEPT ![t.page] = {r \in @ : r.id # t.id}]
        /\ outstanding' = [outstanding EXCEPT ![t.page] = @ \ {t.id}]
        /\ UNCHANGED <<next_id, pages>>
    BY <1>1 DEF Callback, Receive, Settle, Reply
  <2>3. (ClaimTargets /\ IdsFresh /\ IdsUnique)'
    BY <2>2 DEF Calls, ClaimTargets, IdsFresh, IdsUnique
  <2>4. RefsAreLive'
    <3> SUFFICES ASSUME NEW q \in Pages, NEW r \in transactions'[q]
                 PROVE  \E u \in usb_txns' : u.id = r.id /\ u.page = q /\ u.iface = r.intf /\ u.alive
      BY DEF RefsAreLive
    <3>1. r \in transactions[q] /\ (q = t.page => r.id # t.id)
      BY <2>1, <2>2 DEF TypeOK, BgTypeOK
    <3>2. PICK u \in usb_txns : u.id = r.id /\ u.page = q /\ u.iface = r.intf /\ u.alive
      BY <3>1 DEF Calls, RefsAreLive
    <3>3. u.id # t.id
      BY <3>1, <3>2 DEF Calls, IdsUnique
    <3> QED BY <2>2, <3>2, <3>3
  <2>5. EveryCallHasOneRef'
    <3> SUFFICES ASSUME NEW q \in pages
                 PROVE  outstanding'[q] = Ids(transactions'[q])
      BY <2>2 DEF EveryCallHasOneRef, Ids
    <3>1. q \in Pages /\ outstanding[q] = Ids(transactions[q])
      BY DEF TypeOK, BgTypeOK, Calls, EveryCallHasOneRef
    <3>2. Ids({r \in transactions[q] : r.id # t.id}) = Ids(transactions[q]) \ {t.id}
      BY DEF Ids
    <3> QED BY <2>1, <2>2, <3>1, <3>2 DEF TypeOK, BgTypeOK
  <2> QED BY <2>3, <2>4, <2>5 DEF Calls
<1>2. ASSUME OnDeadReply
      PROVE  Calls'
  <2>1. PICK m : /\ usb_txns' = {u \in usb_txns : u.id # m.id}
                 /\ ~\E u \in usb_txns : u.id = m.id /\ u.alive
                 /\ UNCHANGED <<next_id, pages, transactions, outstanding>>
    BY <1>2 DEF OnDeadReply, Receive
  <2>2. RefsAreLive'
    BY <2>1 DEF Calls, RefsAreLive
  <2> QED
    BY <2>1, <2>2
    DEF Calls, ClaimTargets, IdsFresh, IdsUnique, EveryCallHasOneRef, Ids
<1> QED BY <1>1, <1>2 DEF Answered

LEMMA CallsStep ==
  ASSUME TypeOK, Calls, [Next]_vars
  PROVE  Calls'
<1>1. CASE UNCHANGED txn_vars
  BY <1>1
  DEF txn_vars, Calls, ClaimTargets, IdsFresh, IdsUnique, RefsAreLive, EveryCallHasOneRef, Ids
<1>2. ASSUME NEW p \in Pages, ClosePage(p)
      PROVE  Calls'
  BY <1>2, CloseCalls DEF ClosePage, TypeOK, BgTypeOK
<1>3. ASSUME NEW p \in Pages, DisconnectOpen(p)
      PROVE  Calls'
  BY <1>3, CloseCalls DEF DisconnectOpen, PageGone, TypeOK, BgTypeOK
<1>4. ASSUME NEW p \in Pages, DisconnectIdle(p)
      PROVE  Calls'
  <2>1. /\ UNCHANGED <<usb_txns, next_id, transactions>>
        /\ pages' = pages \ {p}
        /\ outstanding' = [outstanding EXCEPT ![p] = {}]
    BY <1>4 DEF DisconnectIdle, PageGone
  <2>2. EveryCallHasOneRef'
    BY <2>1 DEF Calls, EveryCallHasOneRef, Ids, TypeOK, BgTypeOK
  <2> QED
    BY <2>1, <2>2 DEF Calls, ClaimTargets, IdsFresh, IdsUnique, RefsAreLive
<1> QED
  BY <1>1, <1>2, <1>3, <1>4, StepShape, QueueCalls, AnsweredCalls DEF Disconnect

--------------------------------------------------------------------------------
(* Opens.                                                                   *)

open_vars == <<opened, opened_count, view_opened, pages>>

\* One more page has the device open and is counted (again, if it had it).
LEMMA OneMoreOpen ==
  ASSUME TypeOK, OpenCountCovers, NEW p \in Pages,
         opened' = [opened EXCEPT ![p] = TRUE], opened_count' = opened_count + 1
  PROVE  OpenCountCovers'
<1>1. OpenPages' = OpenPages \cup {p}
  BY DEF OpenPages, TypeOK, BgTypeOK
<1>2. IsFiniteSet(OpenPages) /\ Cardinality(OpenPages) \in Nat
  BY PagesAssumption, FS_Subset, FS_CardinalityType DEF OpenPages
<1>3. \/ Cardinality(OpenPages') = Cardinality(OpenPages) + 1
      \/ Cardinality(OpenPages') = Cardinality(OpenPages)
  BY <1>1, <1>2, FS_AddElement
<1> QED BY <1>2, <1>3 DEF OpenCountCovers, TypeOK, BgTypeOK

\* One page less has it open.
LEMMA OneLessOpen ==
  ASSUME TypeOK, OpenCountCovers, NEW p \in Pages, opened[p],
         opened' = [opened EXCEPT ![p] = FALSE], opened_count' = opened_count - 1
  PROVE  OpenCountCovers'
<1>1. OpenPages' = OpenPages \ {p} /\ p \in OpenPages
  BY DEF OpenPages, TypeOK, BgTypeOK
<1>2. IsFiniteSet(OpenPages) /\ Cardinality(OpenPages) \in Nat
  BY PagesAssumption, FS_Subset, FS_CardinalityType DEF OpenPages
<1>3. Cardinality(OpenPages') = Cardinality(OpenPages) - 1
  BY <1>1, <1>2, FS_RemoveElement
<1> QED BY <1>2, <1>3 DEF OpenCountCovers, TypeOK, BgTypeOK

LEMMA OpensStep ==
  ASSUME TypeOK, Opens, [Next]_vars
  PROVE  Opens'
<1>1. CASE UNCHANGED open_vars
  BY <1>1 DEF open_vars, Opens, OpenCountCovers, OpenPages, ViewOpen
<1>2. CASE UNCHANGED vars \/ StubStep \/ UnplugDevice \/ (to_bg # <<>> /\ OnDeadReply)
  <2>1. UNCHANGED open_vars
    BY <1>2 DEF vars, bg_vars, router_vars, device_vars, page_dev_vars, view_vars, StubStep,
                UnplugDevice, OnDeadReply, Receive, NoStateChange, open_vars
  <2> QED BY <1>1, <2>1
<1>3. ASSUME NEW p \in Pages, RequestDevice(p) \/ (\E i \in Ifaces : ClaimAgain(p, i) \/ ReleaseAgain(p, i))
      PROVE  Opens'
  <2>1. UNCHANGED open_vars
    BY <1>3 DEF RequestDevice, ClaimAgain, ReleaseAgain, router_vars, device_vars,
                page_dev_vars, view_vars, open_vars
  <2> QED BY <1>1, <2>1
<1>4. ASSUME NEW p \in Pages, QueuesCall(p)
      PROVE  Opens'
  <2>1. UNCHANGED open_vars
    BY <1>4 DEF QueuesCall, QueueUnchanged, device_vars, open_vars
  <2> QED BY <1>1, <2>1
<1>5. ASSUME NEW p \in Pages, OpenAgain(p) \/ CloseAgain(p)
      PROVE  Opens'
  <2>1. UNCHANGED <<opened, opened_count, pages>>
    BY <1>5 DEF OpenAgain, CloseAgain, router_vars, device_vars, page_dev_vars
  <2>2. \A q \in pages : view_opened'[q] = view_opened[q] \/ view_opened'[q] = opened[q]
    BY <1>5 DEF OpenAgain, CloseAgain, TypeOK, BgTypeOK
  <2>3. ViewOpen'
    BY <2>1, <2>2 DEF Opens, ViewOpen
  <2> QED BY <2>1, <2>3 DEF Opens, OpenCountCovers, OpenPages
<1>6. ASSUME NEW p \in Pages, OpenShared(p)
      PROVE  Opens'
  BY <1>6, OneMoreOpen DEF OpenShared, router_vars, Opens, ViewOpen, TypeOK, BgTypeOK
<1>7. ASSUME NEW p \in Pages, ClosePage(p)
      PROVE  Opens'
  <2>1. /\ opened[p]
        /\ opened' = [opened EXCEPT ![p] = FALSE] /\ opened_count' = opened_count - 1
        /\ view_opened' = [view_opened EXCEPT ![p] = FALSE] /\ pages' = pages
    BY <1>7 DEF ClosePage, CloseDeviceOfPage
  <2>2. ViewOpen'
    BY <2>1 DEF Opens, ViewOpen, TypeOK, BgTypeOK
  <2> QED BY <2>1, <2>2, OneLessOpen DEF Opens
<1>8. ASSUME NEW p \in Pages, DisconnectOpen(p)
      PROVE  Opens'
  <2>1. /\ opened[p]
        /\ opened' = [opened EXCEPT ![p] = FALSE] /\ opened_count' = opened_count - 1
        /\ view_opened' = view_opened /\ pages' = pages \ {p}
    BY <1>8 DEF DisconnectOpen, PageGone, CloseDeviceOfPage
  <2>2. ViewOpen'
    BY <2>1 DEF Opens, ViewOpen, TypeOK, BgTypeOK
  <2> QED BY <2>1, <2>2, OneLessOpen DEF Opens
<1>9. ASSUME NEW p \in Pages, DisconnectIdle(p)
      PROVE  Opens'
  BY <1>9 DEF DisconnectIdle, PageGone, Opens, OpenCountCovers, OpenPages, ViewOpen
<1>10. ASSUME NEW t \in usb_txns, OnOpened(t)
       PROVE  Opens'
  <2>1. /\ t.page \in Pages
        /\ opened' = [opened EXCEPT ![t.page] = TRUE] /\ opened_count' = opened_count + 1
        /\ view_opened' = [view_opened EXCEPT ![t.page] = TRUE] /\ pages' = pages
    BY <1>10 DEF OnOpened, Callback, Receive, TypeOK, BgTypeOK, PageTransaction
  <2>2. ViewOpen'
    BY <2>1 DEF Opens, ViewOpen, TypeOK, BgTypeOK
  <2> QED BY <2>1, <2>2, OneMoreOpen DEF Opens
<1>11. ASSUME NEW t \in usb_txns,
              OnConfigSet(t) \/ OnClaimed(t) \/ OnReleased(t) \/ OnDone(t) \/ OnError(t)
       PROVE  Opens'
  <2>1. UNCHANGED open_vars
    BY <1>11 DEF OnConfigSet, OnClaimed, OnReleased, OnDone, OnError, NoStateChange,
                 Callback, Receive, open_vars
  <2> QED BY <1>1, <2>1
<1>12. ASSUME NEW p \in Pages, PageRequest(p)
       PROVE  Opens'
  BY <1>3, <1>4, <1>5, <1>6, <1>7, <1>12, PageRequestShape DEF SettledAtOnce
<1> QED
  BY <1>2, <1>8, <1>9, <1>10, <1>11, <1>12
  DEF Next, BgStep, BgNext, Disconnect, BgReceive, StubReply

--------------------------------------------------------------------------------
(* Claims.                                                                  *)

\* In the background script.
LEMMA OwnerStep ==
  ASSUME TypeOK, ClaimTargets, OwnerHoldsClaim, [Next]_vars
  PROVE  OwnerHoldsClaim'
<1>1. CASE UNCHANGED <<interfaces_claimed, claimed_interfaces>>
  BY <1>1 DEF OwnerHoldsClaim
<1>2. CASE UNCHANGED vars \/ StubStep \/ UnplugDevice \/ (to_bg # <<>> /\ OnDeadReply)
  <2>1. UNCHANGED <<interfaces_claimed, claimed_interfaces>>
    BY <1>2 DEF vars, bg_vars, device_vars, page_dev_vars, StubStep,
                UnplugDevice, OnDeadReply, NoStateChange
  <2> QED BY <1>1, <2>1
<1>3. ASSUME NEW p \in Pages, PageRequest(p) \/ Disconnect(p)
      PROVE  OwnerHoldsClaim'
  <2>1. CASE SettledAtOnce(p)
    <3>1. UNCHANGED <<interfaces_claimed, claimed_interfaces>>
      BY <2>1 DEF SettledAtOnce, RequestDevice, OpenAgain, OpenShared, CloseAgain,
                  ClaimAgain, ReleaseAgain, device_vars, page_dev_vars
    <3> QED BY <1>1, <3>1
  <2>2. CASE QueuesCall(p) \/ ClosePage(p) \/ Disconnect(p)
    <3>1. UNCHANGED <<interfaces_claimed, claimed_interfaces>>
      BY <2>2 DEF QueuesCall, QueueUnchanged, ClosePage, Disconnect, DisconnectOpen,
                  DisconnectIdle, PageGone, device_vars
    <3> QED BY <1>1, <3>1
  <2> QED BY <1>3, <2>1, <2>2, PageRequestShape
<1>4. ASSUME NEW t \in usb_txns, OnOpened(t) \/ OnDone(t) \/ OnError(t)
      PROVE  OwnerHoldsClaim'
  BY <1>1, <1>4 DEF OnOpened, OnDone, OnError, NoStateChange
<1>5. ASSUME NEW t \in usb_txns, OnConfigSet(t)
      PROVE  OwnerHoldsClaim'
  BY <1>5, NullAssumption DEF OnConfigSet, Unclaimed, OwnerHoldsClaim
<1>6. ASSUME NEW t \in usb_txns, OnClaimed(t)
      PROVE  OwnerHoldsClaim'
  <2>1. t.page \in Pages /\ t.iface \in Ifaces
    BY <1>6 DEF OnClaimed, Callback, ClaimTargets, TypeOK, BgTypeOK, PageTransaction
  <2> QED BY <1>6, <2>1 DEF OnClaimed, OwnerHoldsClaim, TypeOK, BgTypeOK
<1>7. ASSUME NEW t \in usb_txns, OnReleased(t)
      PROVE  OwnerHoldsClaim'
  BY <1>7, NullAssumption DEF OnReleased, OwnerHoldsClaim, TypeOK, BgTypeOK
<1> QED
  BY <1>2, <1>3, <1>4, <1>5, <1>6, <1>7
  DEF Next, BgStep, BgNext, BgReceive, StubReply

\* In the stub.
LEMMA ClaimsNeedOpenStep ==
  ASSUME TypeOK, ClaimsNeedOpen, [Next]_vars
  PROVE  ClaimsNeedOpen'
<1> USE DEF ClaimsNeedOpen, StubClaimed
<1>1. CASE UNCHANGED <<stub_opened, if_state>>
  BY <1>1
<1>2. CASE UNCHANGED vars \/ BgStep
  BY <1>2 DEF vars, stub_vars, BgStep
<1>3. CASE DeviceNotFound \/ ResetDevice \/ SetAltOrClearHalt \/ Transfer \/ ReapUrb
           \/ Unplugged \/ Destroyed
  BY <1>1, <1>3 DEF DeviceNotFound, ResetDevice, SetAltOrClearHalt, Transfer, ReapUrb,
                    Unplugged, Destroyed, stub_vars
<1>4. CASE OpenDevice
  BY <1>4 DEF OpenDevice
<1>5. CASE CloseDevice
  BY <1>5 DEF CloseDevice
<1>6. CASE SetConfiguration
  BY <1>6 DEF SetConfiguration, Probed
<1>7. CASE ClaimInterface
  BY <1>7 DEF ClaimInterface
<1>8. CASE ReleaseInterface
  BY <1>8 DEF ReleaseInterface, TypeOK, StubTypeOK
<1> QED
  BY <1>2, <1>3, <1>4, <1>5, <1>6, <1>7, <1>8 DEF Next, StubStep, StubNext, HandleStdin

--------------------------------------------------------------------------------
(* The theorems.                                                            *)

LEMMA InitIInv == Init => IInv
<1> SUFFICES ASSUME Init PROVE IInv
  OBVIOUS
<1>1. PICK c \in Configs \cup {Unconfigured} : BgInit(c) /\ StubInit(c)
  BY DEF Init
<1>2. TypeOK
  <2>1. BgTypeOK
    BY <1>1 DEF BgInit, BgTypeOK, Unclaimed
  <2>2. StubTypeOK
    BY <1>1 DEF StubInit, StubTypeOK, Probed, IfStates
  <2>3. to_stub \in Seq(RequestMessage) /\ to_bg \in Seq(ResponseMessage)
    BY DEF Init
  <2> QED BY <2>1, <2>2, <2>3 DEF TypeOK
<1>3. Opens
  <2>1. OpenPages = {}
    BY <1>1 DEF BgInit, OpenPages
  <2> QED BY <1>1, <2>1, FS_EmptySet DEF Opens, BgInit, OpenCountCovers, ViewOpen
<1>4. Calls
  BY <1>1 DEF BgInit, Calls, ClaimTargets, IdsFresh, IdsUnique, RefsAreLive,
              EveryCallHasOneRef, Ids
<1>5. Claims
  BY <1>1, NullAssumption
  DEF BgInit, StubInit, Unclaimed, Probed, Claims, OwnerHoldsClaim, ClaimsNeedOpen, StubClaimed
<1> QED BY <1>2, <1>3, <1>4, <1>5 DEF IInv

LEMMA TypeStep ==
  ASSUME TypeOK, OpenCountCovers, ClaimTargets, [Next]_vars
  PROVE  TypeOK'
<1>1. CASE UNCHANGED vars
  BY <1>1 DEF vars, bg_vars, router_vars, device_vars, page_dev_vars, view_vars, stub_vars,
              TypeOK, BgTypeOK, StubTypeOK
<1> QED
  BY <1>1, PageRequestType, DisconnectType, BgReceiveType, StubType
  DEF Next, BgStep, BgNext, StubStep

LEMMA NextIInv == IInv /\ [Next]_vars => IInv'
  BY TypeStep, OpensStep, CallsStep, OwnerStep, ClaimsNeedOpenStep
  DEF IInv, Opens, Calls, Claims

LEMMA SpecIInv == Spec => []IInv
  BY InitIInv, NextIInv, PTL DEF Spec

\* Every variable of both programs keeps its type; the open count is never
\* decremented below zero (awawausb.js:258).
THEOREM TypeCorrect == Spec => []TypeOK
  BY SpecIInv, PTL DEF IInv

\* Whatever pages call and whatever fails, abort_transactions (awawausb.js:205-224)
\* never dereferences a transaction that is no longer in usb_txns nor marks another
\* page's, no call of a connected page loses its answer and none is answered twice
\* (awawausb.js:190-224, content.js:34-52).
THEOREM CallsCorrect == Spec => []CallsMatch
  BY SpecIInv, PTL DEF IInv, Calls, CallsMatch

\* While several pages share the device, only the last close can close it
\* (awawausb.js:257-259), and each page knows whether it has it open.
THEOREM OpensCorrect == Spec => []OpensAgree
  BY SpecIInv, PTL DEF IInv, Opens, OpensAgree

\* No interface is booked for a page that cannot release it (awawausb.js:884,
\* 232-249), and the stub closes no device over a claim (main.rs:663-683).
THEOREM ClaimsCorrect == Spec => []ClaimsAreHeld
  BY SpecIInv, PTL DEF IInv, Claims, ClaimsAreHeld
================================================================================
