-------------------------- MODULE BrokerService_proofs --------------------------
(***************************************************************************)
(* Broker: what the two pipes between background script and stub carry.    *)
(*                                                                         *)
(* IdsApart says where the id of an unfinished request is: waiting on the  *)
(* stub's stdin, with the kernel, or on its way back, in one of the three  *)
(* and there once, and known to usb_txns all the while.  From it follows   *)
(* that the pipes implement RequestReply.                                  *)
(*                                                                         *)
(* NoOrphanOpen speaks of a moment when nothing is under way.  Its         *)
(* invariant, OpensWanted, looks ahead: what the requests on the stub's    *)
(* stdin will leave open, somebody has open or waits for.  A page that     *)
(* waits for an open does get it (OpensSucceed), since its id is nobody    *)
(* else's (IdsApart) and only a page that has the device open aborts calls.*)
(*                                                                         *)
(* So does CopiesAgree.  In between, the stub's state is the background    *)
(* script's and the effects of the requests whose success is on its way    *)
(* back (Follows).  That a close finds every interface released, and an    *)
(* open every release of the close before it taken in, needs the order of  *)
(* the pipes: of two requests other than transfers the stub carries out    *)
(* and answers the one posted first (Ordered).                             *)
(***************************************************************************)
EXTENDS BrokerSafety_proofs, PipeLemmas

--------------------------------------------------------------------------------
(* The ids of the replies in a pipe that also carries events.               *)

Replies(s) == {k \in DOMAIN s : IsReply(s[k])}
ReplyIds(s) == {s[k].id : k \in Replies(s)}
RepliesDistinct(s) == \A j, k \in Replies(s) : s[j].id = s[k].id => j = k

\* Taking the head of the pipe: a reply, or something else.
LEMMA TailReplies ==
  ASSUME NEW S, NEW s \in Seq(S), s # <<>>, RepliesDistinct(s)
  PROVE  /\ RepliesDistinct(Tail(s))
         /\ IsReply(Head(s)) => /\ Head(s).id \in ReplyIds(s)
                                /\ ReplyIds(Tail(s)) = ReplyIds(s) \ {Head(s).id}
         /\ ~IsReply(Head(s)) => ReplyIds(Tail(s)) = ReplyIds(s)
<1>1. /\ Len(s) \in Nat /\ Len(s) >= 1 /\ DOMAIN s = 1 .. Len(s)
      /\ Head(s) = s[1]
      /\ DOMAIN Tail(s) = 1 .. Len(s) - 1
      /\ \A k \in 1 .. Len(s) - 1 : Tail(s)[k] = s[k + 1]
  BY HeadTailProperties, EmptySeq
<1>2. \A k \in 1 .. Len(s) : k = 1 \/ (k - 1 \in 1 .. Len(s) - 1 /\ k - 1 + 1 = k)
  BY <1>1
<1>3. \A k \in 1 .. Len(s) - 1 : k + 1 \in 1 .. Len(s) /\ k + 1 # 1
  BY <1>1
<1>4. 1 \in 1 .. Len(s)
  BY <1>1
<1>5. \A k \in Replies(Tail(s)) : k + 1 \in Replies(s) /\ Tail(s)[k] = s[k + 1] /\ k \in Int
  BY <1>1, <1>3 DEF Replies
<1>6. \A k \in Replies(s) : k # 1 => k - 1 \in Replies(Tail(s)) /\ Tail(s)[k - 1] = s[k]
  BY <1>1, <1>2 DEF Replies
<1>7. IsReply(Head(s)) <=> 1 \in Replies(s)
  BY <1>1, <1>4 DEF Replies
<1>8. RepliesDistinct(Tail(s))
  <2> SUFFICES ASSUME NEW j \in Replies(Tail(s)), NEW k \in Replies(Tail(s)),
                      Tail(s)[j].id = Tail(s)[k].id
               PROVE  j = k
    BY DEF RepliesDistinct
  <2>1. j + 1 = k + 1
    BY <1>5 DEF RepliesDistinct
  <2> QED BY <1>5, <2>1
<1>9. \A k \in Replies(Tail(s)) : k + 1 # 1
  BY <1>1, <1>3 DEF Replies
<1>10. ASSUME NEW id \in ReplyIds(Tail(s))
       PROVE  id \in ReplyIds(s) /\ (1 \in Replies(s) => id # s[1].id)
  <2>1. PICK k \in Replies(Tail(s)) : id = Tail(s)[k].id
    BY DEF ReplyIds
  <2>2. k + 1 \in Replies(s) /\ id = s[k + 1].id /\ k + 1 # 1
    BY <1>5, <1>9, <2>1
  <2> QED BY <2>2 DEF ReplyIds, RepliesDistinct
<1>11. ASSUME NEW id \in ReplyIds(s), 1 \in Replies(s) => id # s[1].id
       PROVE  id \in ReplyIds(Tail(s))
  <2>1. PICK k \in Replies(s) : id = s[k].id
    BY DEF ReplyIds
  <2>2. k # 1
    BY <1>11, <2>1
  <2> QED BY <1>6, <2>1, <2>2 DEF ReplyIds
<1>12. IsReply(Head(s)) => Head(s).id \in ReplyIds(s)
  BY <1>1, <1>7 DEF ReplyIds
<1> QED BY <1>1, <1>7, <1>8, <1>10, <1>11, <1>12

\* Putting a message into it: a reply under an id of its own, or an event.
LEMMA AppendReplies ==
  ASSUME NEW S, NEW s \in Seq(S), NEW m \in S, RepliesDistinct(s),
         IsReply(m) => m.id \notin ReplyIds(s)
  PROVE  /\ RepliesDistinct(Append(s, m))
         /\ IsReply(m) => ReplyIds(Append(s, m)) = ReplyIds(s) \cup {m.id}
         /\ ~IsReply(m) => ReplyIds(Append(s, m)) = ReplyIds(s)
<1>1. /\ Len(s) \in Nat /\ DOMAIN s = 1 .. Len(s)
      /\ DOMAIN Append(s, m) = 1 .. Len(s) + 1
      /\ \A k \in 1 .. Len(s) : Append(s, m)[k] = s[k]
      /\ Append(s, m)[Len(s) + 1] = m
  BY AppendProperties
<1>2. /\ \A k \in 1 .. Len(s) + 1 : k \in 1 .. Len(s) \/ k = Len(s) + 1
      /\ \A k \in 1 .. Len(s) : k \in 1 .. Len(s) + 1
      /\ Len(s) + 1 \in 1 .. Len(s) + 1
  BY <1>1
<1>3. \A k \in Replies(Append(s, m)) :
        \/ k \in Replies(s) /\ Append(s, m)[k] = s[k] /\ s[k].id \in ReplyIds(s)
        \/ k = Len(s) + 1 /\ Append(s, m)[k] = m /\ IsReply(m)
  BY <1>1, <1>2 DEF Replies, ReplyIds
<1>4. \A k \in Replies(s) : k \in Replies(Append(s, m)) /\ Append(s, m)[k] = s[k]
  BY <1>1, <1>2 DEF Replies
<1>5. IsReply(m) => Len(s) + 1 \in Replies(Append(s, m)) /\ Append(s, m)[Len(s) + 1] = m
  BY <1>1, <1>2 DEF Replies
<1>6. RepliesDistinct(Append(s, m))
  BY <1>3 DEF RepliesDistinct
<1>7. \A k \in Replies(Append(s, m)) :
        Append(s, m)[k].id \in ReplyIds(s) \/ (IsReply(m) /\ Append(s, m)[k].id = m.id)
  BY <1>3
<1>8. ReplyIds(s) \subseteq ReplyIds(Append(s, m))
  BY <1>4 DEF ReplyIds
<1>9. IsReply(m) => m.id \in ReplyIds(Append(s, m))
  BY <1>5 DEF ReplyIds
<1>10. /\ IsReply(m) => ReplyIds(Append(s, m)) \subseteq ReplyIds(s) \cup {m.id}
       /\ ~IsReply(m) => ReplyIds(Append(s, m)) \subseteq ReplyIds(s)
  BY <1>7 DEF ReplyIds
<1> QED BY <1>6, <1>8, <1>9, <1>10

--------------------------------------------------------------------------------
(* What a step does to the two pipes.                                       *)

\* The stub answers the request it takes off its stdin (an open with success,
\* if it knows the device), or hands its URB to the kernel; the kernel hands one
\* back; or the stub reports an event.
LEMMA StubShape ==
  ASSUME StubNext
  PROVE  \/ /\ to_stub # <<>> /\ urbs' = urbs /\ stub_dev' = stub_dev
            /\ \E ok \in BOOLEAN :
                 /\ AnswerNow(ok)
                 /\ Head(to_stub).type = "OpenDevice" /\ stub_dev # "gone" => ok
         \/ /\ to_stub # <<>> /\ Head(to_stub).type = "Transfer" /\ stub_dev' = stub_dev
            /\ to_stub' = Tail(to_stub)
            /\ urbs' = urbs \cup {Head(to_stub).id} /\ to_bg' = to_bg
         \/ ReapUrb
         \/ /\ to_bg' = Append(to_bg, UnplugEvent) /\ stub_dev' # "present"
            /\ stub_dev # "gone" /\ UNCHANGED <<to_stub, urbs>>
<1>1. IoctlResults \subseteq BOOLEAN
  BY IoctlMayFailAssumption DEF IoctlResults
<1> USE DEF Receiving
<1>2. CASE DeviceNotFound
  BY <1>2 DEF DeviceNotFound, stub_vars
<1>3. CASE OpenDevice
  BY <1>3 DEF OpenDevice
<1>4. CASE CloseDevice
  <2>1. PICK released, ok : AnswerNow(ok) /\ ok = (stub_opened /\ released = StubClaimed)
    BY <1>4 DEF CloseDevice
  <2> QED BY <1>4, <2>1 DEF CloseDevice
<1>5. CASE ResetDevice
  BY <1>1, <1>5 DEF ResetDevice, stub_vars
<1>6. CASE SetConfiguration
  BY <1>6 DEF SetConfiguration
<1>7. CASE ClaimInterface
  BY <1>1, <1>7 DEF ClaimInterface
<1>8. CASE ReleaseInterface
  BY <1>1, <1>8 DEF ReleaseInterface
<1>9. CASE SetAltOrClearHalt
  BY <1>1, <1>9 DEF SetAltOrClearHalt, stub_vars
<1>10. CASE Transfer
  BY <1>10 DEF Transfer
<1>11. CASE Unplugged \/ Destroyed
  BY <1>11 DEF Unplugged, Destroyed
<1> QED
  BY <1>2, <1>3, <1>4, <1>5, <1>6, <1>7, <1>8, <1>9, <1>10, <1>11 DEF StubNext, HandleStdin

\* The background script posts the request of a call or those of a close, or
\* takes in a reply or an event.
LEMMA BackgroundShape ==
  ASSUME BgNext
  PROVE  \/ UNCHANGED <<usb_txns, next_id, to_stub, to_bg>>
         \/ \E p \in Pages : QueuesCall(p) \/ CloseDeviceOfPage(p)
         \/ \E m : Receive(m) /\ IsReply(m)
         \/ UnplugDevice
<1>1. ASSUME NEW p \in Pages, SettledAtOnce(p)
      PROVE  UNCHANGED <<usb_txns, next_id, to_stub, to_bg>>
  BY <1>1 DEF SettledAtOnce, RequestDevice, OpenAgain, OpenShared, CloseAgain,
              ClaimAgain, ReleaseAgain, router_vars
<1>2. ASSUME NEW p \in Pages, PageRequest(p)
      PROVE  \/ UNCHANGED <<usb_txns, next_id, to_stub, to_bg>>
             \/ QueuesCall(p) \/ CloseDeviceOfPage(p)
  BY <1>1, <1>2, PageRequestShape DEF ClosePage
<1>3. ASSUME NEW p \in Pages, Disconnect(p)
      PROVE  \/ UNCHANGED <<usb_txns, next_id, to_stub, to_bg>>
             \/ CloseDeviceOfPage(p)
  BY <1>3 DEF Disconnect, DisconnectOpen, DisconnectIdle
<1>4. ASSUME StubReply
      PROVE  \E m : Receive(m) /\ IsReply(m)
  <2>1. \A id, ok : IsReply(Reply(id, ok))
    BY DEF IsReply, Reply
  <2>2. ASSUME NEW t, NEW cbs, NEW ok, Callback(t, cbs, ok)
        PROVE  \E m : Receive(m) /\ IsReply(m)
    BY <2>1, <2>2 DEF Callback
  <2> QED
    BY <1>4, <2>2
    DEF StubReply, OnOpened, OnConfigSet, OnClaimed, OnReleased, OnDone, OnError, OnDeadReply
<1> QED BY <1>2, <1>3, <1>4 DEF BgNext, BgReceive

--------------------------------------------------------------------------------
(* The invariant.                                                           *)

Asked == SeqIds(to_stub) \cup urbs
Answering == ReplyIds(to_bg)

\* An unfinished request is in one place, once, and has its transaction; and no
\* transaction is left without one.
IdsApart ==
  /\ next_id > 0
  /\ Distinct(to_stub) /\ RepliesDistinct(to_bg)
  /\ SeqIds(to_stub) \cap urbs = {} /\ Asked \cap Answering = {}
  /\ Asked \cup Answering \subseteq 1 .. next_id - 1
  /\ Asked \cup Answering = TxnIds

\* What RequestReply allows a step, in terms of the three places.
ServiceStep ==
  \/ /\ next_id' \in Nat /\ next_id' > next_id
     /\ Asked' = Asked \cup (next_id .. next_id' - 1)
     /\ Answering' = Answering
  \/ \E id \in Asked : /\ Asked' = Asked \ {id} /\ Answering' = Answering \cup {id}
                       /\ next_id' = next_id
  \/ \E id \in Answering : /\ Answering' = Answering \ {id}
                           /\ UNCHANGED <<next_id, Asked>>
  \/ UNCHANGED <<next_id, Asked, Answering>>

\* The ids a post hands out.
LEMMA NewIds ==
  ASSUME NEW old \in Nat, NEW new \in Nat, old > 0, new > old
  PROVE  /\ 1 .. old - 1 \subseteq 1 .. new - 1
         /\ 1 .. new - 1 # 1 .. old - 1
         /\ (1 .. new - 1) \ (1 .. old - 1) = old .. new - 1
<1>1. old \in 1 .. new - 1 /\ old \notin 1 .. old - 1
  OBVIOUS
<1> QED BY <1>1

LEMMA ServiceStepRefines ==
  ASSUME TypeOK, IdsApart, ServiceStep
  PROVE  [Service!Next]_(Service!vars)
<1> DEFINE asked == {to_stub[k].id : k \in DOMAIN to_stub} \cup urbs
           answered == {to_bg[k].id : k \in {k \in DOMAIN to_bg : IsReply(to_bg[k])}}
<1>1. asked = Asked /\ asked' = Asked' /\ answered = Answering /\ answered' = Answering'
  BY DEF Asked, Answering, SeqIds, ReplyIds, Replies
<1>2. next_id \in Nat /\ next_id > 0
  BY DEF TypeOK, BgTypeOK, IdsApart
<1> HIDE DEF asked, answered
<1>3. CASE /\ next_id' \in Nat /\ next_id' > next_id
           /\ Asked' = Asked \cup (next_id .. next_id' - 1)
           /\ Answering' = Answering
  <2>1. 1 .. next_id - 1 \subseteq 1 .. next_id' - 1
    BY <1>2, <1>3, NewIds
  <2>2. 1 .. next_id' - 1 # 1 .. next_id - 1
    BY <1>2, <1>3, NewIds
  <2>3. (1 .. next_id' - 1) \ (1 .. next_id - 1) = next_id .. next_id' - 1
    BY <1>2, <1>3, NewIds
  <2>4. Service!Ask
    BY <1>1, <1>3, <2>1, <2>2, <2>3 DEF Service!Ask, asked, answered
  <2> QED BY <2>4 DEF Service!Next
<1>4. ASSUME NEW id \in Asked, Asked' = Asked \ {id}, Answering' = Answering \cup {id},
             next_id' = next_id
      PROVE  Service!Next
  BY <1>1, <1>4 DEF Service!Next, Service!Finish, asked, answered
<1>5. ASSUME NEW id \in Answering, Answering' = Answering \ {id}, UNCHANGED <<next_id, Asked>>
      PROVE  Service!Next
  BY <1>1, <1>5 DEF Service!Next, Service!Deliver, asked, answered
<1>6. CASE UNCHANGED <<next_id, Asked, Answering>>
  BY <1>1, <1>6 DEF Service!vars, asked, answered
<1> QED BY <1>3, <1>4, <1>5, <1>6 DEF ServiceStep

\* Requests are posted under consecutive new ids, and put into usb_txns.
LEMMA PostIds ==
  ASSUME TypeOK, IdsApart, NEW sent \in Seq(RequestMessage),
         \A k \in 1 .. Len(sent) : sent[k].id = next_id + k - 1,
         to_stub' = to_stub \o sent, next_id' = next_id + Len(sent),
         TxnIds' = TxnIds \cup SeqIds(sent), UNCHANGED <<to_bg, urbs>>
  PROVE  IdsApart' /\ ServiceStep
<1> PICK n \in Nat : n = Len(sent)
  BY LenProperties
<1> PICK first \in Nat : first = next_id /\ first > 0
  BY DEF TypeOK, BgTypeOK, IdsApart
<1>1. DOMAIN sent = 1 .. n
  BY LenProperties
<1>2. SeqIds(sent) = first .. first + n - 1
  <2>1. \A k \in 1 .. n : first + k - 1 \in first .. first + n - 1
    OBVIOUS
  <2>2. SeqIds(sent) \subseteq first .. first + n - 1
    BY <1>1, <2>1 DEF SeqIds
  <2>3. \A id \in first .. first + n - 1 : id - first + 1 \in 1 .. n
                                           /\ first + (id - first + 1) - 1 = id
    OBVIOUS
  <2>4. ASSUME NEW id \in first .. first + n - 1
        PROVE  id \in SeqIds(sent)
    <3>1. id - first + 1 \in DOMAIN sent /\ sent[id - first + 1].id = id
      BY <1>1, <2>3
    <3> QED BY <3>1 DEF SeqIds
  <2> QED BY <2>2, <2>4
<1>3. Distinct(sent)
  BY <1>1 DEF Distinct
<1>4. Asked \cup Answering \subseteq 1 .. first - 1
  BY DEF IdsApart
<1>5. \A id \in SeqIds(sent) : id \notin 1 .. first - 1 /\ id \in 1 .. first + n - 1
  BY <1>2
<1>6. SeqIds(sent) \cap (Asked \cup Answering) = {}
  BY <1>4, <1>5
<1>7. Distinct(to_stub') /\ SeqIds(to_stub') = SeqIds(to_stub) \cup SeqIds(sent)
  BY <1>3, <1>6, ConcatIds DEF TypeOK, IdsApart, Asked
<1>8. Asked' = Asked \cup SeqIds(sent) /\ Answering' = Answering
  BY <1>7 DEF Asked, Answering
<1>9. 1 .. first - 1 \subseteq 1 .. first + n - 1
  OBVIOUS
<1>10. (Asked \cup Answering \subseteq 1 .. next_id - 1)'
  BY <1>4, <1>5, <1>8, <1>9
<1>11. (SeqIds(to_stub) \cap urbs = {} /\ Asked \cap Answering = {})'
  BY <1>6, <1>7, <1>8 DEF IdsApart, Asked
<1>12. (Asked \cup Answering = TxnIds)'
  BY <1>8 DEF IdsApart
<1>13. IdsApart'
  BY <1>7, <1>10, <1>11, <1>12 DEF IdsApart
<1>14. ServiceStep
  <2>1. CASE n = 0
    BY <1>2, <1>8, <2>1 DEF ServiceStep
  <2>2. CASE n # 0
    <3>1. next_id' \in Nat /\ next_id' > next_id
      BY <2>2
    <3> QED BY <1>2, <1>8, <3>1 DEF ServiceStep
  <2> QED BY <2>1, <2>2
<1> QED BY <1>13, <1>14

\* Marking transactions dead keeps their ids.
LEMMA MarkDeadIds ==
  ASSUME TypeOK, NEW STATE refs
  PROVE  {t.id : t \in MarkDead(refs)} = TxnIds
<1> DEFINE Marked(u) == IF u.id \in Ids(refs) THEN [u EXCEPT !.alive = FALSE] ELSE u
<1>1. \A u \in usb_txns : Marked(u).id = u.id
  BY DEF TypeOK, BgTypeOK, PageTransaction
<1>2. MarkDead(refs) = {Marked(u) : u \in usb_txns}
  BY DEF MarkDead
<1> HIDE DEF Marked
<1> QED BY <1>1, <1>2 DEF TxnIds

LEMMA QueueIds ==
  ASSUME TypeOK, IdsApart, NEW p \in Pages, QueuesCall(p), urbs' = urbs
  PROVE  IdsApart' /\ ServiceStep
<1>1. PICK refs \in SUBSET transactions[p], type \in RequestTypes, cb \in Callbacks,
           iface \in Targets, value \in ConfigValues : Queue(p, refs, type, cb, iface, value)
  BY DEF QueuesCall
<1> DEFINE m == Request(type, next_id, iface, value)
           txn == [id |-> next_id, page |-> p, cb |-> cb, iface |-> iface,
                   value |-> value, alive |-> TRUE]
           sent == <<m>>
<1>2. next_id \in Nat
  BY DEF TypeOK, BgTypeOK
<1>3. m \in RequestMessage /\ m.id = next_id /\ txn.id = next_id
  BY <1>2 DEF Request, RequestMessage, ConfigValues
<1>4. /\ to_stub' = Append(to_stub, m) /\ usb_txns' = MarkDead(refs) \cup {txn}
      /\ next_id' = next_id + 1 /\ to_bg' = to_bg
  BY <1>1 DEF Queue
<1> HIDE DEF m, txn
<1>5. /\ sent \in Seq(RequestMessage) /\ Len(sent) = 1 /\ sent[1] = m
      /\ \A k \in 1 .. Len(sent) : sent[k].id = next_id + k - 1
      /\ SeqIds(sent) = {next_id}
  BY <1>2, <1>3 DEF SeqIds
<1>6. to_stub' = to_stub \o sent
  BY <1>3, <1>4 DEF TypeOK
<1>7. TxnIds' = {t.id : t \in MarkDead(refs)} \cup {next_id}
  BY <1>3, <1>4 DEF TxnIds
<1>8. TxnIds' = TxnIds \cup SeqIds(sent)
  BY <1>5, <1>7, MarkDeadIds
<1> HIDE DEF sent
<1> QED BY <1>4, <1>5, <1>6, <1>8, PostIds

LEMMA CloseIds ==
  ASSUME TypeOK, IdsApart, NEW p \in Pages, CloseDeviceOfPage(p), urbs' = urbs
  PROVE  IdsApart' /\ ServiceStep
<1>1. PICK ord \in Ascending(claimed_interfaces[p]) : CloseDeviceOfPage(p)!(ord)
  BY DEF CloseDeviceOfPage
<1> DEFINE sent == CloseRequests(ord)
<1>2. /\ to_stub' = to_stub \o sent /\ next_id' = next_id + Len(sent) /\ to_bg' = to_bg
      /\ usb_txns' = MarkDead(Everything(p))
                       \cup {CloseTransaction(p, sent[k]) : k \in 1 .. Len(sent)}
  BY <1>1
<1>3. sent \in Seq(RequestMessage) /\ \A k \in 1 .. Len(sent) : sent[k].id = next_id + k - 1
  BY CloseRequestsIds
<1>4. DOMAIN sent = 1 .. Len(sent)
  BY <1>3, LenProperties
<1> HIDE DEF sent
<1> DEFINE Txn(k) == CloseTransaction(p, sent[k])
           old == MarkDead(Everything(p))
           new == {Txn(k) : k \in 1 .. Len(sent)}
<1>5. \A k : Txn(k).id = sent[k].id
  BY DEF CloseTransaction
<1>6. {t.id : t \in old} = TxnIds /\ usb_txns' = old \cup new
  BY <1>2, MarkDeadIds
<1> HIDE DEF Txn, old
<1>7. {t.id : t \in new} = SeqIds(sent)
  BY <1>4, <1>5 DEF SeqIds
<1> HIDE DEF new
<1>8. TxnIds' = {t.id : t \in old} \cup {t.id : t \in new}
  BY <1>6 DEF TxnIds
<1>9. TxnIds' = TxnIds \cup SeqIds(sent)
  BY <1>6, <1>7, <1>8
<1> QED BY <1>2, <1>3, <1>9, PostIds

\* A reply is taken in, and with it the transaction of its id.
LEMMA ReceiveIds ==
  ASSUME TypeOK, IdsApart, NEW m, Receive(m), IsReply(m), urbs' = urbs
  PROVE  IdsApart' /\ ServiceStep
<1>1. /\ m = Head(to_bg) /\ to_bg # <<>> /\ to_bg \in Seq(ResponseMessage)
      /\ to_bg' = Tail(to_bg) /\ UNCHANGED <<to_stub, next_id>>
      /\ usb_txns' = {t \in usb_txns : t.id # m.id}
  BY DEF Receive, TypeOK
<1>2. /\ RepliesDistinct(to_bg') /\ m.id \in Answering /\ Answering' = Answering \ {m.id}
  BY <1>1, TailReplies DEF IdsApart, Answering
<1>3. TxnIds' = TxnIds \ {m.id}
  BY <1>1 DEF TxnIds
<1>4. Asked' = Asked
  BY <1>1 DEF Asked
<1> QED BY <1>1, <1>2, <1>3, <1>4 DEF IdsApart, ServiceStep

LEMMA EventIds ==
  ASSUME TypeOK, IdsApart, UnplugDevice, urbs' = urbs
  PROVE  IdsApart' /\ ServiceStep
<1>1. /\ to_bg # <<>> /\ to_bg \in Seq(ResponseMessage) /\ ~IsReply(Head(to_bg))
      /\ to_bg' = Tail(to_bg) /\ UNCHANGED <<to_stub, next_id, usb_txns>>
  BY DEF UnplugDevice, UnplugEvent, IsReply, TypeOK
<1>2. /\ RepliesDistinct(to_bg') /\ Answering' = Answering
  BY <1>1, TailReplies DEF IdsApart, Answering
<1>3. Asked' = Asked /\ TxnIds' = TxnIds
  BY <1>1 DEF Asked, TxnIds
<1> QED BY <1>1, <1>2, <1>3 DEF IdsApart, ServiceStep

\* The stub works on a request, or the kernel on a transfer.
LEMMA StubIds ==
  ASSUME TypeOK, IdsApart, StubNext, UNCHANGED bg_vars
  PROVE  IdsApart' /\ ServiceStep
<1>1. next_id' = next_id /\ TxnIds' = TxnIds
  BY DEF bg_vars, router_vars, TxnIds
<1>2. to_stub \in Seq(RequestMessage) /\ to_bg \in Seq(ResponseMessage) /\ urbs \subseteq Nat
  BY DEF TypeOK, StubTypeOK
<1>3. ASSUME to_stub # <<>>
      PROVE  /\ Head(to_stub) \in RequestMessage /\ Head(to_stub).id \in SeqIds(to_stub)
             /\ Distinct(Tail(to_stub))
             /\ SeqIds(Tail(to_stub)) = SeqIds(to_stub) \ {Head(to_stub).id}
  BY <1>2, <1>3, TailIds DEF IdsApart
<1>4. ASSUME NEW id \in Asked, NEW ok \in BOOLEAN, to_bg' = Append(to_bg, Reply(id, ok))
      PROVE  RepliesDistinct(to_bg') /\ Answering' = Answering \cup {id}
  <2>1. id \in Nat /\ id \notin Answering
    BY <1>2 DEF IdsApart
  <2>2. /\ Reply(id, ok) \in ResponseMessage /\ Reply(id, ok).id = id
        /\ IsReply(Reply(id, ok))
    BY <2>1 DEF Reply, ResponseMessage, IsReply
  <2> QED BY <1>2, <1>4, <2>1, <2>2, AppendReplies DEF IdsApart, Answering
<1>5. ASSUME NEW id \in Asked, Asked' = Asked \ {id}, Answering' = Answering \cup {id},
             RepliesDistinct(to_bg'), Distinct(to_stub'), (SeqIds(to_stub) \cap urbs)' = {}
      PROVE  IdsApart' /\ ServiceStep
  BY <1>1, <1>5 DEF IdsApart, ServiceStep
<1>6. ASSUME to_stub # <<>>, urbs' = urbs, NEW ok \in BOOLEAN, AnswerNow(ok)
      PROVE  IdsApart' /\ ServiceStep
  <2>1. to_stub' = Tail(to_stub) /\ Head(to_stub).id \in Asked
    BY <1>3, <1>6 DEF AnswerNow, Asked
  <2>2. Asked' = Asked \ {Head(to_stub).id}
    BY <1>3, <1>6, <2>1 DEF Asked, IdsApart
  <2>3. (SeqIds(to_stub) \cap urbs)' = {}
    BY <1>3, <1>6, <2>1 DEF IdsApart
  <2> QED BY <1>3, <1>4, <1>5, <1>6, <2>1, <2>2, <2>3 DEF AnswerNow
<1>7. ASSUME to_stub # <<>>, to_stub' = Tail(to_stub), to_bg' = to_bg,
             urbs' = urbs \cup {Head(to_stub).id}
      PROVE  IdsApart' /\ ServiceStep
  <2>1. Asked' = Asked /\ Answering' = Answering
    BY <1>3, <1>7 DEF Asked, Answering
  <2> QED BY <1>1, <1>3, <1>7, <2>1 DEF IdsApart, ServiceStep
<1>8. CASE ReapUrb
  <2>1. PICK id \in urbs, ok \in BOOLEAN : /\ urbs' = urbs \ {id} /\ to_stub' = to_stub
                                           /\ to_bg' = Append(to_bg, Reply(id, ok))
    BY <1>8 DEF ReapUrb
  <2>2. id \in Asked /\ Asked' = Asked \ {id}
    BY <2>1 DEF Asked, IdsApart
  <2>3. (SeqIds(to_stub) \cap urbs)' = {} /\ Distinct(to_stub')
    BY <2>1 DEF IdsApart
  <2> QED BY <1>4, <1>5, <2>1, <2>2, <2>3
<1>9. CASE to_bg' = Append(to_bg, UnplugEvent) /\ UNCHANGED <<to_stub, urbs>>
  <2>1. UnplugEvent \in ResponseMessage /\ ~IsReply(UnplugEvent)
    BY DEF UnplugEvent, ResponseMessage, IsReply
  <2>2. RepliesDistinct(to_bg') /\ Answering' = Answering
    BY <1>2, <1>9, <2>1, AppendReplies DEF IdsApart, Answering
  <2>3. Asked' = Asked
    BY <1>9 DEF Asked
  <2> QED BY <1>1, <1>9, <2>2, <2>3 DEF IdsApart, ServiceStep
<1> QED BY <1>6, <1>7, <1>8, <1>9, StubShape

LEMMA NextIds ==
  ASSUME TypeOK, IdsApart, [Next]_vars
  PROVE  IdsApart' /\ ServiceStep
<1>1. CASE UNCHANGED <<usb_txns, next_id, to_stub, to_bg, urbs>>
  BY <1>1 DEF IdsApart, ServiceStep, Asked, Answering, TxnIds
<1>2. CASE UNCHANGED vars
  BY <1>1, <1>2 DEF vars, bg_vars, router_vars, stub_vars
<1>3. CASE BgStep
  <2>1. urbs' = urbs /\ BgNext
    BY <1>3 DEF BgStep, stub_vars
  <2> QED BY <1>1, <2>1, BackgroundShape, QueueIds, CloseIds, ReceiveIds, EventIds
<1>4. CASE StubStep
  BY <1>4, StubIds DEF StubStep
<1> QED BY <1>2, <1>3, <1>4 DEF Next

LEMMA InitIds == Init => IdsApart /\ Service!Init
<1> SUFFICES ASSUME Init PROVE IdsApart /\ Service!Init
  OBVIOUS
<1>1. next_id = 1 /\ urbs = {} /\ usb_txns = {} /\ to_stub = <<>> /\ to_bg = <<>>
  BY DEF Init, BgInit, StubInit
<1>2. 1 .. next_id - 1 = {} /\ DOMAIN to_stub = {} /\ DOMAIN to_bg = {}
  BY <1>1
<1>3. IdsApart
  BY <1>1, <1>2 DEF IdsApart, Asked, Answering, SeqIds, ReplyIds, Replies, Distinct, RepliesDistinct,
                      TxnIds
<1>4. Service!Init
  BY <1>1, <1>2 DEF Service!Init
<1> QED BY <1>3, <1>4

LEMMA SpecIds == Spec => []IdsApart
<1>1. TypeOK /\ IdsApart /\ [Next]_vars => IdsApart'
  BY NextIds
<1> QED BY <1>1, InitIds, TypeCorrect, PTL DEF Spec

\* The two pipes and the kernel implement RequestReply: no request is dropped,
\* carried out twice or answered under another's id, whatever fails and whenever
\* the device is pulled (awawausb.js:190-278, 1617-1644, main.rs:3074-3118,
\* 3592-3694).
THEOREM ServiceCorrect == Spec => ServiceSpec
<1>1. TypeOK /\ IdsApart /\ [Next]_vars => [Service!Next]_(Service!vars)
  BY NextIds, ServiceStepRefines
<1> QED BY <1>1, InitIds, SpecIds, TypeCorrect, PTL DEF Spec, ServiceSpec, Service!Spec

--------------------------------------------------------------------------------
(* Opens under way succeed: an open is answered, and with success, as long  *)
(* as the stub knows the device.                                            *)

OpenTxns == {t \in usb_txns : t.cb = "open"}

OpensSucceed ==
  \A t \in OpenTxns :
    /\ t.id \notin urbs
    /\ \A k \in DOMAIN to_stub : to_stub[k].id = t.id => to_stub[k].type = "OpenDevice"
    /\ stub_dev # "gone" =>
         \A k \in DOMAIN to_bg : to_bg[k].id = t.id => to_bg[k].type # "RequestError"

\* The background script posts requests under new ids.
LEMMA PostOpens ==
  ASSUME TypeOK, IdsFresh, IdsApart, OpensSucceed, NEW sent \in Seq(RequestMessage),
         \A k \in DOMAIN sent : sent[k].id >= next_id,
         to_stub' = to_stub \o sent,
         \A t \in OpenTxns' : \/ \E u \in OpenTxns : t.id = u.id
                              \/ t.id = next_id /\ \A k \in DOMAIN sent : sent[k].type = "OpenDevice",
         UNCHANGED <<to_bg, urbs, stub_dev>>
  PROVE  OpensSucceed'
<1>1. next_id \in Nat /\ to_stub \in Seq(RequestMessage)
  BY DEF TypeOK, BgTypeOK
<1>2. \A id \in Asked \cup Answering : id < next_id
  BY <1>1 DEF IdsApart
<1>3. \A k \in DOMAIN to_stub : to_stub[k].id < next_id
  BY <1>2 DEF Asked, SeqIds
<1>4. \A k \in DOMAIN to_bg : to_bg[k].type = "RequestError" => to_bg[k].id < next_id
  BY <1>2 DEF Answering, ReplyIds, Replies, IsReply
<1>5. \A k \in DOMAIN to_stub' : \/ k \in DOMAIN to_stub /\ to_stub'[k] = to_stub[k]
                                 \/ \E j \in DOMAIN sent : to_stub'[k] = sent[j]
  BY <1>1, ConcatElements
<1>6. \A u \in OpenTxns : u.id \in Nat /\ u.id < next_id
  BY DEF OpenTxns, IdsFresh, TypeOK, BgTypeOK, PageTransaction
<1>7. ASSUME NEW t \in OpenTxns', NEW u \in OpenTxns, t.id = u.id
      PROVE  /\ t.id \notin urbs
             /\ \A k \in DOMAIN to_stub' : to_stub'[k].id = t.id => to_stub'[k].type = "OpenDevice"
             /\ stub_dev # "gone" =>
                  \A k \in DOMAIN to_bg : to_bg[k].id = t.id => to_bg[k].type # "RequestError"
  <2>1. \A j \in DOMAIN sent : sent[j].id # u.id
    <3> SUFFICES ASSUME NEW j \in DOMAIN sent, sent[j].id = u.id PROVE FALSE
      OBVIOUS
    <3> QED BY <1>1, <1>6
  <2> QED BY <1>5, <1>7, <2>1 DEF OpensSucceed
<1>8. ASSUME NEW t \in OpenTxns', t.id = next_id,
             \A k \in DOMAIN sent : sent[k].type = "OpenDevice"
      PROVE  /\ t.id \notin urbs
             /\ \A k \in DOMAIN to_stub' : to_stub'[k].id = t.id => to_stub'[k].type = "OpenDevice"
             /\ stub_dev # "gone" =>
                  \A k \in DOMAIN to_bg : to_bg[k].id = t.id => to_bg[k].type # "RequestError"
  <2>1. t.id \notin urbs
    BY <1>1, <1>2, <1>8 DEF Asked
  <2>2. \A k \in DOMAIN to_stub' : to_stub'[k].id = t.id => to_stub'[k].type = "OpenDevice"
    BY <1>1, <1>3, <1>5, <1>8
  <2>3. \A k \in DOMAIN to_bg : to_bg[k].id = t.id => to_bg[k].type # "RequestError"
    BY <1>1, <1>4, <1>8
  <2> QED BY <2>1, <2>2, <2>3
<1> QED BY <1>7, <1>8 DEF OpensSucceed

\* Requests of a call, or of a close.
LEMMA QueueOpens ==
  ASSUME TypeOK, Calls, IdsApart, OpensSucceed, NEW p \in Pages, QueuesCall(p),
         UNCHANGED stub_vars
  PROVE  OpensSucceed'
<1>1. PICK refs \in SUBSET transactions[p], type \in RequestTypes, cb \in Callbacks,
           iface \in Targets, value \in ConfigValues :
             /\ Queue(p, refs, type, cb, iface, value)
             /\ type = "OpenDevice" <=> cb = "open"
  BY DEF QueuesCall, Fits
<1> DEFINE m == Request(type, next_id, iface, value)
           txn == [id |-> next_id, page |-> p, cb |-> cb, iface |-> iface,
                   value |-> value, alive |-> TRUE]
           sent == <<m>>
<1>2. next_id \in Nat
  BY DEF TypeOK, BgTypeOK
<1>3. /\ m \in RequestMessage /\ m.id = next_id /\ m.type = type
      /\ txn.id = next_id /\ txn.cb = cb
  BY <1>2 DEF Request, RequestMessage, ConfigValues
<1>4. /\ to_stub' = Append(to_stub, m) /\ usb_txns' = MarkDead(refs) \cup {txn}
      /\ to_bg' = to_bg
  BY <1>1 DEF Queue
<1> HIDE DEF m, txn
<1>5. /\ sent \in Seq(RequestMessage)
      /\ \A k \in DOMAIN sent : sent[k] = m
      /\ to_stub' = to_stub \o sent
  BY <1>3, <1>4 DEF TypeOK
<1>6. \A t \in MarkDead(refs) : \E u \in usb_txns : t.id = u.id /\ t.cb = u.cb
  BY MarkDeadProperties DEF Calls
<1>7. \A t \in OpenTxns' : (\E u \in OpenTxns : t.id = u.id) \/ (t.id = next_id /\ cb = "open")
  BY <1>3, <1>4, <1>6 DEF OpenTxns
<1>8. \A k \in DOMAIN sent : sent[k].id >= next_id /\ (cb = "open" => sent[k].type = "OpenDevice")
  BY <1>1, <1>2, <1>3, <1>5
<1> HIDE DEF sent
<1> QED BY <1>4, <1>5, <1>7, <1>8, PostOpens DEF stub_vars, Calls

LEMMA CloseOpens ==
  ASSUME TypeOK, Calls, IdsApart, OpensSucceed, NEW p \in Pages, CloseDeviceOfPage(p),
         UNCHANGED stub_vars
  PROVE  OpensSucceed'
<1>1. PICK ord \in Ascending(claimed_interfaces[p]) : CloseDeviceOfPage(p)!(ord)
  BY DEF CloseDeviceOfPage
<1> DEFINE sent == CloseRequests(ord)
           new == {CloseTransaction(p, sent[k]) : k \in 1 .. Len(sent)}
<1>2. /\ to_stub' = to_stub \o sent /\ to_bg' = to_bg
      /\ usb_txns' = MarkDead(Everything(p)) \cup new
  BY <1>1
<1>3. sent \in Seq(RequestMessage) /\ \A k \in 1 .. Len(sent) : sent[k].id = next_id + k - 1
  BY CloseRequestsIds
<1> HIDE DEF sent
<1>4. \A t \in new : t.cb # "open"
  BY DEF CloseTransaction
<1> HIDE DEF new
<1>5. \A t \in MarkDead(Everything(p)) : \E u \in usb_txns : t.id = u.id /\ t.cb = u.cb
  BY MarkDeadProperties DEF Calls
<1>6. \A t \in OpenTxns' : \E u \in OpenTxns : t.id = u.id
  BY <1>2, <1>4, <1>5 DEF OpenTxns
<1>7. ASSUME NEW k \in DOMAIN sent PROVE sent[k].id >= next_id
  <2>1. k \in 1 .. Len(sent) /\ next_id \in Nat
    BY <1>3, LenProperties DEF TypeOK, BgTypeOK
  <2> QED BY <1>3, <2>1
<1> QED BY <1>2, <1>3, <1>6, <1>7, PostOpens DEF stub_vars, Calls

\* The stub works on a request, or the kernel on a transfer.
LEMMA StubOpens ==
  ASSUME TypeOK, IdsApart, OpensSucceed, StubNext, UNCHANGED bg_vars
  PROVE  OpensSucceed'
<1>1. OpenTxns' = OpenTxns
  BY DEF OpenTxns, bg_vars, router_vars
<1>2. to_stub \in Seq(RequestMessage) /\ to_bg \in Seq(ResponseMessage)
  BY DEF TypeOK
<1>3. ASSUME to_stub # <<>>, to_stub' = Tail(to_stub)
      PROVE  /\ \A k \in DOMAIN to_stub' : \E j \in DOMAIN to_stub : to_stub'[k] = to_stub[j]
             /\ \E j \in DOMAIN to_stub : Head(to_stub) = to_stub[j]
  BY <1>2, <1>3, TailElements
<1>4. ASSUME NEW id \in Nat, NEW ok \in BOOLEAN, to_bg' = Append(to_bg, Reply(id, ok)),
             NEW t \in OpenTxns, t.id = id => ok \/ stub_dev = "gone"
      PROVE  stub_dev # "gone" =>
               \A k \in DOMAIN to_bg' : to_bg'[k].id = t.id => to_bg'[k].type # "RequestError"
  <2>1. Reply(id, ok) \in ResponseMessage
    BY DEF Reply, ResponseMessage
  <2>2. \A k \in DOMAIN to_bg' : (\E j \in DOMAIN to_bg : to_bg'[k] = to_bg[j])
                                   \/ to_bg'[k] = Reply(id, ok)
    BY <1>2, <1>4, <2>1, AppendElements
  <2>3. Reply(id, ok).id = id /\ (ok => Reply(id, ok).type # "RequestError")
    BY DEF Reply
  <2> QED BY <1>4, <2>2, <2>3 DEF OpensSucceed
<1>5. ASSUME to_stub # <<>>, urbs' = urbs, stub_dev' = stub_dev, NEW ok \in BOOLEAN,
             AnswerNow(ok), Head(to_stub).type = "OpenDevice" /\ stub_dev # "gone" => ok
      PROVE  OpensSucceed'
  <2>0. Head(to_stub).id \in Nat
    BY <1>5, AnswerType DEF RequestMessage
  <2>1. to_stub' = Tail(to_stub) /\ to_bg' = Append(to_bg, Reply(Head(to_stub).id, ok))
    BY <1>5 DEF AnswerNow
  <2>2. \A t \in OpenTxns : t.id = Head(to_stub).id => ok \/ stub_dev = "gone"
    BY <1>3, <1>5, <2>1 DEF OpensSucceed
  <2>3. \A t \in OpenTxns : \A k \in DOMAIN to_stub' : to_stub'[k].id = t.id
                                                         => to_stub'[k].type = "OpenDevice"
    BY <1>3, <1>5, <2>1 DEF OpensSucceed
  <2> QED BY <1>1, <1>4, <1>5, <2>0, <2>1, <2>2, <2>3 DEF OpensSucceed
<1>6. ASSUME to_stub # <<>>, Head(to_stub).type = "Transfer", stub_dev' = stub_dev,
             to_stub' = Tail(to_stub), urbs' = urbs \cup {Head(to_stub).id}, to_bg' = to_bg
      PROVE  OpensSucceed'
  <2>1. \A t \in OpenTxns : t.id # Head(to_stub).id
    BY <1>3, <1>6 DEF OpensSucceed
  <2> QED BY <1>1, <1>3, <1>6, <2>1 DEF OpensSucceed
<1>7. CASE ReapUrb
  <2>1. PICK id \in urbs, ok \in BOOLEAN : /\ urbs' = urbs \ {id}
                                           /\ to_bg' = Append(to_bg, Reply(id, ok))
                                           /\ UNCHANGED <<to_stub, stub_dev>>
    BY <1>7 DEF ReapUrb
  <2>2. id \in Nat /\ \A t \in OpenTxns : t.id # id
    BY <2>1 DEF OpensSucceed, TypeOK, StubTypeOK
  <2> QED BY <1>1, <1>4, <2>1, <2>2 DEF OpensSucceed
<1>8. CASE to_bg' = Append(to_bg, UnplugEvent) /\ stub_dev # "gone" /\ UNCHANGED <<to_stub, urbs>>
  <2>1. UnplugEvent \in ResponseMessage /\ UnplugEvent.type # "RequestError"
    BY DEF UnplugEvent, ResponseMessage
  <2>2. \A k \in DOMAIN to_bg' : (\E j \in DOMAIN to_bg : to_bg'[k] = to_bg[j])
                                   \/ to_bg'[k] = UnplugEvent
    BY <1>2, <1>8, <2>1, AppendElements
  <2> QED BY <1>1, <1>8, <2>1, <2>2 DEF OpensSucceed
<1> QED BY <1>5, <1>6, <1>7, <1>8, StubShape

LEMMA OpensSucceedStep ==
  ASSUME TypeOK, Calls, IdsApart, OpensSucceed, [Next]_vars
  PROVE  OpensSucceed'
<1>1. CASE UNCHANGED <<usb_txns, to_stub, to_bg, urbs, stub_dev>>
  BY <1>1 DEF OpensSucceed, OpenTxns
<1>2. CASE UNCHANGED vars
  BY <1>1, <1>2 DEF vars, bg_vars, router_vars, stub_vars
<1>3. ASSUME UNCHANGED stub_vars, to_bg # <<>>, to_bg' = Tail(to_bg), to_stub' = to_stub,
             usb_txns' \subseteq usb_txns
      PROVE  OpensSucceed'
  <2>1. \A k \in DOMAIN to_bg' : \E j \in DOMAIN to_bg : to_bg'[k] = to_bg[j]
    BY <1>3, TailElements DEF TypeOK
  <2> QED BY <1>3, <2>1 DEF OpensSucceed, OpenTxns, stub_vars
<1>4. CASE BgStep
  <2>1. UNCHANGED stub_vars /\ BgNext
    BY <1>4 DEF BgStep
  <2>2. CASE UNCHANGED <<usb_txns, next_id, to_stub, to_bg>>
    BY <1>1, <2>1, <2>2 DEF stub_vars
  <2>3. ASSUME NEW m, Receive(m)
        PROVE  OpensSucceed'
    BY <1>3, <2>1, <2>3 DEF Receive
  <2>4. CASE UnplugDevice
    BY <1>3, <2>1, <2>4 DEF UnplugDevice
  <2> QED BY <2>1, <2>2, <2>3, <2>4, BackgroundShape, QueueOpens, CloseOpens
<1>5. CASE StubStep
  BY <1>5, StubOpens DEF StubStep
<1> QED BY <1>2, <1>4, <1>5 DEF Next

--------------------------------------------------------------------------------
(* No open is orphaned.                                                     *)

\* Will the device be open once the requests s have been carried out?  It is
\* now if isOpen.
EndsOpen(s, isOpen) ==
  \/ isOpen /\ \A k \in DOMAIN s : s[k].type # "CloseDevice"
  \/ \E k \in DOMAIN s : /\ s[k].type = "OpenDevice"
                         /\ \A j \in DOMAIN s : j > k => s[j].type # "CloseDevice"

\* A page has the device open, or waits for it.
OpenWanted == opened_count > 0 \/ \E t \in OpenTxns : t.alive

\* The stub opens the device for good only if somebody wants it.
OpensWanted == stub_dev = "present" /\ EndsOpen(to_stub, stub_opened) => OpenWanted

\* After a close comes no open but one that is posted.
LEMMA ClosedAtEnd ==
  ASSUME NEW S, NEW s \in Seq(S), NEW t \in Seq(S), t # <<>>, t[Len(t)].type = "CloseDevice",
         NEW isOpen
  PROVE  ~EndsOpen(s \o t, isOpen)
<1> PICK m \in Nat, n \in Nat : m = Len(s) /\ n = Len(t) /\ n > 0
  BY LenProperties, EmptySeq
<1>1. DOMAIN (s \o t) = 1 .. m + n /\ (s \o t)[m + n] = t[n]
  <2>1. /\ DOMAIN (s \o t) = 1 .. m + n
        /\ \A k \in 1 .. m + n : (s \o t)[k] = IF k <= m THEN s[k] ELSE t[k - m]
    BY ConcatProperties, LenProperties
  <2>2. m + n \in 1 .. m + n /\ ~(m + n <= m) /\ m + n - m = n
    OBVIOUS
  <2> QED BY <2>1, <2>2
<1>2. m + n \in DOMAIN (s \o t) /\ (s \o t)[m + n].type = "CloseDevice"
  BY <1>1
<1>3. \A k \in 1 .. m + n : k = m + n \/ m + n > k
  OBVIOUS
<1> QED BY <1>1, <1>2, <1>3 DEF EndsOpen

\* Posting what is no open does not open it.
LEMMA AppendEndsOpen ==
  ASSUME NEW S, NEW s \in Seq(S), NEW m \in S, m.type # "OpenDevice", NEW isOpen,
         EndsOpen(Append(s, m), isOpen)
  PROVE  EndsOpen(s, isOpen)
<1>1. /\ \A k \in DOMAIN Append(s, m) :
           \/ k \in DOMAIN s /\ Append(s, m)[k] = s[k]
           \/ k = Len(s) + 1 /\ Append(s, m)[k] = m
      /\ \A k \in DOMAIN s : k \in DOMAIN Append(s, m) /\ Append(s, m)[k] = s[k]
  BY AppendElements
<1> DEFINE r == Append(s, m)
<1> HIDE DEF r
<1> QED BY <1>1 DEF EndsOpen, r

\* Carrying out the first request leaves open what the rest leaves open.
LEMMA TailEndsOpen ==
  ASSUME NEW S, NEW s \in Seq(S), s # <<>>, NEW wasOpen, NEW isOpen,
         \/ Head(s).type = "OpenDevice"
         \/ Head(s).type = "CloseDevice" /\ ~isOpen
         \/ Head(s).type # "CloseDevice" /\ (isOpen => wasOpen),
         EndsOpen(Tail(s), isOpen)
  PROVE  EndsOpen(s, wasOpen)
<1>1. /\ \A k \in DOMAIN Tail(s) : k + 1 \in DOMAIN s /\ Tail(s)[k] = s[k + 1]
      /\ \A k \in DOMAIN s : k = 1 \/ (k - 1 \in DOMAIN Tail(s) /\ Tail(s)[k - 1] = s[k])
      /\ 1 \in DOMAIN s /\ Head(s) = s[1]
  BY TailElements
<1>2. DOMAIN s \subseteq Int /\ DOMAIN Tail(s) \subseteq Int
  BY HeadTailProperties, LenProperties
<1>3. ASSUME NEW k \in DOMAIN Tail(s), Tail(s)[k].type = "OpenDevice",
             \A j \in DOMAIN Tail(s) : j > k => Tail(s)[j].type # "CloseDevice"
      PROVE  EndsOpen(s, wasOpen)
  <2>1. k + 1 \in DOMAIN s /\ s[k + 1].type = "OpenDevice" /\ k > 0
    <3>1. k \in 1 .. Len(Tail(s))
      BY HeadTailProperties, LenProperties
    <3> QED BY <1>1, <1>3, <3>1
  <2>2. ASSUME NEW j \in DOMAIN s, j > k + 1 PROVE s[j].type # "CloseDevice"
    <3>1. j # 1 /\ j - 1 > k
      BY <1>2, <2>1, <2>2
    <3> QED BY <1>1, <1>3, <3>1
  <2> QED BY <2>1, <2>2 DEF EndsOpen
<1>4. ASSUME isOpen, \A j \in DOMAIN Tail(s) : Tail(s)[j].type # "CloseDevice"
      PROVE  EndsOpen(s, wasOpen)
  <2>1. \A j \in DOMAIN s : j # 1 => s[j].type # "CloseDevice"
    BY <1>1, <1>4
  <2>2. CASE Head(s).type = "OpenDevice"
    <3>1. \A j \in DOMAIN s : j > 1 => s[j].type # "CloseDevice"
      BY <1>2, <2>1
    <3> QED BY <1>1, <2>2, <3>1 DEF EndsOpen
  <2>3. CASE Head(s).type # "CloseDevice" /\ wasOpen
    BY <1>1, <2>1, <2>3 DEF EndsOpen
  <2> QED BY <1>4, <2>2, <2>3
<1> QED BY <1>3, <1>4 DEF EndsOpen

\* The close of the last page that has the device open ends with CloseDevice.
LEMMA LastCloseCloses ==
  ASSUME TypeOK, NEW p \in Pages, NEW ord \in Ascending(claimed_interfaces[p]), opened_count = 1
  PROVE  LET sent == CloseRequests(ord) IN
           sent # <<>> /\ sent[Len(sent)].type = "CloseDevice"
<1> DEFINE n == Len(ord)
           release == [k \in 1 .. n |->
             Request("ReleaseInterface", next_id + k - 1, ord[k], Unconfigured)]
           close == Request("CloseDevice", next_id + n, DeviceTarget, Unconfigured)
<1>1. n \in Nat
  <2>1. IsFiniteSet(claimed_interfaces[p])
    BY IfacesAssumption, FS_Subset DEF TypeOK, BgTypeOK
  <2>2. Cardinality(claimed_interfaces[p]) \in Nat
    BY <2>1, FS_CardinalityType
  <2>3. ord \in [1 .. Cardinality(claimed_interfaces[p]) -> claimed_interfaces[p]]
    BY DEF Ascending
  <2> QED BY <2>2, <2>3
<1>2. CloseRequests(ord) = Append(release, close) /\ close.type = "CloseDevice"
  BY DEF CloseRequests, Request
<1>3. release \in Seq(Range(release)) /\ Len(release) = n
  BY <1>1 DEF Range
<1> HIDE DEF release, close, n
<1>4. /\ Append(release, close) # <<>> /\ Len(Append(release, close)) = n + 1
      /\ Append(release, close)[n + 1] = close
  BY <1>3, AppendProperties
<1> QED BY <1>2, <1>4

\* An alive open stays wanted if its own transaction does.
LEMMA StillWanted ==
  ASSUME TypeOK, OpenWanted, opened_count' \in Nat, opened_count' >= opened_count,
         \A t \in OpenTxns : t.alive => t \in usb_txns'
  PROVE  OpenWanted'
BY DEF OpenWanted, OpenTxns, TypeOK, BgTypeOK

\* A call is queued.
LEMMA QueueWanted ==
  ASSUME TypeOK, OpenCountCovers, OpensWanted, NEW p \in Pages, QueuesCall(p),
         UNCHANGED stub_vars
  PROVE  OpensWanted'
<1>1. PICK refs \in SUBSET transactions[p], type \in RequestTypes, cb \in Callbacks,
           iface \in Targets, value \in ConfigValues :
             /\ Queue(p, refs, type, cb, iface, value)
             /\ refs = {} \/ opened[p]
             /\ type = "OpenDevice" <=> cb = "open"
             /\ opened_count' = opened_count
  BY DEF QueuesCall, Fits, QueueUnchanged, device_vars
<1> DEFINE m == Request(type, next_id, iface, value)
           txn == [id |-> next_id, page |-> p, cb |-> cb, iface |-> iface,
                   value |-> value, alive |-> TRUE]
<1>2. m \in RequestMessage /\ m.type = type /\ txn.cb = cb /\ txn.alive
  BY DEF Request, RequestMessage, ConfigValues, TypeOK, BgTypeOK
<1>3. to_stub' = Append(to_stub, m) /\ usb_txns' = MarkDead(refs) \cup {txn}
  BY <1>1 DEF Queue
<1> HIDE DEF m, txn
<1>4. CASE type = "OpenDevice"
  BY <1>1, <1>2, <1>3, <1>4 DEF OpensWanted, OpenWanted, OpenTxns
<1>5. CASE type # "OpenDevice"
  <2> SUFFICES ASSUME stub_dev = "present", EndsOpen(to_stub', stub_opened)
               PROVE  OpenWanted'
    BY DEF OpensWanted, stub_vars
  <2>1. EndsOpen(to_stub, stub_opened)
    BY <1>2, <1>3, <1>5, AppendEndsOpen DEF TypeOK
  <2>2. OpenWanted
    BY <2>1 DEF OpensWanted
  <2>3. CASE opened[p]
    <3>1. opened_count >= 1
      BY <2>3, OpenIsCounted
    <3> QED BY <1>1, <3>1 DEF OpenWanted, TypeOK, BgTypeOK
  <2>4. CASE refs = {}
    <3>1. usb_txns \subseteq MarkDead(refs)
      BY <2>4 DEF MarkDead, Ids
    <3> QED BY <1>1, <1>3, <2>2, <3>1, StillWanted DEF OpenTxns, TypeOK, BgTypeOK
  <2> QED BY <1>1, <2>3, <2>4
<1> QED BY <1>4, <1>5

\* A page closes the device, or goes away with it open.
LEMMA CloseWanted ==
  ASSUME TypeOK, OpenCountCovers, OpensWanted, NEW p \in Pages, opened[p],
         CloseDeviceOfPage(p), UNCHANGED stub_vars
  PROVE  OpensWanted'
<1>1. PICK ord \in Ascending(claimed_interfaces[p]) : CloseDeviceOfPage(p)!(ord)
  BY DEF CloseDeviceOfPage
<1>2. to_stub' = to_stub \o CloseRequests(ord) /\ opened_count' = opened_count - 1
  BY <1>1
<1>3. opened_count \in Nat /\ opened_count >= 1
  BY OpenIsCounted DEF TypeOK, BgTypeOK
<1>4. CASE opened_count = 1
  <2>1. ~EndsOpen(to_stub', stub_opened)
    BY <1>2, <1>4, LastCloseCloses, ClosedAtEnd, CloseRequestsType DEF TypeOK
  <2> QED BY <2>1 DEF OpensWanted, stub_vars
<1>5. CASE opened_count # 1
  BY <1>2, <1>3, <1>5 DEF OpensWanted, OpenWanted
<1> QED BY <1>4, <1>5

\* A reply is taken in.
LEMMA ReplyWanted ==
  ASSUME TypeOK, Calls, OpensSucceed, OpensWanted, StubReply, UNCHANGED stub_vars
  PROVE  OpensWanted'
<1> SUFFICES ASSUME stub_dev = "present", EndsOpen(to_stub, stub_opened), OpenWanted,
                    to_stub' = to_stub
             PROVE  OpenWanted'
  <2>1. to_stub' = to_stub
    BY DEF StubReply, OnOpened, OnConfigSet, OnClaimed, OnReleased, OnDone, OnError,
           OnDeadReply, Callback, Receive
  <2> QED BY <2>1 DEF OpensWanted, stub_vars
<1>1. opened_count \in Nat
  BY DEF TypeOK, BgTypeOK
<1>2. ASSUME NEW t \in usb_txns, NEW cbs, NEW ok, Callback(t, cbs, ok), t.cb # "open",
             opened_count' = opened_count
      PROVE  OpenWanted'
  <2>1. usb_txns' = {u \in usb_txns : u.id # t.id}
    BY <1>2 DEF Callback, Receive, Reply
  <2>2. \A u \in OpenTxns : u.id # t.id
    BY <1>2 DEF OpenTxns, Calls, IdsUnique
  <2> QED BY <1>1, <1>2, <2>1, <2>2, StillWanted DEF OpenTxns
<1>3. ASSUME NEW t \in usb_txns, OnOpened(t)
      PROVE  OpenWanted'
  BY <1>1, <1>3 DEF OnOpened, OpenWanted
<1>4. ASSUME NEW t \in usb_txns, OnError(t)
      PROVE  OpenWanted'
  <2>1. Callback(t, Callbacks, FALSE) /\ opened_count' = opened_count
    BY <1>4 DEF OnError, NoStateChange
  <2>2. 1 \in DOMAIN to_bg /\ to_bg[1].type = "RequestError" /\ to_bg[1].id = t.id
    <3>1. to_bg # <<>> /\ Head(to_bg) = Reply(t.id, FALSE)
      BY <2>1 DEF Callback, Receive
    <3> QED BY <3>1, TailElements DEF Reply, TypeOK
  <2>3. t.cb # "open"
    BY <2>2 DEF OpensSucceed, OpenTxns
  <2> QED BY <1>2, <2>1, <2>3
<1>5. ASSUME NEW t \in usb_txns,
             OnConfigSet(t) \/ OnClaimed(t) \/ OnReleased(t) \/ OnDone(t)
      PROVE  OpenWanted'
  BY <1>2, <1>5
  DEF OnConfigSet, OnClaimed, OnReleased, OnDone, NoStateChange, Callback
<1>6. CASE OnDeadReply
  <2>1. PICK m : /\ usb_txns' = {u \in usb_txns : u.id # m.id}
                 /\ ~\E u \in usb_txns : u.id = m.id /\ u.alive
                 /\ opened_count' = opened_count
    BY <1>6 DEF OnDeadReply, Receive, NoStateChange
  <2> QED BY <1>1, <2>1, StillWanted DEF OpenTxns
<1> QED BY <1>3, <1>4, <1>5, <1>6 DEF StubReply

\* While the device is connected and no ioctl fails, every close succeeds.
LEMMA StubOpenShape ==
  ASSUME ~IoctlMayFail, StubNext, stub_dev' = "present"
  PROVE  /\ stub_dev = "present"
         /\ \/ UNCHANGED <<to_stub, stub_opened>>
            \/ /\ to_stub # <<>> /\ to_stub' = Tail(to_stub)
               /\ \/ Head(to_stub).type = "OpenDevice"
                  \/ Head(to_stub).type = "CloseDevice" /\ ~stub_opened'
                  \/ Head(to_stub).type # "CloseDevice" /\ stub_opened' = stub_opened
<1> USE DEF Receiving, AnswerNow, stub_vars
<1>1. CASE CloseDevice
  <2>1. IoctlResults = {TRUE}
    BY <1>1 DEF CloseDevice, IoctlResults
  <2> QED BY <1>1, <2>1 DEF CloseDevice
<1>2. CASE DeviceNotFound \/ OpenDevice \/ ResetDevice
  BY <1>2 DEF DeviceNotFound, OpenDevice, ResetDevice
<1>3. CASE SetConfiguration
  BY <1>3 DEF SetConfiguration
<1>4. CASE ClaimInterface
  BY <1>4 DEF ClaimInterface
<1>5. CASE ReleaseInterface \/ SetAltOrClearHalt
  BY <1>5 DEF ReleaseInterface, SetAltOrClearHalt
<1>6. CASE Transfer
  BY <1>6 DEF Transfer
<1>7. CASE ReapUrb \/ Unplugged \/ Destroyed
  BY <1>7 DEF ReapUrb, Unplugged, Destroyed
<1> QED BY <1>1, <1>2, <1>3, <1>4, <1>5, <1>6, <1>7 DEF StubNext, HandleStdin

LEMMA StubWanted ==
  ASSUME ~IoctlMayFail, TypeOK, OpensWanted, StubNext, UNCHANGED bg_vars
  PROVE  OpensWanted'
<1> SUFFICES ASSUME stub_dev' = "present", EndsOpen(to_stub', stub_opened')
             PROVE  OpenWanted'
  BY DEF OpensWanted
<1>1. OpenWanted' = OpenWanted
  BY DEF OpenWanted, OpenTxns, bg_vars, router_vars, device_vars
<1>2. stub_dev = "present" /\ EndsOpen(to_stub, stub_opened)
  <2>1. CASE UNCHANGED <<to_stub, stub_opened>>
    BY <2>1, StubOpenShape
  <2>2. CASE ~UNCHANGED <<to_stub, stub_opened>>
    <3>1. /\ stub_dev = "present" /\ to_stub # <<>> /\ to_stub' = Tail(to_stub)
          /\ \/ Head(to_stub).type = "OpenDevice"
             \/ Head(to_stub).type = "CloseDevice" /\ ~stub_opened'
             \/ Head(to_stub).type # "CloseDevice" /\ (stub_opened' => stub_opened)
      BY <2>2, StubOpenShape
    <3>2. EndsOpen(Tail(to_stub), stub_opened') /\ to_stub \in Seq(RequestMessage)
      BY <3>1 DEF TypeOK
    <3>3. EndsOpen(to_stub, stub_opened)
      BY <3>1, <3>2, TailEndsOpen
    <3> QED BY <3>1, <3>3
  <2> QED BY <2>1, <2>2
<1> QED BY <1>1, <1>2 DEF OpensWanted

LEMMA OpensWantedStep ==
  ASSUME ~IoctlMayFail, IInv, OpensSucceed, OpensWanted, [Next]_vars
  PROVE  OpensWanted'
<1> USE DEF IInv, Opens
<1>1. ASSUME UNCHANGED <<usb_txns, to_stub, stub_dev, stub_opened>>,
             opened_count' \in Nat, opened_count' >= opened_count
      PROVE  OpensWanted'
  BY <1>1, StillWanted DEF OpensWanted, OpenTxns
<1>2. opened_count \in Nat
  BY DEF TypeOK, BgTypeOK
<1>3. CASE UNCHANGED vars
  BY <1>1, <1>2, <1>3 DEF vars, bg_vars, router_vars, device_vars, stub_vars
<1>4. CASE StubStep
  BY <1>4, StubWanted DEF StubStep
<1>5. ASSUME UNCHANGED stub_vars, NEW p \in Pages, PageRequest(p)
      PROVE  OpensWanted'
  <2>1. CASE SettledAtOnce(p)
    <3>1. /\ UNCHANGED <<usb_txns, to_stub>>
          /\ opened_count' = opened_count \/ opened_count' = opened_count + 1
      BY <2>1 DEF SettledAtOnce, RequestDevice, OpenAgain, OpenShared, CloseAgain,
                  ClaimAgain, ReleaseAgain, router_vars, device_vars
    <3> QED BY <1>1, <1>2, <1>5, <3>1 DEF stub_vars
  <2>2. CASE ClosePage(p)
    BY <1>5, <2>2, CloseWanted DEF ClosePage
  <2> QED BY <1>5, <2>1, <2>2, PageRequestShape, QueueWanted
<1>6. ASSUME UNCHANGED stub_vars, NEW p \in Pages, Disconnect(p)
      PROVE  OpensWanted'
  <2>1. CASE DisconnectOpen(p)
    BY <1>6, <2>1, CloseWanted DEF DisconnectOpen
  <2>2. CASE DisconnectIdle(p)
    BY <1>1, <1>2, <1>6, <2>2 DEF DisconnectIdle, stub_vars
  <2> QED BY <1>6, <2>1, <2>2 DEF Disconnect
<1>7. ASSUME UNCHANGED stub_vars, BgReceive
      PROVE  OpensWanted'
  <2>1. CASE UnplugDevice
    BY <1>1, <1>2, <1>7, <2>1 DEF UnplugDevice, stub_vars
  <2> QED BY <1>7, <2>1, ReplyWanted DEF BgReceive
<1> QED BY <1>3, <1>4, <1>5, <1>6, <1>7 DEF Next, BgStep, BgNext

\* On a connected device that refuses nothing, no close and no page that goes away
\* leaves the device open in the stub once nobody counts as having it open and
\* nothing is under way, in whatever order opens and closes of several pages
\* finish (awawausb.js:226-278, 687-752, 445-466, main.rs:648-683).
THEOREM OpensNotOrphaned == ~IoctlMayFail => (Spec => []NoOrphanOpen)
<1> SUFFICES ASSUME ~IoctlMayFail PROVE Spec => []NoOrphanOpen
  OBVIOUS
<1> DEFINE Inv == IInv /\ IdsApart /\ OpensSucceed /\ OpensWanted
<1>1. Init => OpensSucceed /\ OpensWanted
  BY DEF Init, BgInit, StubInit, OpensSucceed, OpenTxns, OpensWanted, EndsOpen
<1>2. Inv /\ [Next]_vars => Inv'
  BY NextIInv, NextIds, OpensSucceedStep, OpensWantedStep DEF IInv
<1>3. Inv => NoOrphanOpen
  <2> SUFFICES ASSUME Inv, Drained, opened_count = 0, stub_dev = "present", stub_opened
               PROVE  FALSE
    BY DEF NoOrphanOpen
  <2>1. \A k \in DOMAIN to_stub : to_stub[k].id \in TxnIds
    BY DEF IdsApart, Asked, SeqIds
  <2>2. DOMAIN to_stub = {}
    BY <2>1 DEF TxnIds, Drained
  <2>3. OpenWanted
    BY <2>2 DEF OpensWanted, EndsOpen
  <2> QED BY <2>3 DEF OpenWanted, OpenTxns, Drained
<1> HIDE DEF Inv
<1>4. Init => Inv
  BY <1>1, InitIInv, InitIds DEF Inv
<1> QED BY <1>2, <1>3, <1>4, PTL DEF Spec

--------------------------------------------------------------------------------
(* Answers come in order.  The stub is single threaded and both pipes keep  *)
(* their order, so of two requests other than transfers the one posted      *)
(* first is carried out and answered first.                                 *)

\* The request m is that of transaction t.
Asks(t, m) == Fits(t.cb, m.type) /\ m.iface = t.iface /\ m.value = t.value

\* Requests are those of their transactions, and URBs are those of transfers.
Matched ==
  /\ \A t \in usb_txns : \A k \in DOMAIN to_stub : to_stub[k].id = t.id => Asks(t, to_stub[k])
  /\ \A t \in usb_txns : t.id \in urbs => t.cb = "xfer"

\* The replies on their way back that are to requests other than transfers.
Controls ==
  {k \in Replies(to_bg) : \E t \in usb_txns : t.id = to_bg[k].id /\ t.cb # "xfer"}

Ordered ==
  /\ \A j, k \in DOMAIN to_stub : j < k => to_stub[j].id < to_stub[k].id
  /\ \A j, k \in Controls : j < k => to_bg[j].id < to_bg[k].id
  /\ \A j \in Controls, k \in DOMAIN to_stub : to_bg[j].id < to_stub[k].id

\* Requests are posted under consecutive new ids, each for a new transaction.
LEMMA PostOrder ==
  ASSUME TypeOK, IdsApart, Matched, Ordered, IdsFresh,
         NEW sent \in Seq(RequestMessage),
         \A k \in 1 .. Len(sent) : sent[k].id = next_id + k - 1,
         to_stub' = to_stub \o sent,
         \A t \in usb_txns' :
           \/ \E u \in usb_txns : /\ t.id = u.id /\ t.cb = u.cb
                                  /\ t.iface = u.iface /\ t.value = u.value
           \/ \E k \in 1 .. Len(sent) : t.id = sent[k].id /\ Asks(t, sent[k]),
         UNCHANGED <<to_bg, urbs>>
  PROVE  Matched' /\ Ordered'
<1> PICK m \in Nat, n \in Nat, first \in Nat :
      m = Len(to_stub) /\ n = Len(sent) /\ first = next_id
  BY LenProperties DEF TypeOK, BgTypeOK
<1>1. /\ \A id \in Asked \cup Answering : id < first
      /\ \A t \in usb_txns : t.id \in Nat /\ t.id < first
  BY DEF IdsApart, IdsFresh, TypeOK, BgTypeOK, PageTransaction
<1>2. DOMAIN to_stub = 1 .. m /\ \A k \in 1 .. m : to_stub[k].id \in Nat /\ to_stub[k].id < first
  <2>1. to_stub \in Seq(RequestMessage)
    BY DEF TypeOK
  <2>2. DOMAIN to_stub = 1 .. m /\ \A k \in 1 .. m : to_stub[k] \in RequestMessage
    BY <2>1, LenProperties, ElementOfSeq
  <2> QED BY <1>1, <2>2 DEF Asked, SeqIds, RequestMessage
<1>3. /\ DOMAIN to_stub' = 1 .. m + n
      /\ \A k \in 1 .. m + n :
           \/ k \in 1 .. m /\ to_stub'[k] = to_stub[k]
           \/ k > m /\ k - m \in 1 .. n /\ to_stub'[k] = sent[k - m]
                    /\ to_stub'[k].id = first + (k - m) - 1
  <2>1. to_stub \in Seq(RequestMessage)
    BY DEF TypeOK
  <2>2. /\ DOMAIN to_stub' = 1 .. m + n
        /\ \A k \in 1 .. m + n : to_stub'[k] = IF k <= m THEN to_stub[k] ELSE sent[k - m]
    BY <2>1, ConcatProperties, LenProperties
  <2>3. \A k \in 1 .. m + n : (k <= m /\ k \in 1 .. m) \/ (~(k <= m) /\ k > m /\ k - m \in 1 .. n)
    OBVIOUS
  <2> QED BY <2>2, <2>3
<1>4. \A k \in 1 .. m + n : k > m => to_stub'[k].id \in Nat /\ to_stub'[k].id >= first
  <2>1. \A k \in 1 .. m + n : k > m => first + (k - m) - 1 \in Nat /\ first + (k - m) - 1 >= first
    OBVIOUS
  <2>2. \A k \in 1 .. m : ~(k > m)
    OBVIOUS
  <2> QED BY <1>3, <2>1, <2>2
<1>5. ASSUME NEW j \in 1 .. m + n, NEW k \in 1 .. m + n, j < k
      PROVE  to_stub'[j].id < to_stub'[k].id
  <2>1. CASE k \in 1 .. m
    <3>1. j \in 1 .. m /\ ~(j > m) /\ ~(k > m)
      BY <1>5, <2>1
    <3> QED BY <1>2, <1>3, <1>5, <2>1, <3>1 DEF Ordered
  <2>2. CASE j \in 1 .. m /\ k \notin 1 .. m
    <3>1. ~(j > m) /\ k > m
      BY <2>2
    <3>2. to_stub'[j].id \in Nat /\ to_stub'[j].id < first
      BY <1>2, <1>3, <3>1
    <3>3. to_stub'[k].id \in Nat /\ to_stub'[k].id >= first
      BY <1>4, <3>1
    <3> QED BY <3>2, <3>3
  <2>3. CASE j \notin 1 .. m /\ k \notin 1 .. m
    <3>1. to_stub'[j].id = first + (j - m) - 1 /\ to_stub'[k].id = first + (k - m) - 1
      BY <1>3, <2>3
    <3> QED BY <1>5, <3>1
  <2> QED BY <1>5, <2>1, <2>2, <2>3
<1>6. \A k \in Replies(to_bg) : to_bg[k].id \in Answering
  BY DEF Answering, ReplyIds
<1>7. \A k \in 1 .. n : sent[k].id \in Nat /\ sent[k].id >= first
  BY first = next_id, n = Len(sent)
<1>8. Controls' \subseteq Controls
  <2> SUFFICES ASSUME NEW k \in Replies(to_bg), NEW t \in usb_txns', t.id = to_bg[k].id, t.cb # "xfer"
               PROVE  k \in Controls
    BY DEF Controls
  <2>1. t.id < first
    BY <1>1, <1>6
  <2>2. \A j \in 1 .. n : sent[j].id # t.id
    BY <1>7, <2>1
  <2> QED BY <2>2 DEF Controls
<1>9. Ordered'
  <2>1. \A j \in Controls, k \in 1 .. m + n : to_bg[j].id < to_stub'[k].id
    <3> SUFFICES ASSUME NEW j \in Controls, NEW k \in 1 .. m + n
                 PROVE  to_bg[j].id < to_stub'[k].id
      OBVIOUS
    <3>1. CASE k > m
      <4>1. to_bg[j].id < first /\ to_bg[j].id \in Nat
        BY <1>1, <1>6 DEF Controls
      <4> QED BY <1>4, <3>1, <4>1
    <3>2. CASE ~(k > m)
      BY <1>2, <1>3, <3>2 DEF Ordered
    <3> QED BY <3>1, <3>2
  <2> QED BY <1>3, <1>5, <1>8, <2>1 DEF Ordered
<1>10. ASSUME NEW t \in usb_txns', NEW u \in usb_txns, t.id = u.id, t.cb = u.cb,
              t.iface = u.iface, t.value = u.value
       PROVE  /\ \A k \in DOMAIN to_stub' : to_stub'[k].id = t.id => Asks(t, to_stub'[k])
              /\ t.id \in urbs => t.cb = "xfer"
  <2>1. ASSUME NEW k \in 1 .. m + n, k > m, to_stub'[k].id = t.id
        PROVE  FALSE
    <3>1. t.id \in Nat /\ t.id < first
      BY <1>1, <1>10
    <3>2. t.id >= first
      BY <1>4, <2>1
    <3> QED BY <3>1, <3>2
  <2> QED BY <1>2, <1>3, <1>10, <2>1 DEF Matched, Asks
<1>11. ASSUME NEW t \in usb_txns', NEW j \in 1 .. n, t.id = sent[j].id, Asks(t, sent[j])
       PROVE  /\ \A k \in DOMAIN to_stub' : to_stub'[k].id = t.id => Asks(t, to_stub'[k])
              /\ t.id \in urbs => t.cb = "xfer"
  <2>1. t.id = first + j - 1 /\ t.id >= first
    BY <1>7, <1>11
  <2>2. t.id \notin urbs
    BY <1>1, <2>1 DEF Asked
  <2>3. ASSUME NEW k \in 1 .. m + n, to_stub'[k].id = t.id
        PROVE  Asks(t, to_stub'[k])
    <3>1. k > m
      BY <1>2, <1>3, <2>1, <2>3
    <3>2. k \notin 1 .. m
      BY <3>1
    <3>3. to_stub'[k] = sent[k - m] /\ to_stub'[k].id = first + (k - m) - 1
      BY <1>3, <3>2
    <3>4. first + (k - m) - 1 = first + j - 1
      BY <2>1, <2>3, <3>3
    <3>5. k - m = j
      <4>1. \A x \in Int : first + x - 1 = first + j - 1 => x = j
        OBVIOUS
      <4>2. k - m \in Int
        OBVIOUS
      <4> QED BY <3>4, <4>1, <4>2
    <3> QED BY <1>11, <3>3, <3>5
  <2> QED BY <1>3, <2>2, <2>3
<1>12. Matched'
  BY <1>10, <1>11 DEF Matched
<1> QED BY <1>9, <1>12

LEMMA QueueOrder ==
  ASSUME TypeOK, IdsApart, Matched, Ordered, Calls, NEW p \in Pages, QueuesCall(p), urbs' = urbs
  PROVE  Matched' /\ Ordered'
<1>1. PICK refs \in SUBSET transactions[p], type \in RequestTypes, cb \in Callbacks,
           iface \in Targets, value \in ConfigValues :
             Queue(p, refs, type, cb, iface, value) /\ Fits(cb, type)
  BY DEF QueuesCall
<1> DEFINE m == Request(type, next_id, iface, value)
           txn == [id |-> next_id, page |-> p, cb |-> cb, iface |-> iface,
                   value |-> value, alive |-> TRUE]
           sent == <<m>>
<1>2. next_id \in Nat
  BY DEF TypeOK, BgTypeOK
<1>3. m \in RequestMessage /\ m.id = next_id /\ txn.id = m.id /\ Asks(txn, m)
  BY <1>1, <1>2 DEF Request, RequestMessage, ConfigValues, Asks
<1>4. /\ to_stub' = Append(to_stub, m) /\ usb_txns' = MarkDead(refs) \cup {txn}
      /\ to_bg' = to_bg
  BY <1>1 DEF Queue
<1> HIDE DEF m, txn
<1>5. /\ sent \in Seq(RequestMessage) /\ Len(sent) = 1 /\ sent[1] = m
      /\ \A k \in 1 .. Len(sent) : sent[k].id = next_id + k - 1
  BY <1>2, <1>3
<1>a. to_stub' = to_stub \o sent
  BY <1>3, <1>4 DEF TypeOK
<1>6. \E k \in 1 .. Len(sent) : txn.id = sent[k].id /\ Asks(txn, sent[k])
  BY <1>3, <1>5
<1> HIDE DEF sent
<1>7. \A t \in MarkDead(refs) : \E u \in usb_txns :
        t.id = u.id /\ t.cb = u.cb /\ t.iface = u.iface /\ t.value = u.value
  BY MarkDeadProperties DEF Calls
<1>8. \A t \in usb_txns' :
        \/ \E u \in usb_txns : t.id = u.id /\ t.cb = u.cb /\ t.iface = u.iface /\ t.value = u.value
        \/ \E k \in 1 .. Len(sent) : t.id = sent[k].id /\ Asks(t, sent[k])
  BY <1>4, <1>6, <1>7
<1> QED BY <1>4, <1>5, <1>a, <1>8, PostOrder DEF Calls

\* The requests of a close: the releases in order, then the close itself.
LEMMA CloseRequestsShape ==
  ASSUME TypeOK, NEW p \in Pages, NEW ord \in Ascending(claimed_interfaces[p])
  PROVE  LET n == Cardinality(claimed_interfaces[p]) IN
           /\ n \in Nat /\ ord \in [1 .. n -> claimed_interfaces[p]]
           /\ Len(CloseRequests(ord)) \in {n, n + 1}
           /\ \A k \in 1 .. n :
                CloseRequests(ord)[k] = Request("ReleaseInterface", next_id + k - 1, ord[k], Unconfigured)
           /\ Len(CloseRequests(ord)) = n + 1 =>
                CloseRequests(ord)[n + 1] = Request("CloseDevice", next_id + n, DeviceTarget, Unconfigured)
<1> PICK n \in Nat : n = Cardinality(claimed_interfaces[p])
  <2>1. IsFiniteSet(claimed_interfaces[p])
    BY IfacesAssumption, FS_Subset DEF TypeOK, BgTypeOK
  <2> QED BY <2>1, FS_CardinalityType
<1> DEFINE release == [k \in 1 .. n |->
             Request("ReleaseInterface", next_id + k - 1, ord[k], Unconfigured)]
           close == Request("CloseDevice", next_id + n, DeviceTarget, Unconfigured)
<1>1. ord \in [1 .. n -> claimed_interfaces[p]]
  BY DEF Ascending
<1>2. Len(ord) = n
  BY <1>1
<1>3. CloseRequests(ord) = IF opened_count = 1 THEN Append(release, close) ELSE release
  BY <1>2 DEF CloseRequests
<1>4. release \in Seq(Range(release)) /\ Len(release) = n
  BY DEF Range
<1>5. /\ Len(Append(release, close)) = n + 1
      /\ Append(release, close)[n + 1] = close
      /\ \A k \in 1 .. n : Append(release, close)[k] = release[k]
  BY <1>4, AppendProperties
<1>6. \A k \in 1 .. n :
        release[k] = Request("ReleaseInterface", next_id + k - 1, ord[k], Unconfigured)
  OBVIOUS
<1> HIDE DEF release
<1> QED BY <1>1, <1>3, <1>4, <1>5, <1>6

LEMMA CloseOrder ==
  ASSUME TypeOK, IdsApart, Matched, Ordered, Calls, NEW p \in Pages, CloseDeviceOfPage(p),
         urbs' = urbs
  PROVE  Matched' /\ Ordered'
<1>1. PICK ord \in Ascending(claimed_interfaces[p]) : CloseDeviceOfPage(p)!(ord)
  BY DEF CloseDeviceOfPage
<1> DEFINE sent == CloseRequests(ord)
<1>2. /\ to_stub' = to_stub \o sent /\ to_bg' = to_bg
      /\ usb_txns' = MarkDead(Everything(p))
                       \cup {CloseTransaction(p, sent[k]) : k \in 1 .. Len(sent)}
  BY <1>1
<1>3. sent \in Seq(RequestMessage) /\ \A k \in 1 .. Len(sent) : sent[k].id = next_id + k - 1
  BY CloseRequestsIds
<1>4. \A k \in 1 .. Len(sent) : /\ sent[k].type \in {"ReleaseInterface", "CloseDevice"}
                                /\ sent[k].value = Unconfigured
  <2>a. PICK n \in Nat :
        /\ Len(sent) \in {n, n + 1}
        /\ \A k \in 1 .. n :
             sent[k] = Request("ReleaseInterface", next_id + k - 1, ord[k], Unconfigured)
        /\ Len(sent) = n + 1 =>
             sent[n + 1] = Request("CloseDevice", next_id + n, DeviceTarget, Unconfigured)
    BY CloseRequestsShape
  <2> HIDE DEF sent
  <2>1. \A k \in 1 .. Len(sent) : k \in 1 .. n \/ (k = n + 1 /\ Len(sent) = n + 1)
    BY <2>a
  <2>2. \A k \in 1 .. n : sent[k].type = "ReleaseInterface" /\ sent[k].value = Unconfigured
    <3>1. \A id, i : /\ Request("ReleaseInterface", id, i, Unconfigured).type = "ReleaseInterface"
                     /\ Request("ReleaseInterface", id, i, Unconfigured).value = Unconfigured
      BY DEF Request
    <3> QED BY <2>a, <3>1
  <2>3. Len(sent) = n + 1 =>
          sent[n + 1].type = "CloseDevice" /\ sent[n + 1].value = Unconfigured
    BY <2>a DEF Request
  <2> QED BY <2>1, <2>2, <2>3, <2>a
<1> HIDE DEF sent
<1>5. \A k \in 1 .. Len(sent) : /\ CloseTransaction(p, sent[k]).id = sent[k].id
                                /\ Asks(CloseTransaction(p, sent[k]), sent[k])
  BY <1>4 DEF CloseTransaction, Asks, Fits
<1>6. \A t \in MarkDead(Everything(p)) : \E u \in usb_txns :
        t.id = u.id /\ t.cb = u.cb /\ t.iface = u.iface /\ t.value = u.value
  BY MarkDeadProperties DEF Calls
<1>7. \A t \in usb_txns' :
        \/ \E u \in usb_txns : t.id = u.id /\ t.cb = u.cb /\ t.iface = u.iface /\ t.value = u.value
        \/ \E k \in 1 .. Len(sent) : t.id = sent[k].id /\ Asks(t, sent[k])
  BY <1>2, <1>5, <1>6
<1> QED BY <1>2, <1>3, <1>7, PostOrder DEF Calls

\* A message from the stub is taken in.
LEMMA ReceiveOrder ==
  ASSUME TypeOK, Matched, Ordered, to_bg # <<>>, to_bg' = Tail(to_bg),
         usb_txns' \subseteq usb_txns, UNCHANGED <<to_stub, urbs>>
  PROVE  Matched' /\ Ordered'
<1>1. \A k \in DOMAIN to_bg' : k + 1 \in DOMAIN to_bg /\ to_bg'[k] = to_bg[k + 1] /\ k \in Nat
  <2>1. to_bg \in Seq(ResponseMessage) /\ Tail(to_bg) \in Seq(ResponseMessage)
    BY HeadTailProperties DEF TypeOK
  <2> QED BY <2>1, TailElements, LenProperties
<1>2. \A k \in Controls' : k \in Nat /\ k + 1 \in Controls /\ to_bg'[k] = to_bg[k + 1]
  BY <1>1 DEF Controls, Replies
<1>3. \A j, k \in Nat : j < k => j + 1 < k + 1
  OBVIOUS
<1>4. Ordered'
  BY <1>2, <1>3 DEF Ordered
<1> QED BY <1>4 DEF Matched

\* The stub works on a request, or the kernel on a transfer.
LEMMA StubOrder ==
  ASSUME TypeOK, Matched, Ordered, StubNext, UNCHANGED bg_vars
  PROVE  Matched' /\ Ordered'
<1>1. /\ to_stub \in Seq(RequestMessage) /\ to_bg \in Seq(ResponseMessage) /\ urbs \subseteq Nat
      /\ usb_txns' = usb_txns
  BY DEF TypeOK, StubTypeOK, bg_vars, router_vars
<1>2. ASSUME to_stub # <<>>, to_stub' = Tail(to_stub)
      PROVE  /\ \A k \in DOMAIN to_stub' : /\ k \in Nat /\ k + 1 \in DOMAIN to_stub
                                           /\ 1 < k + 1 /\ to_stub'[k] = to_stub[k + 1]
             /\ 1 \in DOMAIN to_stub /\ Head(to_stub) = to_stub[1]
             /\ \A j, k \in DOMAIN to_stub' : j < k => to_stub'[j].id < to_stub'[k].id
             /\ \A k \in DOMAIN to_stub' : Head(to_stub).id < to_stub'[k].id
  <2>1. to_stub' \in Seq(RequestMessage)
    BY <1>1, <1>2, HeadTailProperties
  <2>2. \A k \in DOMAIN to_stub' : k \in Nat /\ k + 1 \in DOMAIN to_stub /\ to_stub'[k] = to_stub[k + 1]
    BY <1>1, <1>2, <2>1, TailElements, LenProperties
  <2>3. \A k \in DOMAIN to_stub' : 1 < k + 1
    BY <2>1, LenProperties
  <2>4. \A j, k \in Nat : j < k => j + 1 < k + 1
    OBVIOUS
  <2>5. 1 \in DOMAIN to_stub /\ Head(to_stub) = to_stub[1]
    BY <1>1, <1>2, TailElements
  <2> QED BY <2>2, <2>3, <2>4, <2>5 DEF Ordered
<1>3. ASSUME NEW id \in Nat, NEW ok \in BOOLEAN, to_bg' = Append(to_bg, Reply(id, ok))
      PROVE  \A k \in Controls' :
               \/ k \in Controls /\ to_bg'[k] = to_bg[k] /\ k < Len(to_bg) + 1
               \/ /\ k = Len(to_bg) + 1 /\ to_bg'[k].id = id
                  /\ \E t \in usb_txns : t.id = id /\ t.cb # "xfer"
  <2>1. Reply(id, ok) \in ResponseMessage /\ Reply(id, ok).id = id
    BY DEF Reply, ResponseMessage
  <2>2. \A k \in DOMAIN to_bg' :
          \/ k \in DOMAIN to_bg /\ to_bg'[k] = to_bg[k] /\ k < Len(to_bg) + 1
          \/ k = Len(to_bg) + 1 /\ to_bg'[k] = Reply(id, ok)
    BY <1>1, <1>3, <2>1, AppendElements
  <2> QED BY <1>1, <2>1, <2>2 DEF Controls, Replies
<1>4. Len(to_bg) \in Nat /\ \A k \in DOMAIN to_bg : k \in Nat /\ ~(Len(to_bg) + 1 < k)
  BY <1>1, LenProperties
<1>5. ASSUME to_stub # <<>>, urbs' = urbs, NEW ok \in BOOLEAN, AnswerNow(ok)
      PROVE  Matched' /\ Ordered'
  <2>1. /\ to_stub' = Tail(to_stub) /\ to_bg' = Append(to_bg, Reply(Head(to_stub).id, ok))
        /\ Head(to_stub).id \in Nat
    BY <1>5, AnswerType DEF AnswerNow, RequestMessage
  <2>2. \A j \in Controls : to_bg[j].id < Head(to_stub).id
    BY <1>2, <1>5, <2>1 DEF Ordered
  <2>3. \A k \in Controls' : \/ k \in Controls /\ to_bg'[k] = to_bg[k] /\ k < Len(to_bg) + 1
                             \/ k = Len(to_bg) + 1 /\ to_bg'[k].id = Head(to_stub).id
    BY <1>3, <2>1
  <2>4. \A j, k \in Controls' : j < k => to_bg'[j].id < to_bg'[k].id
    <3> SUFFICES ASSUME NEW j \in Controls', NEW k \in Controls', j < k
                 PROVE  to_bg'[j].id < to_bg'[k].id
      OBVIOUS
    <3>1. CASE j \in Controls /\ to_bg'[j] = to_bg[j] /\ k \in Controls /\ to_bg'[k] = to_bg[k]
      BY <3>1 DEF Ordered
    <3>2. CASE j \in Controls /\ to_bg'[j] = to_bg[j] /\ to_bg'[k].id = Head(to_stub).id
      BY <2>2, <3>2
    <3>3. j # Len(to_bg) + 1
      <4>1. k \in DOMAIN to_bg \/ k = Len(to_bg) + 1
        BY <2>3 DEF Controls, Replies
      <4> QED BY <1>4, <4>1
    <3> QED BY <2>3, <3>1, <3>2, <3>3
  <2>5. \A j \in Controls', k \in DOMAIN to_stub' : to_bg'[j].id < to_stub'[k].id
    <3> SUFFICES ASSUME NEW j \in Controls', NEW k \in DOMAIN to_stub'
                 PROVE  to_bg'[j].id < to_stub'[k].id
      OBVIOUS
    <3>1. Head(to_stub).id < to_stub'[k].id /\ k + 1 \in DOMAIN to_stub /\ to_stub'[k] = to_stub[k + 1]
      BY <1>2, <1>5, <2>1
    <3> QED BY <2>3, <3>1 DEF Ordered
  <2>6. Ordered'
    BY <1>2, <1>5, <2>1, <2>4, <2>5 DEF Ordered
  <2>7. Matched'
    BY <1>1, <1>2, <1>5, <2>1 DEF Matched
  <2> QED BY <2>6, <2>7
<1>6. ASSUME to_stub # <<>>, Head(to_stub).type = "Transfer", to_stub' = Tail(to_stub),
             urbs' = urbs \cup {Head(to_stub).id}, to_bg' = to_bg
      PROVE  Matched' /\ Ordered'
  <2>1. Controls' = Controls
    BY <1>1, <1>6 DEF Controls
  <2>2. Ordered'
    BY <1>2, <1>6, <2>1 DEF Ordered
  <2>3. \A t \in usb_txns : t.id = Head(to_stub).id => t.cb = "xfer"
    BY <1>2, <1>6 DEF Matched, Asks, Fits
  <2>4. Matched'
    BY <1>1, <1>2, <1>6, <2>3 DEF Matched
  <2> QED BY <2>2, <2>4
<1>7. CASE ReapUrb
  <2>1. PICK id \in urbs, ok \in BOOLEAN : /\ urbs' = urbs \ {id} /\ to_stub' = to_stub
                                           /\ to_bg' = Append(to_bg, Reply(id, ok))
    BY <1>7 DEF ReapUrb
  <2>2. \A k \in Controls' : k \in Controls /\ to_bg'[k] = to_bg[k]
    BY <1>1, <1>3, <2>1 DEF Matched
  <2> QED BY <1>1, <2>1, <2>2 DEF Matched, Ordered
<1>8. CASE to_bg' = Append(to_bg, UnplugEvent) /\ UNCHANGED <<to_stub, urbs>>
  <2>1. UnplugEvent \in ResponseMessage /\ ~IsReply(UnplugEvent)
    BY DEF UnplugEvent, ResponseMessage, IsReply
  <2>2. \A k \in Replies(to_bg') : k \in Replies(to_bg) /\ to_bg'[k] = to_bg[k]
    BY <1>1, <1>8, <2>1, AppendElements DEF Replies
  <2>3. \A k \in Controls' : k \in Controls /\ to_bg'[k] = to_bg[k]
    BY <1>1, <2>2 DEF Controls
  <2> QED BY <1>1, <1>8, <2>3 DEF Matched, Ordered
<1> QED BY <1>5, <1>6, <1>7, <1>8, StubShape


LEMMA NextOrder ==
  ASSUME TypeOK, IdsApart, Calls, Matched, Ordered, [Next]_vars
  PROVE  Matched' /\ Ordered'
<1>1. CASE UNCHANGED <<usb_txns, to_stub, to_bg, urbs>>
  BY <1>1 DEF Matched, Ordered, Controls
<1>2. CASE UNCHANGED vars
  BY <1>1, <1>2 DEF vars, bg_vars, router_vars, stub_vars
<1>3. CASE BgStep
  <2>1. urbs' = urbs /\ BgNext
    BY <1>3 DEF BgStep, stub_vars
  <2>2. ASSUME NEW m, Receive(m)
        PROVE  Matched' /\ Ordered'
    BY <2>1, <2>2, ReceiveOrder DEF Receive
  <2>3. CASE UnplugDevice
    BY <2>1, <2>3, ReceiveOrder DEF UnplugDevice
  <2> QED BY <1>1, <2>1, <2>2, <2>3, BackgroundShape, QueueOrder, CloseOrder
<1>4. CASE StubStep
  BY <1>4, StubOrder DEF StubStep
<1> QED BY <1>2, <1>3, <1>4 DEF Next

LEMMA InitOrder == Init => Matched /\ Ordered
<1> SUFFICES ASSUME Init PROVE Matched /\ Ordered
  OBVIOUS
<1>1. usb_txns = {} /\ DOMAIN to_stub = {} /\ DOMAIN to_bg = {}
  BY DEF Init, BgInit
<1> QED BY <1>1 DEF Matched, Ordered, Controls

\* When a request other than a transfer is the next to be carried out, those
\* posted before it have been answered.
LEMMA FirstRequest ==
  ASSUME TypeOK, IdsApart, Matched, Ordered, to_stub # <<>>,
         NEW t \in usb_txns, t.cb # "xfer", t.id < Head(to_stub).id
  PROVE  t.id \in Answering
<1>1. to_stub \in Seq(RequestMessage) /\ 1 \in DOMAIN to_stub /\ Head(to_stub) = to_stub[1]
  BY TailElements DEF TypeOK
<1>2. t.id \in Asked \cup Answering
  BY DEF IdsApart, TxnIds
<1>3. t.id \notin urbs
  BY DEF Matched
<1>4. ASSUME NEW k \in DOMAIN to_stub, to_stub[k].id = t.id
      PROVE  FALSE
  <2>1. to_stub[k] \in RequestMessage /\ to_stub[1] \in RequestMessage /\ (k = 1 \/ 1 < k)
    BY <1>1, LenProperties, ElementOfSeq
  <2>2. k # 1
    BY <1>1, <1>4, <2>1 DEF RequestMessage
  <2>3. to_stub[1].id < to_stub[k].id
    BY <1>1, <2>1, <2>2 DEF Ordered
  <2> QED BY <1>1, <1>4, <2>1, <2>3 DEF RequestMessage
<1> QED BY <1>2, <1>3, <1>4 DEF Asked, SeqIds

\* When the answer to a request other than a transfer is the next to be taken
\* in, none posted before it is under way.
LEMMA FirstAnswer ==
  ASSUME TypeOK, IdsApart, Matched, Ordered, to_bg # <<>>, IsReply(Head(to_bg)),
         NEW u \in usb_txns, u.cb # "xfer", u.id = Head(to_bg).id,
         NEW t \in usb_txns, t.cb # "xfer"
  PROVE  ~(t.id < u.id)
<1> SUFFICES ASSUME t.id < u.id PROVE FALSE
  OBVIOUS
<1>1. to_bg \in Seq(ResponseMessage) /\ 1 \in DOMAIN to_bg /\ Head(to_bg) = to_bg[1]
  BY TailElements DEF TypeOK
<1>2. 1 \in Controls /\ t.id \in Nat /\ u.id \in Nat
  BY <1>1 DEF Controls, Replies, TypeOK, BgTypeOK, PageTransaction
<1>3. t.id \in Asked \cup Answering /\ t.id \notin urbs
  BY DEF IdsApart, TxnIds, Matched
<1>4. ASSUME NEW k \in DOMAIN to_stub, to_stub[k].id = t.id
      PROVE  FALSE
  BY <1>1, <1>2, <1>4 DEF Ordered
<1>5. ASSUME NEW k \in Replies(to_bg), to_bg[k].id = t.id
      PROVE  FALSE
  <2>1. k \in Controls /\ (k = 1 \/ 1 < k)
    BY <1>1, <1>5, LenProperties DEF Controls, Replies
  <2> QED BY <1>1, <1>2, <1>5, <2>1 DEF Ordered
<1> QED BY <1>3, <1>4, <1>5 DEF Asked, SeqIds, Answering, ReplyIds

--------------------------------------------------------------------------------
(* Agreement of the copies.  One page shares the device with nobody, awaits *)
(* each call before the next, and the device, while connected, refuses      *)
(* nothing.  Then at most one call is under way, behind at most the         *)
(* requests of one close, and what the stub has done but not yet reported   *)
(* is all that tells its state from the background script's.                *)

OnePage == \A p, q \in Pages : p = q

\* The transactions of a close belong to no call.
Closing == {"close_release", "close"}

\* The success of transaction t is on its way.
Confirmed(s, t) == \E k \in DOMAIN s : s[k] = Reply(t.id, TRUE)

\* What the stub has done and the background script has yet to hear of.
Effects ==
  {t \in usb_txns :
     /\ t.cb \in {"set_config", "claim_interface", "release_interface", "close_release"}
     /\ Confirmed(to_bg, t)}

\* The effect of t ends a claim of interface i.
Ends(t, i) ==
  \/ t.cb = "set_config"
  \/ t.cb \in {"release_interface", "close_release"} /\ t.iface = i

\* At most one call is under way, nothing was aborted, and the transactions of
\* a close are followed by no call but an open.
Alone ==
  /\ \A k \in DOMAIN to_bg : IsReply(to_bg[k])
  /\ \A t \in usb_txns : t.alive
  /\ \A p \in Pages : opened_count = IF opened[p] THEN 1 ELSE 0
  /\ \A p \in pages : \A t \in usb_txns : t.cb \notin Closing => t.id \in outstanding[p]
  /\ \A t, u \in usb_txns : t.cb \notin Closing /\ u.cb \notin Closing => t = u
  /\ \A t, u \in usb_txns :
       t.cb \in Closing /\ u.cb \notin Closing => u.cb = "open" /\ t.id < u.id
  /\ \A p \in Pages, t \in usb_txns : opened[p] <=> t.cb \notin Closing \cup {"open"}
  /\ \A t \in usb_txns : t.cb \in {"claim_interface", "release_interface"} => t.iface \in Ifaces

\* A closed page's claims are those whose release is under way; none fails.
CloseBatch ==
  /\ \A t \in usb_txns :
       t.cb = "close_release" =>
         /\ t.iface \in claimed_interfaces[t.page]
         /\ \A k \in DOMAIN to_bg : to_bg[k] # Reply(t.id, FALSE)
  /\ \A t, u \in usb_txns :
       t.cb = "close_release" /\ u.cb = "close_release" /\ t.iface = u.iface => t = u
  /\ \A t, u \in usb_txns : t.cb = "close" /\ u.cb = "close_release" => u.id < t.id
  /\ \A p \in Pages : ~opened[p] =>
       \A i \in claimed_interfaces[p] :
         \E t \in usb_txns : t.cb = "close_release" /\ t.iface = i
  /\ \A p \in pages : view_claimed[p] = IF opened[p] THEN claimed_interfaces[p] ELSE {}

\* The stub's state is the background script's and the effects.
Follows ==
  /\ \A p \in Pages, i \in Ifaces :
       i \in StubClaimed <=>
         \/ i \in claimed_interfaces[p] /\ \A t \in Effects : ~Ends(t, i)
         \/ \E t \in Effects : t.cb = "claim_interface" /\ t.iface = i
  /\ \A t \in Effects : t.cb = "set_config" => stub_config = t.value
  /\ (\A t \in Effects : t.cb # "set_config") => stub_config = current_config

Settling == Alone /\ CloseBatch /\ Follows
Polite == stub_dev = "present" => Settling

\* What is known of every behaviour.
Known == IInv /\ IdsApart /\ Matched /\ Ordered

\* The effects are those it had while it takes in a reply, but for that reply's.
LEMMA EffectsTaken ==
  ASSUME Known, NEW t \in usb_txns, NEW ok \in BOOLEAN, Receive(Reply(t.id, ok))
  PROVE  /\ usb_txns' = usb_txns \ {t}
         /\ Effects' = Effects \ {t}
         /\ ~ok => t \notin Effects
         /\ \A k \in DOMAIN to_bg' : \E j \in DOMAIN to_bg : to_bg'[k] = to_bg[j]
         /\ to_bg # <<>> /\ Head(to_bg) = Reply(t.id, ok) /\ 1 \in DOMAIN to_bg
         /\ to_bg[1] = Reply(t.id, ok)
<1>1. /\ to_bg # <<>> /\ to_bg' = Tail(to_bg) /\ Reply(t.id, ok) = Head(to_bg)
      /\ usb_txns' = {u \in usb_txns : u.id # Reply(t.id, ok).id}
  BY DEF Receive
<1>2. \A id, b : Reply(id, b).id = id /\ IsReply(Reply(id, b))
  BY DEF Reply, IsReply
<1>3. usb_txns' = usb_txns \ {t}
  BY <1>1, <1>2 DEF Known, IInv, Calls, IdsUnique
<1>4. /\ \A k \in DOMAIN to_bg' : k + 1 \in DOMAIN to_bg /\ to_bg'[k] = to_bg[k + 1]
      /\ \A k \in DOMAIN to_bg : k = 1 \/ (k - 1 \in DOMAIN to_bg' /\ to_bg'[k - 1] = to_bg[k])
      /\ 1 \in DOMAIN to_bg /\ Head(to_bg) = to_bg[1]
  BY <1>1, TailElements DEF Known, IInv, TypeOK
<1>b. to_bg[1] = Reply(t.id, ok)
  BY <1>1, <1>4, Zenon
<1>5. \A u \in usb_txns' : Confirmed(to_bg', u) <=> Confirmed(to_bg, u)
  <2> SUFFICES ASSUME NEW u \in usb_txns, u.id # t.id
               PROVE  Confirmed(to_bg', u) <=> Confirmed(to_bg, u)
    BY <1>1, <1>2
  <2>a. Reply(t.id, ok).id = t.id /\ Reply(u.id, TRUE).id = u.id
    BY DEF Reply
  <2>1. to_bg[1] # Reply(u.id, TRUE)
    BY <1>b, <2>a
  <2>2. ASSUME NEW k \in DOMAIN to_bg', to_bg'[k] = Reply(u.id, TRUE)
        PROVE  \E j \in DOMAIN to_bg : to_bg[j] = Reply(u.id, TRUE)
    BY <1>4, <2>2, Zenon
  <2>3. ASSUME NEW k \in DOMAIN to_bg, to_bg[k] = Reply(u.id, TRUE)
        PROVE  \E j \in DOMAIN to_bg' : to_bg'[j] = Reply(u.id, TRUE)
    BY <1>4, <2>1, <2>3, Zenon
  <2> QED BY <2>2, <2>3, Zenon DEF Confirmed
<1>6. ASSUME ~ok, Confirmed(to_bg, t)
      PROVE  FALSE
  <2>1. PICK k \in DOMAIN to_bg : to_bg[k] = Reply(t.id, TRUE)
    BY <1>6 DEF Confirmed
  <2>a. /\ Reply(t.id, ok).id = t.id /\ Reply(t.id, TRUE).id = t.id
        /\ IsReply(Reply(t.id, ok)) /\ IsReply(Reply(t.id, TRUE))
    BY DEF Reply, IsReply
  <2>b. k \in Replies(to_bg) /\ 1 \in Replies(to_bg) /\ to_bg[k].id = to_bg[1].id
    <3>1. to_bg[k].id = t.id /\ to_bg[1].id = t.id
      BY <1>b, <2>1, <2>a, Zenon
    <3>2. IsReply(to_bg[k]) /\ IsReply(to_bg[1])
      BY <1>b, <2>1, <2>a, Zenon
    <3> QED BY <1>4, <3>1, <3>2 DEF Replies
  <2>2. k = 1
    BY <2>b DEF Known, IdsApart, RepliesDistinct
  <2> QED BY <1>1, <1>4, <1>6, <2>1, <2>2 DEF Reply
<1>7. Effects' = Effects \ {t}
  BY <1>3, <1>5 DEF Effects
<1> QED BY <1>1, <1>3, <1>4, <1>6, <1>7 DEF Effects

\* The stub's reply adds the effect of its request, if it succeeded.
LEMMA EffectsGiven ==
  ASSUME Known, NEW t \in usb_txns, NEW ok \in BOOLEAN,
         to_bg' = Append(to_bg, Reply(t.id, ok)), usb_txns' = usb_txns
  PROVE  /\ \A u \in usb_txns : u \in Effects' <=> u \in Effects \/ (u = t /\ ok /\ t.cb \in
              {"set_config", "claim_interface", "release_interface", "close_release"})
         /\ Effects \subseteq usb_txns /\ Effects' \subseteq usb_txns
         /\ \A k \in DOMAIN to_bg' : \/ k \in DOMAIN to_bg /\ to_bg'[k] = to_bg[k]
                                     \/ to_bg'[k] = Reply(t.id, ok)
<1>1. /\ \A k \in DOMAIN to_bg' : \/ k \in DOMAIN to_bg /\ to_bg'[k] = to_bg[k]
                                  \/ to_bg'[k] = Reply(t.id, ok)
      /\ \A k \in DOMAIN to_bg : k \in DOMAIN to_bg' /\ to_bg'[k] = to_bg[k]
      /\ \E k \in DOMAIN to_bg' : to_bg'[k] = Reply(t.id, ok)
  <2>1. to_bg \in Seq(ResponseMessage) /\ t.id \in Nat
    BY DEF Known, IInv, TypeOK, BgTypeOK, PageTransaction
  <2>2. Reply(t.id, ok) \in ResponseMessage
    BY <2>1 DEF Reply, ResponseMessage
  <2>3. to_bg'[Len(to_bg) + 1] = Reply(t.id, ok)
    BY <2>1, <2>2, AppendProperties
  <2> QED BY <2>1, <2>2, <2>3, AppendElements
<1>2. \A u \in usb_txns : Reply(t.id, ok) = Reply(u.id, TRUE) <=> u = t /\ ok
  BY DEF Reply, Known, IInv, Calls, IdsUnique
<1>3. \A u \in usb_txns : Confirmed(to_bg', u) <=> Confirmed(to_bg, u) \/ (u = t /\ ok)
  BY <1>1, <1>2 DEF Confirmed
<1> QED BY <1>1, <1>3 DEF Effects

\* A transaction whose request is not yet answered has had no effect, and any
\* reply on its way has its transaction.
LEMMA EffectsAnswered ==
  ASSUME Known
  PROVE  /\ \A t \in Effects : t.id \in Answering
         /\ \A k \in DOMAIN to_bg : IsReply(to_bg[k]) => \E t \in usb_txns : t.id = to_bg[k].id
<1>1. ASSUME NEW t \in Effects
      PROVE  t.id \in Answering
  <2>1. PICK k \in DOMAIN to_bg : to_bg[k] = Reply(t.id, TRUE)
    BY DEF Effects, Confirmed
  <2> QED BY <2>1 DEF Answering, ReplyIds, Replies, Reply, IsReply
<1> QED BY <1>1 DEF Known, IdsApart, Answering, ReplyIds, Replies, TxnIds

\* The transaction of the request that is next to be carried out.
LEMMA NextRequest ==
  ASSUME Known, to_stub # <<>>
  PROVE  /\ Head(to_stub) \in RequestMessage
         /\ \E t \in usb_txns : /\ t.id = Head(to_stub).id /\ Asks(t, Head(to_stub))
                                /\ t \notin Effects /\ t.page \in Pages
<1>1. /\ to_stub \in Seq(RequestMessage) /\ 1 \in DOMAIN to_stub
      /\ Head(to_stub) = to_stub[1] /\ Head(to_stub) \in RequestMessage
  BY TailElements, AnswerType DEF Known, IInv, TypeOK
<1>2. Head(to_stub).id \in Asked
  BY <1>1 DEF Asked, SeqIds
<1>3. PICK t \in usb_txns : t.id = Head(to_stub).id
  BY <1>2 DEF Known, IdsApart, TxnIds
<1>4. t \notin Effects
  BY <1>2, <1>3, EffectsAnswered DEF Known, IdsApart
<1>5. Asks(t, Head(to_stub)) /\ t.page \in Pages
  BY <1>1, <1>3 DEF Known, Matched, IInv, TypeOK, BgTypeOK, PageTransaction
<1> QED BY <1>1, <1>3, <1>4, <1>5

\* A call other than an open is alone.
LEMMA OnlyCall ==
  ASSUME Alone, NEW t \in usb_txns, t.cb \notin Closing \cup {"open"}
  PROVE  usb_txns = {t}
BY DEF Alone

\* When a close reaches the stub, every interface has been released.
LEMMA NothingClaimed ==
  ASSUME Known, OnePage, Settling, to_stub # <<>>,
         NEW t \in usb_txns, t.cb = "close", t.id = Head(to_stub).id
  PROVE  StubClaimed = {}
<1> SUFFICES ASSUME NEW i \in StubClaimed PROVE FALSE
  OBVIOUS
<1>1. i \in Ifaces /\ t.page \in Pages
  BY DEF StubClaimed, Known, IInv, TypeOK, BgTypeOK, PageTransaction
<1> PICK p \in Pages : p = t.page
  BY <1>1
<1>2. ~opened[p] /\ t.cb \in Closing
  BY DEF Settling, Alone, Closing
<1>3. ~\E u \in Effects : u.cb = "claim_interface" /\ u.iface = i
  BY <1>2 DEF Effects, Settling, Alone, Closing
<1>4. i \in claimed_interfaces[p] /\ \A u \in Effects : ~Ends(u, i)
  BY <1>1, <1>3 DEF Settling, Follows
<1>5. PICK u \in usb_txns : u.cb = "close_release" /\ u.iface = i
  BY <1>2, <1>4 DEF Settling, CloseBatch
<1>6. u.id \in Answering
  <2>1. u.id < t.id /\ u.cb # "xfer"
    BY <1>5 DEF Settling, CloseBatch
  <2> QED BY <2>1, FirstRequest DEF Known, IInv
<1>7. PICK k \in Replies(to_bg) : to_bg[k].id = u.id
  BY <1>6 DEF Answering, ReplyIds
<1>8. to_bg[k] = Reply(u.id, TRUE) \/ to_bg[k] = Reply(u.id, FALSE)
  <2>1. to_bg[k] \in ResponseMessage /\ IsReply(to_bg[k])
    BY <1>7 DEF Replies, Known, IInv, TypeOK
  <2> QED BY <1>7, <2>1 DEF ResponseMessage, IsReply, Reply
<1>9. u \in Effects
  BY <1>5, <1>7, <1>8 DEF Effects, Confirmed, Replies, Settling, CloseBatch
<1> QED BY <1>4, <1>5, <1>9 DEF Ends

\* A reply sent changes nothing in the background script.
LEMMA AnswerSettling ==
  ASSUME Known, Settling, NEW t \in usb_txns, NEW ok \in BOOLEAN, UNCHANGED bg_vars,
         to_bg' = Append(to_bg, Reply(t.id, ok)), t.cb = "close_release" => ok
  PROVE  Alone' /\ CloseBatch'
<1> USE DEF bg_vars, router_vars, device_vars, page_dev_vars, view_vars
<1>1. \A k \in DOMAIN to_bg' : \/ k \in DOMAIN to_bg /\ to_bg'[k] = to_bg[k]
                               \/ to_bg'[k] = Reply(t.id, ok)
  BY EffectsGiven
<1>2. IsReply(Reply(t.id, ok))
  BY DEF Reply, IsReply
<1>3. Alone'
  <2>1. \A k \in DOMAIN to_bg' : IsReply(to_bg'[k])
    BY <1>1, <1>2 DEF Settling, Alone
  <2> QED BY <2>1 DEF Settling, Alone
<1>4. ASSUME NEW u \in usb_txns, u.cb = "close_release", NEW k \in DOMAIN to_bg',
             to_bg'[k] = Reply(u.id, FALSE)
      PROVE  FALSE
  <2>1. CASE k \in DOMAIN to_bg /\ to_bg'[k] = to_bg[k]
    <3>1. \A j \in DOMAIN to_bg : to_bg[j] # Reply(u.id, FALSE)
      BY <1>4 DEF Settling, CloseBatch
    <3> QED BY <1>4, <2>1, <3>1, Zenon
  <2>2. CASE to_bg'[k] = Reply(t.id, ok)
    <3>1. Reply(t.id, ok) = Reply(u.id, FALSE)
      BY <1>4, <2>2
    <3>2. t.id = u.id /\ ~ok
      BY <3>1 DEF Reply
    <3> QED BY <1>4, <3>2 DEF Known, IInv, Calls, IdsUnique
  <2> QED BY <1>1, <2>1, <2>2
<1>5. CloseBatch'
  BY <1>4 DEF Settling, CloseBatch
<1> QED BY <1>3, <1>5

\* A step that changes neither end's state and has no effect.
LEMMA NoEffect ==
  ASSUME Settling, Effects' = Effects,
         UNCHANGED <<if_state, stub_config, claimed_interfaces, current_config>>
  PROVE  Follows'
BY DEF Settling, Follows, StubClaimed, Ends

\* The connected stub carries out a request, or reaps a transfer.
LEMMA StubSettling ==
  ASSUME ~IoctlMayFail, OnePage, Known, Settling, StubNext, UNCHANGED bg_vars,
         stub_dev = "present", stub_dev' = "present"
  PROVE  Settling'
<1>1. usb_txns' = usb_txns /\ UNCHANGED <<claimed_interfaces, current_config>>
  BY DEF bg_vars, router_vars, device_vars, page_dev_vars
<1>2. IoctlResults = {TRUE} /\ if_state \in [Ifaces -> IfStates]
  BY DEF IoctlResults, Known, IInv, TypeOK, StubTypeOK
<1>a. Effects \subseteq usb_txns
  BY DEF Effects
<1>3. ASSUME NEW t \in usb_txns, NEW ok \in BOOLEAN, to_bg' = Append(to_bg, Reply(t.id, ok)),
             t.cb = "close_release" => ok,
             ~ok \/ t.cb \notin {"set_config", "claim_interface", "release_interface",
                                 "close_release"},
             UNCHANGED <<if_state, stub_config>>
      PROVE  Settling'
  <2>1. Effects' = Effects
    BY <1>1, <1>3, EffectsGiven
  <2> QED BY <1>1, <1>3, <2>1, AnswerSettling, NoEffect DEF Settling
<1>4. ASSUME NEW t \in usb_txns, to_bg' = Append(to_bg, Reply(t.id, TRUE)),
             t.cb \in {"set_config", "claim_interface", "release_interface", "close_release"}
      PROVE  Effects' = Effects \cup {t} /\ Alone' /\ CloseBatch'
  <2>1. \A u \in usb_txns : u \in Effects' <=> u \in Effects \/ u = t
    BY <1>1, <1>4, EffectsGiven
  <2>2. Effects \subseteq usb_txns /\ Effects' \subseteq usb_txns
    BY <1>1, <1>4, EffectsGiven
  <2> QED BY <1>4, <2>1, <2>2, AnswerSettling
<1>5. ASSUME to_stub # <<>>
      PROVE  \E t \in usb_txns : /\ t.id = Head(to_stub).id /\ Asks(t, Head(to_stub))
                                 /\ t \notin Effects /\ t.page \in Pages
  BY <1>5, NextRequest
<1> USE DEF Receiving, AnswerNow
<1>6. CASE OpenDevice
  <2>1. PICK t \in usb_txns : t.id = Head(to_stub).id /\ Asks(t, Head(to_stub))
    BY <1>5, <1>6 DEF OpenDevice
  <2>2. t.cb = "open"
    BY <1>6, <2>1 DEF OpenDevice, Asks, Fits
  <2> QED BY <1>3, <1>6, <2>1, <2>2 DEF OpenDevice
<1>7. CASE CloseDevice
  <2>1. PICK t \in usb_txns : t.id = Head(to_stub).id /\ Asks(t, Head(to_stub))
    BY <1>5, <1>7 DEF CloseDevice
  <2>2. t.cb = "close"
    BY <1>7, <2>1 DEF CloseDevice, Asks, Fits
  <2>3. StubClaimed = {}
    BY <1>7, <2>1, <2>2, NothingClaimed DEF CloseDevice
  <2>4. PICK released \in IF stub_opened THEN SUBSET StubClaimed ELSE {{}} :
          /\ if_state' = [i \in Ifaces |-> IF i \in released THEN "free" ELSE if_state[i]]
          /\ AnswerNow(stub_opened /\ released = StubClaimed)
    BY <1>7 DEF CloseDevice
  <2>5. released = {}
    BY <2>3
  <2>6. if_state' = if_state
    BY <1>2, <2>4, <2>5
  <2>7. stub_config' = stub_config
    BY <1>7 DEF CloseDevice
  <2> PICK ok \in BOOLEAN : ok = (stub_opened /\ released = StubClaimed)
    OBVIOUS
  <2> QED BY <1>3, <2>1, <2>2, <2>4, <2>6, <2>7
<1>8. CASE ResetDevice \/ SetAltOrClearHalt
  <2>1. to_stub # <<>> /\ Head(to_stub).type \in {"ResetDevice", "SetAltInterface", "ClearHalt"}
    BY <1>8 DEF ResetDevice, SetAltOrClearHalt
  <2>2. PICK t \in usb_txns : t.id = Head(to_stub).id /\ Asks(t, Head(to_stub))
    BY <1>5, <2>1
  <2>3. t.cb \notin {"set_config", "claim_interface", "release_interface", "close_release"}
    BY <2>1, <2>2 DEF Asks, Fits
  <2>4. \E ok \in BOOLEAN : AnswerNow(ok)
    BY <1>2, <1>8 DEF ResetDevice, SetAltOrClearHalt
  <2>5. UNCHANGED <<if_state, stub_config>>
    BY <1>8 DEF ResetDevice, SetAltOrClearHalt, stub_vars
  <2> QED BY <1>3, <2>2, <2>3, <2>4, <2>5
<1>9. CASE SetConfiguration
  <2>1. PICK t \in usb_txns : /\ t.id = Head(to_stub).id /\ Asks(t, Head(to_stub))
                              /\ t \notin Effects
    BY <1>5, <1>9 DEF SetConfiguration
  <2>2. t.cb = "set_config" /\ t.value = Head(to_stub).value
    BY <1>9, <2>1 DEF SetConfiguration, Asks, Fits
  <2>3. CASE ~stub_opened
    <3>1. AnswerNow(FALSE) /\ UNCHANGED <<if_state, stub_config>>
      BY <1>9, <2>3 DEF SetConfiguration
    <3> QED BY <1>3, <2>1, <2>2, <3>1
  <2>4. CASE stub_opened
    <3>1. /\ AnswerNow(TRUE) /\ stub_config' = t.value
          /\ if_state' = Probed(t.value)
      BY <1>2, <1>9, <2>2, <2>4 DEF SetConfiguration
    <3>2. Effects' = Effects \cup {t} /\ Alone' /\ CloseBatch'
      BY <1>4, <2>1, <2>2, <3>1
    <3>3. usb_txns = {t}
      BY <2>2, OnlyCall DEF Closing, Settling
    <3>4. Effects' = {t}
      BY <1>a, <3>2, <3>3
    <3>5. StubClaimed' = {}
      BY <3>1 DEF StubClaimed, Probed
    <3>6. Follows'
      BY <2>2, <3>1, <3>4, <3>5 DEF Follows, Ends
    <3> QED BY <3>2, <3>6 DEF Settling
  <2> QED BY <2>3, <2>4
<1>10. CASE ClaimInterface
  <2>1. PICK t \in usb_txns : /\ t.id = Head(to_stub).id /\ Asks(t, Head(to_stub))
                              /\ t \notin Effects
    BY <1>5, <1>10 DEF ClaimInterface
  <2>2. t.cb = "claim_interface" /\ t.iface = Head(to_stub).iface
    BY <1>10, <2>1 DEF ClaimInterface, Asks, Fits
  <2>3. usb_txns = {t} /\ t.iface \in Ifaces
    BY <2>2, OnlyCall DEF Closing, Settling, Alone
  <2>4. Effects = {}
    BY <1>a, <2>1, <2>3
  <2>5. CASE AnswerNow(FALSE) /\ UNCHANGED <<if_state, stub_config>>
    BY <1>3, <2>1, <2>2, <2>5
  <2>6. CASE /\ AnswerNow(TRUE) /\ stub_config' = stub_config
             /\ StubClaimed' = StubClaimed \cup {t.iface}
    <3>1. Effects' = {t} /\ Alone' /\ CloseBatch'
      BY <1>4, <2>1, <2>2, <2>4, <2>6
    <3>2. Follows'
      BY <1>1, <2>2, <2>4, <2>6, <3>1 DEF Follows, Ends, Settling
    <3> QED BY <3>1, <3>2 DEF Settling
  <2>7. \/ AnswerNow(FALSE) /\ UNCHANGED <<if_state, stub_config>>
        \/ /\ AnswerNow(TRUE) /\ stub_config' = stub_config
           /\ StubClaimed' = StubClaimed \cup {t.iface}
    <3>1. CASE stub_opened /\ if_state[t.iface] = "free"
      <4>1. /\ if_state' = [if_state EXCEPT ![t.iface] = "claimed"]
            /\ AnswerNow(TRUE) /\ stub_config' = stub_config
        BY <1>2, <1>10, <2>2, <3>1 DEF ClaimInterface
      <4>2. StubClaimed' = StubClaimed \cup {t.iface}
        BY <1>2, <2>3, <4>1 DEF StubClaimed
      <4> QED BY <4>1, <4>2
    <3>2. CASE ~(stub_opened /\ if_state[t.iface] = "free")
      <4>1. /\ if_state' = if_state /\ stub_config' = stub_config
            /\ AnswerNow(stub_opened /\ if_state[t.iface] = "claimed")
        BY <1>10, <2>2, <3>2 DEF ClaimInterface
      <4>2. CASE stub_opened /\ if_state[t.iface] = "claimed"
        <5>1. StubClaimed' = StubClaimed \cup {t.iface}
          BY <2>3, <4>1, <4>2 DEF StubClaimed
        <5> QED BY <4>1, <4>2, <5>1
      <4>3. CASE ~(stub_opened /\ if_state[t.iface] = "claimed")
        BY <4>1, <4>3
      <4> QED BY <4>2, <4>3
    <3> QED BY <3>1, <3>2
  <2> QED BY <2>5, <2>6, <2>7
<1>11. CASE ReleaseInterface
  <2>1. PICK t \in usb_txns : /\ t.id = Head(to_stub).id /\ Asks(t, Head(to_stub))
                              /\ t \notin Effects /\ t.page \in Pages
    BY <1>5, <1>11 DEF ReleaseInterface
  <2>2. t.cb \in {"release_interface", "close_release"} /\ t.iface = Head(to_stub).iface
    BY <1>11, <2>1 DEF ReleaseInterface, Asks, Fits
  <2>3. ~\E u \in Effects : u.cb = "claim_interface" \/ u.cb = "set_config"
    BY <2>2 DEF Effects, Settling, Alone, Closing
  <2>4. t.iface \in Ifaces
    BY <2>1, <2>2 DEF Settling, Alone, CloseBatch, Known, IInv, TypeOK, BgTypeOK
  <2>5. CASE IfaceUsable(t.iface)
    <3>1. /\ if_state' = [if_state EXCEPT ![t.iface] = "free"]
          /\ AnswerNow(TRUE) /\ stub_config' = stub_config
      BY <1>2, <1>11, <2>2, <2>5 DEF ReleaseInterface
    <3>2. StubClaimed' = StubClaimed \ {t.iface}
      BY <1>2, <2>4, <3>1 DEF StubClaimed
    <3>3. Effects' = Effects \cup {t} /\ Alone' /\ CloseBatch'
      BY <1>4, <2>1, <2>2, <3>1
    <3>4. Follows'
      <4>1. ASSUME NEW p \in Pages, NEW i \in Ifaces
            PROVE  /\ ~\E u \in Effects' : u.cb = "claim_interface" /\ u.iface = i
                   /\ i \in StubClaimed' <=>
                        i \in claimed_interfaces[p] /\ \A u \in Effects' : ~Ends(u, i)
        <5>1. i \in StubClaimed <=> i \in claimed_interfaces[p] /\ \A u \in Effects : ~Ends(u, i)
          BY <2>3 DEF Settling, Follows
        <5>2. Ends(t, i) <=> i = t.iface
          BY <2>2 DEF Ends
        <5> QED BY <2>2, <2>3, <3>2, <3>3, <5>1, <5>2
      <4>2. stub_config = current_config /\ \A u \in Effects' : u.cb # "set_config"
        BY <2>2, <2>3, <3>3 DEF Settling, Follows
      <4> QED BY <1>1, <3>1, <4>1, <4>2 DEF Follows, Ends
    <3> QED BY <3>3, <3>4 DEF Settling
  <2>6. CASE ~IfaceUsable(t.iface)
    <3>1. AnswerNow(FALSE) /\ stub_config' = stub_config
      BY <1>11, <2>2, <2>6 DEF ReleaseInterface
    <3>2. if_state' = [if_state EXCEPT ![t.iface] = @]
      BY <1>11, <2>2, <2>6 DEF ReleaseInterface
    <3>3. if_state' = if_state
      BY <1>2, <2>4, <3>2
    <3>4. t.cb # "close_release"
      <4> SUFFICES ASSUME t.cb = "close_release" PROVE FALSE
        OBVIOUS
      <4>1. t.iface \in claimed_interfaces[t.page]
        BY DEF Settling, CloseBatch
      <4>2. \A u \in Effects : ~Ends(u, t.iface)
        <5> SUFFICES ASSUME NEW u \in Effects, Ends(u, t.iface) PROVE FALSE
          OBVIOUS
        <5>1. u.iface = t.iface /\ u.cb \in {"release_interface", "close_release"} /\ u \in usb_txns
          BY <2>3 DEF Ends, Effects
        <5>2. u.cb = "close_release"
          BY <5>1 DEF Settling, Alone, Closing
        <5> QED BY <2>1, <5>1, <5>2 DEF Settling, CloseBatch
      <4>3. t.iface \in StubClaimed
        BY <2>1, <2>4, <4>1, <4>2 DEF Settling, Follows
      <4> QED BY <2>6, <4>3 DEF IfaceUsable, StubClaimed, Known, IInv, Claims, ClaimsNeedOpen
    <3> QED BY <1>3, <2>1, <3>1, <3>3, <3>4
  <2> QED BY <2>5, <2>6
<1>12. CASE Transfer
  <2>1. PICK t \in usb_txns : t.id = Head(to_stub).id /\ Asks(t, Head(to_stub))
    BY <1>5, <1>12 DEF Transfer
  <2>2. t.cb = "xfer" /\ UNCHANGED <<if_state, stub_config>>
    BY <1>12, <2>1 DEF Transfer, Asks, Fits
  <2>3. CASE AnswerNow(FALSE)
    BY <1>3, <2>1, <2>2, <2>3
  <2>4. CASE to_bg' = to_bg
    <3>1. Effects' = Effects /\ Alone' /\ CloseBatch'
      BY <2>4 DEF Effects, Settling, Alone, CloseBatch, bg_vars, router_vars, device_vars,
                  page_dev_vars, view_vars
    <3> QED BY <1>1, <2>2, <3>1, NoEffect DEF Settling
  <2> QED BY <1>12, <2>3, <2>4 DEF Transfer
<1>13. CASE ReapUrb
  <2>1. PICK id \in urbs, ok \in BOOLEAN :
          to_bg' = Append(to_bg, Reply(id, ok)) /\ UNCHANGED <<if_state, stub_config>>
    BY <1>13 DEF ReapUrb
  <2>2. PICK t \in usb_txns : t.id = id
    BY DEF Known, IdsApart, Asked, TxnIds
  <2>3. t.cb = "xfer"
    BY <2>2 DEF Known, Matched
  <2> QED BY <1>3, <2>1, <2>2, <2>3
<1> QED
  BY <1>6, <1>7, <1>8, <1>9, <1>10, <1>11, <1>12, <1>13
  DEF StubNext, HandleStdin, DeviceNotFound, Unplugged, Destroyed

\* A page that makes a call or closes has no call under way, and if it has the
\* device open, nothing at all is.
LEMMA AwaitedCalls ==
  ASSUME OnePage, Known, Settling, NEW p \in Pages, AwaitsCalls(p), p \in pages,
         QueuesCall(p) \/ (CloseDeviceOfPage(p) /\ opened[p])
  PROVE  /\ transactions[p] = {}
         /\ \A t \in usb_txns : t.cb \in Closing
         /\ opened[p] => usb_txns = {}
<1> USE DEF Known, IInv, Calls
<1>1. outstanding[p] = Ids(transactions[p])
  BY DEF EveryCallHasOneRef
<1>2. to_bg' = to_bg
  BY DEF QueuesCall, Queue, CloseDeviceOfPage
<1>3. ~BgReceive
  <2> SUFFICES ASSUME BgReceive PROVE FALSE
    OBVIOUS
  <2>1. ASSUME NEW t, NEW cbs, NEW ok, Callback(t, cbs, ok)
        PROVE  to_bg # <<>> /\ to_bg' = Tail(to_bg)
    BY <2>1 DEF Callback, Receive
  <2>2. to_bg # <<>> /\ to_bg' = Tail(to_bg)
    BY <2>1 DEF BgReceive, StubReply, UnplugDevice, OnOpened, OnConfigSet, OnClaimed,
                OnReleased, OnDone, OnError, OnDeadReply, Receive
  <2>3. to_bg \in Seq(ResponseMessage)
    BY DEF TypeOK
  <2>4. Len(to_bg) \in Nat /\ Len(Tail(to_bg)) = Len(to_bg) - 1
    BY <2>2, <2>3, HeadTailProperties, LenProperties
  <2> QED BY <1>2, <2>2, <2>4
<1>4. ~(outstanding'[p] \subseteq outstanding[p] /\ opened'[p] = opened[p])
  <2>1. CASE QueuesCall(p)
    <3>1. next_id \in outstanding'[p]
      BY <2>1 DEF QueuesCall, Queue, TypeOK, BgTypeOK
    <3>2. next_id \notin outstanding[p]
      <4> SUFFICES ASSUME NEW r \in transactions[p], r.id = next_id PROVE FALSE
        BY <1>1 DEF Ids
      <4>1. PICK t \in usb_txns : t.id = next_id
        BY DEF RefsAreLive
      <4> QED BY <4>1 DEF IdsFresh, TypeOK, BgTypeOK
    <3> QED BY <3>1, <3>2
  <2>2. CASE CloseDeviceOfPage(p) /\ opened[p]
    <3>1. opened' = [opened EXCEPT ![p] = FALSE]
      BY <2>2 DEF CloseDeviceOfPage
    <3> QED BY <2>2, <3>1 DEF TypeOK, BgTypeOK
  <2> QED BY <2>1, <2>2
<1>5. outstanding[p] = {}
  BY <1>3, <1>4 DEF AwaitsCalls
<1>6. transactions[p] = {}
  BY <1>1, <1>5 DEF Ids
<1>7. \A t \in usb_txns : t.cb \in Closing
  BY <1>5 DEF Settling, Alone
<1>8. opened[p] => usb_txns = {}
  BY <1>7 DEF Settling, Alone
<1> QED BY <1>6, <1>7, <1>8

\* The page makes a call.
LEMMA QueueSettling ==
  ASSUME OnePage, Known, Settling, NEW p \in Pages, AwaitsCalls(p), QueuesCall(p),
         UNCHANGED stub_vars
  PROVE  Settling'
<1>1. PICK refs \in SUBSET transactions[p], type \in RequestTypes, cb \in Callbacks,
           iface \in Targets, value \in ConfigValues :
             /\ Queue(p, refs, type, cb, iface, value)
             /\ p \in pages
             /\ IF cb = "open" THEN ~opened[p] ELSE opened[p]
             /\ cb \notin Closing
             /\ cb \in {"claim_interface", "release_interface"} => iface \in Ifaces
             /\ QueueUnchanged
  BY DEF QueuesCall, Closing
<1> DEFINE txn == [id |-> next_id, page |-> p, cb |-> cb, iface |-> iface,
                   value |-> value, alive |-> TRUE]
<1>2. refs = {} /\ (\A t \in usb_txns : t.cb \in Closing) /\ (cb # "open" => usb_txns = {})
  BY <1>1, AwaitedCalls
<1>3. MarkDead(refs) = usb_txns
  BY <1>2 DEF MarkDead, Ids
<1>4. /\ usb_txns' = usb_txns \cup {txn} /\ to_bg' = to_bg
      /\ txn.id = next_id /\ txn.cb = cb /\ txn.iface = iface /\ txn.alive
  BY <1>1, <1>3 DEF Queue
<1> HIDE DEF txn
<1>5. outstanding' = [outstanding EXCEPT ![p] = @ \cup {next_id}]
  BY <1>1, <1>2 DEF Queue, Ids
<1>6. \A q \in Pages : q = p
  BY DEF OnePage
<1>7. UNCHANGED <<opened_count, opened, claimed_interfaces, view_claimed, pages, current_config>>
  BY <1>1 DEF QueueUnchanged, device_vars
<1>8. Effects' = Effects
  <2>1. ~Confirmed(to_bg, txn)
    <3> SUFFICES ASSUME NEW k \in DOMAIN to_bg, to_bg[k] = Reply(txn.id, TRUE) PROVE FALSE
      BY DEF Confirmed
    <3>1. IsReply(to_bg[k]) /\ to_bg[k].id = next_id
      BY <1>4 DEF Reply, IsReply
    <3>2. PICK t \in usb_txns : t.id = next_id
      BY <3>1, EffectsAnswered
    <3> QED BY <3>2 DEF Known, IInv, Calls, IdsFresh, TypeOK, BgTypeOK
  <2> QED BY <1>4, <2>1 DEF Effects
<1>9. Follows'
  BY <1>7, <1>8, NoEffect DEF stub_vars
<1>10. Alone'
  <2>1. \A q \in pages : \A t \in usb_txns' : t.cb \notin Closing => t.id \in outstanding'[q]
    BY <1>2, <1>4, <1>5, <1>6 DEF Known, IInv, TypeOK, BgTypeOK
  <2>2. \A t, u \in usb_txns' : t.cb \notin Closing /\ u.cb \notin Closing => t = u
    BY <1>2, <1>4
  <2>3. \A t, u \in usb_txns' :
          t.cb \in Closing /\ u.cb \notin Closing => u.cb = "open" /\ t.id < u.id
    BY <1>1, <1>2, <1>4 DEF Known, IInv, Calls, IdsFresh
  <2>4. \A q \in Pages, t \in usb_txns' : opened[q] <=> t.cb \notin Closing \cup {"open"}
    BY <1>1, <1>4, <1>6 DEF Settling, Alone
  <2>5. \A t \in usb_txns' : t.cb \in {"claim_interface", "release_interface"} => t.iface \in Ifaces
    BY <1>1, <1>4 DEF Settling, Alone
  <2>6. \A t \in usb_txns' : t.alive
    BY <1>4 DEF Settling, Alone
  <2> QED BY <1>4, <1>7, <2>1, <2>2, <2>3, <2>4, <2>5, <2>6 DEF Settling, Alone
<1>11. CloseBatch'
  <2>1. \A t \in usb_txns' : t.cb \in Closing => t \in usb_txns
    BY <1>1, <1>4
  <2> QED BY <1>4, <1>7, <2>1 DEF Settling, CloseBatch, Closing
<1> QED BY <1>9, <1>10, <1>11 DEF Settling

\* It makes a call that is settled at once, or goes away without having opened.
LEMMA IdleSettling ==
  ASSUME OnePage, Known, Settling, NEW p \in Pages, SettledAtOnce(p) \/ DisconnectIdle(p),
         UNCHANGED stub_vars
  PROVE  Settling'
<1> USE DEF router_vars, device_vars, page_dev_vars, view_vars
<1>1. ~OpenShared(p)
  BY DEF OpenShared, Settling, Alone
<1>2. /\ UNCHANGED <<usb_txns, to_bg, opened_count, opened, claimed_interfaces, current_config>>
      /\ pages' \subseteq pages
  BY <1>1 DEF SettledAtOnce, RequestDevice, OpenAgain, CloseAgain, ClaimAgain, ReleaseAgain,
              DisconnectIdle, PageGone
<1>3. Follows'
  BY <1>2, NoEffect DEF Effects, stub_vars
<1>4. \A q \in pages' : outstanding'[q] = outstanding[q]
  BY <1>1 DEF SettledAtOnce, RequestDevice, OpenAgain, CloseAgain, ClaimAgain, ReleaseAgain,
              DisconnectIdle, PageGone, Known, IInv, TypeOK, BgTypeOK
<1>5. Alone'
  BY <1>2, <1>4 DEF Settling, Alone
<1>6. \A q \in pages' : view_claimed'[q] = IF opened[q] THEN claimed_interfaces[q] ELSE {}
  <2>1. view_claimed \in [Pages -> SUBSET Ifaces] /\ pages \subseteq Pages
        /\ \A q \in Pages : q = p
    BY DEF Known, IInv, TypeOK, BgTypeOK, OnePage
  <2>2. \A q \in pages : view_claimed[q] = IF opened[q] THEN claimed_interfaces[q] ELSE {}
    BY DEF Settling, CloseBatch
  <2>3. CASE view_claimed' = view_claimed
    BY <1>2, <2>2, <2>3
  <2>4. CASE CloseAgain(p)
    BY <1>2, <2>1, <2>4 DEF CloseAgain
  <2>5. CASE \E i \in Ifaces : ClaimAgain(p, i) \/ ReleaseAgain(p, i)
    BY <1>2, <2>1, <2>2, <2>5 DEF ClaimAgain, ReleaseAgain, HasOpenDevice
  <2> QED BY <1>1, <2>3, <2>4, <2>5 DEF SettledAtOnce, RequestDevice, OpenAgain, DisconnectIdle,
                                       PageGone
<1>7. CloseBatch'
  BY <1>2, <1>6 DEF Settling, CloseBatch
<1> QED BY <1>3, <1>5, <1>7 DEF Settling

\* An ascending enumeration of a finite set visits each element once.
LEMMA AscendingVisits ==
  ASSUME NEW S, S \subseteq Nat, IsFiniteSet(S), NEW ord \in Ascending(S)
  PROVE  /\ \A j, k \in 1 .. Cardinality(S) : ord[j] = ord[k] => j = k
         /\ \A i \in S : \E k \in 1 .. Cardinality(S) : ord[k] = i
<1> PICK n \in Nat : n = Cardinality(S)
  BY FS_CardinalityType
<1>1. ord \in [1 .. n -> S] /\ \A j, k \in 1 .. n : j < k => ord[j] < ord[k]
  BY DEF Ascending
<1>2. \A j, k \in 1 .. n : ord[j] = ord[k] => j = k
  <2>1. \A j, k \in 1 .. n : j < k \/ k < j \/ j = k
    OBVIOUS
  <2>2. \A k \in 1 .. n : ~(ord[k] < ord[k])
    <3>1. \A k \in 1 .. n : ord[k] \in Nat
      BY <1>1
    <3>2. \A x \in Nat : ~(x < x)
      OBVIOUS
    <3> QED BY <3>1, <3>2
  <2> QED BY <1>1, <2>1, <2>2
<1>3. ord \in Injection(1 .. n, S)
  BY <1>1, <1>2 DEF Injection, IsInjective
<1>4. Cardinality(1 .. n) = n
  BY FS_Interval
<1>5. ord \in Surjection(1 .. n, S)
  BY <1>3, <1>4, FS_Injection
<1> QED BY <1>2, <1>5 DEF Surjection

\* The page closes the device, or goes away with it open.
LEMMA CloseSettling ==
  ASSUME OnePage, Known, Settling, NEW p \in Pages, AwaitsCalls(p), p \in pages, opened[p],
         CloseDeviceOfPage(p), UNCHANGED stub_vars, pages' \subseteq pages,
         UNCHANGED <<claimed_interfaces, current_config>>,
         \A q \in pages' : view_claimed'[q] = {}
  PROVE  Settling'
<1>1. PICK ord \in Ascending(claimed_interfaces[p]) : CloseDeviceOfPage(p)!(ord)
  BY DEF CloseDeviceOfPage
<1>2. usb_txns = {} /\ DOMAIN to_bg = {} /\ to_bg' = to_bg
  <2>1. usb_txns = {}
    BY AwaitedCalls
  <2>2. DOMAIN to_bg = {}
    BY <2>1, EffectsAnswered DEF Settling, Alone
  <2> QED BY <1>1, <2>1, <2>2
<1> DEFINE sent == CloseRequests(ord)
<1>3. PICK n \in Nat :
        /\ n = Cardinality(claimed_interfaces[p]) /\ ord \in [1 .. n -> claimed_interfaces[p]]
        /\ Len(sent) \in {n, n + 1}
        /\ \A k \in 1 .. n :
             sent[k] = Request("ReleaseInterface", next_id + k - 1, ord[k], Unconfigured)
        /\ Len(sent) = n + 1 =>
             sent[n + 1] = Request("CloseDevice", next_id + n, DeviceTarget, Unconfigured)
  BY CloseRequestsShape DEF Known, IInv
<1>4. usb_txns' = {CloseTransaction(p, sent[k]) : k \in 1 .. Len(sent)}
  BY <1>1, <1>2 DEF MarkDead
<1>5. opened' = [opened EXCEPT ![p] = FALSE] /\ opened_count' = 0
  <2>1. opened_count = 1
    BY DEF Settling, Alone
  <2> QED BY <1>1, <2>1
<1> HIDE DEF sent
<1>6. \A k \in 1 .. n :
        LET t == CloseTransaction(p, sent[k]) IN
          /\ t.cb = "close_release" /\ t.iface = ord[k] /\ t.id = next_id + k - 1
          /\ t.alive /\ t.page = p
  <2> SUFFICES ASSUME NEW k \in 1 .. n
               PROVE  LET t == CloseTransaction(p, sent[k]) IN
                        /\ t.cb = "close_release" /\ t.iface = ord[k] /\ t.id = next_id + k - 1
                        /\ t.alive /\ t.page = p
    OBVIOUS
  <2>1. sent[k] = Request("ReleaseInterface", next_id + k - 1, ord[k], Unconfigured)
    BY <1>3
  <2>2. /\ sent[k].type = "ReleaseInterface" /\ sent[k].id = next_id + k - 1
        /\ sent[k].iface = ord[k]
    BY <2>1 DEF Request
  <2> QED BY <2>2 DEF CloseTransaction
<1>7. Len(sent) = n + 1 =>
        LET t == CloseTransaction(p, sent[n + 1]) IN
          t.cb = "close" /\ t.id = next_id + n /\ t.alive
  BY <1>3 DEF CloseTransaction, Request
<1>8. /\ \A k \in 1 .. Len(sent) : k \in 1 .. n \/ (k = n + 1 /\ Len(sent) = n + 1)
      /\ \A k \in 1 .. n : k \in 1 .. Len(sent)
  BY <1>3
<1>9. \A t \in usb_txns' :
        \/ \E k \in 1 .. n : /\ t = CloseTransaction(p, sent[k])
                             /\ t.cb = "close_release" /\ t.iface = ord[k]
                             /\ t.id = next_id + k - 1 /\ t.alive /\ t.page = p
        \/ t.cb = "close" /\ t.id = next_id + n /\ t.alive
  <2> SUFFICES ASSUME NEW k \in 1 .. Len(sent), NEW t, t = CloseTransaction(p, sent[k])
               PROVE  \/ \E j \in 1 .. n : /\ t = CloseTransaction(p, sent[j])
                                          /\ t.cb = "close_release" /\ t.iface = ord[j]
                                          /\ t.id = next_id + j - 1 /\ t.alive /\ t.page = p
                      \/ t.cb = "close" /\ t.id = next_id + n /\ t.alive
    BY <1>4, Zenon
  <2>1. CASE k \in 1 .. n
    BY <1>6, <2>1, Zenon
  <2>2. CASE k = n + 1 /\ Len(sent) = n + 1
    BY <1>7, <2>2, Zenon
  <2> QED BY <1>8, <2>1, <2>2
<1>10. /\ \A j, k \in 1 .. n : ord[j] = ord[k] => j = k
       /\ \A i \in claimed_interfaces[p] : \E k \in 1 .. n : ord[k] = i
  <2>1. claimed_interfaces[p] \subseteq Nat /\ IsFiniteSet(claimed_interfaces[p])
    BY IfacesAssumption, FS_Subset DEF Known, IInv, TypeOK, BgTypeOK
  <2> QED BY <1>3, <2>1, AscendingVisits
<1>11. \A q \in Pages : q = p /\ opened'[q] = FALSE
  BY <1>5 DEF OnePage, Known, IInv, TypeOK, BgTypeOK
<1>12. \A t \in usb_txns' : t.cb \in Closing /\ t.alive
  BY <1>9 DEF Closing
<1>13. pages \subseteq Pages
  BY DEF Known, IInv, TypeOK, BgTypeOK
<1>14. Alone'
  BY <1>2, <1>5, <1>11, <1>12 DEF Alone, Closing
<1>15. CloseBatch'
  <2>1. \A t \in usb_txns' : t.cb = "close_release" => t.iface \in claimed_interfaces[t.page]
    BY <1>3, <1>9
  <2>2. \A t, u \in usb_txns' :
          t.cb = "close_release" /\ u.cb = "close_release" /\ t.iface = u.iface => t = u
    BY <1>9, <1>10
  <2>3. \A t, u \in usb_txns' : t.cb = "close" /\ u.cb = "close_release" => u.id < t.id
    <3>1. \A k \in 1 .. n : next_id + k - 1 < next_id + n
      BY DEF Known, IInv, TypeOK, BgTypeOK
    <3> QED BY <1>9, <3>1
  <2>4. \A i \in claimed_interfaces[p] :
          \E t \in usb_txns' : t.cb = "close_release" /\ t.iface = i
    BY <1>4, <1>6, <1>8, <1>10
  <2> QED BY <1>2, <1>11, <1>13, <2>1, <2>2, <2>3, <2>4 DEF CloseBatch
<1>16. Follows'
  <2>1. Effects' = Effects
    BY <1>2 DEF Effects, Confirmed
  <2> QED BY <2>1, NoEffect DEF stub_vars
<1> QED BY <1>14, <1>15, <1>16 DEF Settling

\* The answer to a live transaction is taken in.
LEMMA CallbackSettling ==
  ASSUME Known, Settling, NEW t \in usb_txns, NEW cbs, NEW ok \in BOOLEAN, Callback(t, cbs, ok)
  PROVE  /\ t.cb \in cbs /\ t.page \in Pages
         /\ usb_txns' = usb_txns \ {t} /\ Effects' = Effects \ {t}
         /\ ~ok => t \notin Effects
         /\ \A k \in DOMAIN to_bg' : \E j \in DOMAIN to_bg : to_bg'[k] = to_bg[j]
         /\ 1 \in DOMAIN to_bg /\ to_bg[1] = Reply(t.id, ok)
         /\ to_bg # <<>> /\ IsReply(Head(to_bg)) /\ t.id = Head(to_bg).id
         /\ pages' = pages
         /\ UNCHANGED <<opened, opened_count>> => Alone'
<1>1. Receive(Reply(t.id, ok)) /\ t.cb \in cbs /\ t.page \in Pages
  BY DEF Callback, Known, IInv, TypeOK, BgTypeOK, PageTransaction
<1>2. Reply(t.id, ok).id = t.id /\ IsReply(Reply(t.id, ok))
  BY DEF Reply, IsReply
<1>3. /\ usb_txns' = usb_txns \ {t} /\ Effects' = Effects \ {t}
      /\ ~ok => t \notin Effects
      /\ \A k \in DOMAIN to_bg' : \E j \in DOMAIN to_bg : to_bg'[k] = to_bg[j]
      /\ 1 \in DOMAIN to_bg /\ to_bg[1] = Reply(t.id, ok)
      /\ to_bg # <<>> /\ Head(to_bg) = Reply(t.id, ok)
  BY <1>1, EffectsTaken
<1>4. pages' = pages
  BY <1>1 DEF Receive
<1>5. \A q \in pages : \A u \in usb_txns' : u.cb \notin Closing => u.id \in outstanding'[q]
  <2> SUFFICES ASSUME NEW q \in pages, NEW u \in usb_txns', u.cb \notin Closing
               PROVE  u.id \in outstanding'[q]
    OBVIOUS
  <2>1. u \in usb_txns /\ u.id # t.id
    BY <1>3 DEF Known, IInv, Calls, IdsUnique
  <2>2. u.id \in outstanding[q]
    BY <2>1 DEF Settling, Alone
  <2>3. outstanding' = [outstanding EXCEPT ![t.page] = @ \ {t.id}]
    BY DEF Callback, Settle
  <2> QED BY <2>1, <2>2, <2>3 DEF Known, IInv, TypeOK, BgTypeOK
<1>6. UNCHANGED <<opened, opened_count>> => Alone'
  <2> SUFFICES ASSUME UNCHANGED <<opened, opened_count>> PROVE Alone'
    OBVIOUS
  <2>1. \A k \in DOMAIN to_bg' : IsReply(to_bg'[k])
    BY <1>3 DEF Settling, Alone
  <2> QED BY <1>3, <1>4, <1>5, <2>1 DEF Settling, Alone
<1>7. IsReply(Head(to_bg)) /\ t.id = Head(to_bg).id
  BY <1>2, <1>3, Zenon
<1> QED BY <1>1, <1>3, <1>4, <1>6, <1>7

LEMMA ReplySettling ==
  ASSUME OnePage, Known, Settling, StubReply, UNCHANGED stub_vars
  PROVE  Settling'
<1> USE DEF stub_vars
<1>1. ASSUME NEW t \in usb_txns, NEW cbs, NEW ok \in BOOLEAN, Callback(t, cbs, ok), NoStateChange,
             t \notin Effects, t.cb # "close_release"
      PROVE  Settling'
  <2>1. usb_txns' = usb_txns \ {t} /\ Effects' = Effects /\ Alone' /\ pages' = pages
    <3>1. usb_txns' = usb_txns \ {t} /\ Effects' = Effects \ {t} /\ pages' = pages
      BY <1>1, CallbackSettling
    <3>2. Alone'
      BY <1>1, CallbackSettling DEF NoStateChange
    <3> QED BY <1>1, <3>1, <3>2
  <2>2. Follows'
    BY <1>1, <2>1, NoEffect DEF NoStateChange
  <2>3. \A k \in DOMAIN to_bg' : \E j \in DOMAIN to_bg : to_bg'[k] = to_bg[j]
    BY <1>1, CallbackSettling
  <2>4. CloseBatch'
    <3>1. UNCHANGED <<opened, claimed_interfaces, view_claimed>>
      BY <1>1 DEF NoStateChange
    <3>2. \A u \in usb_txns' : u.cb = "close_release" =>
            \A k \in DOMAIN to_bg' : to_bg'[k] # Reply(u.id, FALSE)
      <4> SUFFICES ASSUME NEW u \in usb_txns', u.cb = "close_release", NEW k \in DOMAIN to_bg'
                   PROVE  to_bg'[k] # Reply(u.id, FALSE)
        OBVIOUS
      <4>1. \A j \in DOMAIN to_bg : to_bg[j] # Reply(u.id, FALSE)
        BY <2>1 DEF Settling, CloseBatch
      <4> QED BY <2>3, <4>1, Zenon
    <3>3. \A u \in usb_txns' : u \in usb_txns
      BY <2>1
    <3>4. \A u \in usb_txns : u.cb = "close_release" => u \in usb_txns'
      BY <1>1, <2>1
    <3> QED BY <2>1, <3>1, <3>2, <3>3, <3>4 DEF Settling, CloseBatch
  <2> QED BY <2>1, <2>2, <2>4 DEF Settling
<1>2. ASSUME NEW t \in usb_txns, OnDone(t)
      PROVE  Settling'
  <2>1. t.cb \notin {"set_config", "claim_interface", "release_interface", "close_release"}
    BY <1>2 DEF OnDone, Callback
  <2> QED BY <1>1, <1>2, <2>1 DEF OnDone, Effects
<1>3. ASSUME NEW t \in usb_txns, OnError(t)
      PROVE  Settling'
  <2>1. Callback(t, Callbacks, FALSE) /\ NoStateChange
    BY <1>3 DEF OnError
  <2>2. t \notin Effects /\ 1 \in DOMAIN to_bg /\ to_bg[1] = Reply(t.id, FALSE)
    BY <2>1, CallbackSettling
  <2>3. t.cb # "close_release"
    BY <2>2 DEF Settling, CloseBatch
  <2> QED BY <1>1, <2>1, <2>2, <2>3
<1>4. ASSUME NEW t \in usb_txns, OnOpened(t)
      PROVE  Settling'
  <2>1. Callback(t, {"open"}, TRUE)
    BY <1>4 DEF OnOpened
  <2>a. t.cb = "open"
    BY <2>1 DEF Callback
  <2>2. /\ t.cb = "open" /\ t.page \in Pages
        /\ usb_txns' = usb_txns \ {t} /\ Effects' = Effects \ {t} /\ pages' = pages
        /\ \A k \in DOMAIN to_bg' : \E j \in DOMAIN to_bg : to_bg'[k] = to_bg[j]
        /\ to_bg # <<>> /\ IsReply(Head(to_bg)) /\ t.id = Head(to_bg).id
    BY <2>1, <2>a, CallbackSettling
  <2>3. usb_txns = {t}
    <3> SUFFICES ASSUME NEW u \in usb_txns, u # t PROVE FALSE
      OBVIOUS
    <3>1. u.cb \in Closing /\ u.id < t.id
      BY <2>2 DEF Settling, Alone, Closing
    <3>2. u.cb # "xfer"
      BY <3>1 DEF Closing
    <3> QED BY <2>2, <3>1, <3>2, FirstAnswer DEF Known, IInv
  <2>4. Effects = {} /\ Effects' = {} /\ usb_txns' = {}
    BY <2>2, <2>3 DEF Effects
  <2>5. \A q \in Pages : q = t.page /\ claimed_interfaces[q] = {} /\ ~opened[q]
    <3>1. \A q \in Pages : q = t.page /\ ~opened[q]
      BY <2>2 DEF OnePage, Settling, Alone, Closing
    <3> QED BY <2>2, <2>3, <3>1 DEF Settling, CloseBatch
  <2>6. Follows'
    BY <1>4, <2>4, NoEffect DEF OnOpened
  <2>7. Alone'
    <3>1. \A k \in DOMAIN to_bg' : IsReply(to_bg'[k])
      BY <2>2 DEF Settling, Alone
    <3>2. opened' = [opened EXCEPT ![t.page] = TRUE] /\ opened_count' = 1
      BY <1>4, <2>2, <2>5 DEF OnOpened, Settling, Alone
    <3>3. \A q \in Pages : opened'[q]
      BY <2>5, <3>2 DEF Known, IInv, TypeOK, BgTypeOK
    <3> QED BY <2>4, <3>1, <3>2, <3>3 DEF Alone
  <2>8. CloseBatch'
    <3>1. UNCHANGED <<claimed_interfaces, view_claimed>> /\ pages \subseteq Pages
      BY <1>4 DEF OnOpened, Known, IInv, TypeOK, BgTypeOK
    <3> QED BY <2>2, <2>4, <2>5, <3>1 DEF Settling, CloseBatch
  <2> QED BY <2>6, <2>7, <2>8 DEF Settling
<1>5. ASSUME NEW t \in usb_txns, OnConfigSet(t)
      PROVE  Settling'
  <2>1. Callback(t, {"set_config"}, TRUE)
    BY <1>5 DEF OnConfigSet
  <2>a. t.cb = "set_config"
    BY <2>1 DEF Callback
  <2>2. /\ t.cb = "set_config" /\ t.page \in Pages
        /\ usb_txns' = usb_txns \ {t} /\ Effects' = Effects \ {t} /\ pages' = pages
        /\ 1 \in DOMAIN to_bg /\ to_bg[1] = Reply(t.id, TRUE)
        /\ Alone'
    BY <1>5, <2>1, <2>a, CallbackSettling DEF OnConfigSet
  <2>3. usb_txns = {t} /\ t \in Effects
    BY <2>2, OnlyCall DEF Closing, Settling, Effects, Confirmed
  <2>4. Effects = {t} /\ Effects' = {} /\ usb_txns' = {}
    BY <2>2, <2>3 DEF Effects
  <2>5. StubClaimed = {} /\ stub_config = t.value
    <3>1. \A i \in Ifaces : i \notin StubClaimed
      BY <2>2, <2>4 DEF Settling, Follows, Ends
    <3> QED BY <2>2, <2>4, <3>1 DEF Settling, Follows, StubClaimed
  <2>6. /\ claimed_interfaces' = [claimed_interfaces EXCEPT ![t.page] = {}]
        /\ view_claimed' = [view_claimed EXCEPT ![t.page] = {}]
        /\ current_config' = t.value
    BY <1>5 DEF OnConfigSet
  <2>7. \A q \in Pages : claimed_interfaces'[q] = {} /\ view_claimed'[q] = {}
    BY <2>2, <2>6 DEF OnePage, Known, IInv, TypeOK, BgTypeOK
  <2>8. Follows'
    BY <2>4, <2>5, <2>6, <2>7 DEF Follows, StubClaimed
  <2>9. CloseBatch'
    BY <2>2, <2>4, <2>7 DEF CloseBatch, Known, IInv, TypeOK, BgTypeOK
  <2> QED BY <2>2, <2>8, <2>9 DEF Settling
<1>6. ASSUME NEW t \in usb_txns, OnClaimed(t)
      PROVE  Settling'
  <2>1. Callback(t, {"claim_interface"}, TRUE)
    BY <1>6 DEF OnClaimed
  <2>a. t.cb = "claim_interface"
    BY <2>1 DEF Callback
  <2>2. /\ t.cb = "claim_interface" /\ t.page \in Pages
        /\ usb_txns' = usb_txns \ {t} /\ Effects' = Effects \ {t} /\ pages' = pages
        /\ 1 \in DOMAIN to_bg /\ to_bg[1] = Reply(t.id, TRUE)
        /\ Alone'
    BY <1>6, <2>1, <2>a, CallbackSettling DEF OnClaimed
  <2>3. usb_txns = {t} /\ t \in Effects
    BY <2>2, OnlyCall DEF Closing, Settling, Effects, Confirmed
  <2>4. Effects = {t} /\ Effects' = {} /\ usb_txns' = {}
    BY <2>2, <2>3 DEF Effects
  <2>5. \A q \in Pages : q = t.page /\ opened[q]
    BY <2>2 DEF OnePage, Settling, Alone, Closing
  <2>6. /\ \A q \in Pages : claimed_interfaces'[q] = claimed_interfaces[q] \cup {t.iface}
        /\ \A q \in Pages : view_claimed'[q] = view_claimed[q] \cup {t.iface}
    BY <1>6, <2>2, <2>5 DEF OnClaimed, Known, IInv, TypeOK, BgTypeOK
  <2>7. \A q \in Pages, i \in Ifaces : i \in StubClaimed <=> i \in claimed_interfaces'[q]
    BY <2>2, <2>4, <2>6 DEF Settling, Follows, Ends
  <2>8. stub_config = current_config /\ current_config' = current_config
    BY <1>6, <2>2, <2>4 DEF OnClaimed, Settling, Follows
  <2>9. Follows'
    BY <2>4, <2>7, <2>8 DEF Follows, StubClaimed
  <2>10. CloseBatch'
    <3>1. pages \subseteq Pages /\ opened' = opened
      BY <1>6 DEF OnClaimed, Known, IInv, TypeOK, BgTypeOK
    <3>2. \A q \in pages : view_claimed'[q] = claimed_interfaces'[q] /\ opened'[q]
      BY <2>5, <2>6, <3>1 DEF Settling, CloseBatch
    <3> QED BY <2>2, <2>4, <2>5, <3>1, <3>2 DEF CloseBatch
  <2> QED BY <2>2, <2>9, <2>10 DEF Settling
<1>7. ASSUME NEW t \in usb_txns, OnReleased(t)
      PROVE  Settling'
  <2>1. Callback(t, {"release_interface", "close_release"}, TRUE)
    BY <1>7 DEF OnReleased
  <2>2. /\ t.cb \in {"release_interface", "close_release"} /\ t.page \in Pages
        /\ usb_txns' = usb_txns \ {t} /\ Effects' = Effects \ {t} /\ pages' = pages
        /\ \A k \in DOMAIN to_bg' : \E j \in DOMAIN to_bg : to_bg'[k] = to_bg[j]
        /\ 1 \in DOMAIN to_bg /\ to_bg[1] = Reply(t.id, TRUE)
        /\ Alone'
    BY <1>7, <2>1, CallbackSettling DEF OnReleased
  <2>3. t \in Effects /\ Effects \subseteq usb_txns
    BY <2>2 DEF Effects, Confirmed
  <2>4. ~\E u \in Effects : u.cb = "claim_interface" \/ u.cb = "set_config"
    BY <2>2, <2>3 DEF Settling, Alone, Closing
  <2>5. /\ \A q \in Pages : q = t.page
        /\ \A q \in Pages : claimed_interfaces'[q] = claimed_interfaces[q] \ {t.iface}
        /\ UNCHANGED <<opened, current_config>>
    BY <1>7, <2>2 DEF OnReleased, OnePage, Known, IInv, TypeOK, BgTypeOK
  <2>6. Follows'
    <3>1. ASSUME NEW q \in Pages, NEW i \in Ifaces
          PROVE  i \in StubClaimed <=>
                   i \in claimed_interfaces'[q] /\ \A u \in Effects' : ~Ends(u, i)
      <4>1. i \in StubClaimed <=> i \in claimed_interfaces[q] /\ \A u \in Effects : ~Ends(u, i)
        BY <2>4 DEF Settling, Follows
      <4>2. Ends(t, i) <=> i = t.iface
        BY <2>2 DEF Ends
      <4> QED BY <2>2, <2>3, <2>5, <4>1, <4>2
    <3>2. stub_config = current_config
      BY <2>4 DEF Settling, Follows
    <3> QED BY <2>2, <2>4, <2>5, <3>1, <3>2 DEF Follows, StubClaimed, Ends
  <2>7. CASE t.cb = "release_interface"
    <3>1. usb_txns = {t} /\ usb_txns' = {}
      BY <2>2, <2>7, OnlyCall DEF Settling, Closing
    <3>2. \A q \in Pages : opened[q]
      BY <2>7 DEF Settling, Alone, Closing
    <3>3. pages \subseteq Pages /\ \A q \in Pages : view_claimed'[q] = view_claimed[q] \ {t.iface}
      BY <1>7, <2>5, <2>7 DEF OnReleased, Known, IInv, TypeOK, BgTypeOK
    <3>4. \A q \in pages : view_claimed'[q] = claimed_interfaces'[q] /\ opened'[q]
      <4>1. \A q \in pages : view_claimed[q] = claimed_interfaces[q] /\ q \in Pages
        BY <3>2, <3>3 DEF Settling, CloseBatch
      <4>2. opened' = opened
        BY <2>5
      <4>3. \A q \in Pages : claimed_interfaces'[q] = claimed_interfaces[q] \ {t.iface}
        BY <2>5
      <4>4. \A q \in pages : view_claimed'[q] = view_claimed[q] \ {t.iface}
        BY <3>3
      <4>5. \A q \in pages : view_claimed'[q] = claimed_interfaces'[q]
        BY <4>1, <4>3, <4>4, Zenon
      <4> QED BY <3>2, <4>1, <4>2, <4>5, Zenon
    <3>5. CloseBatch'
      BY <2>2, <2>5, <3>1, <3>2, <3>3, <3>4 DEF CloseBatch
    <3> QED BY <2>2, <2>6, <3>5 DEF Settling
  <2>8. CASE t.cb = "close_release"
    <3>1. \A q \in Pages : ~opened[q]
      BY <2>8 DEF Settling, Alone, Closing
    <3>2. pages \subseteq Pages /\ view_claimed' = view_claimed
      BY <1>7, <2>8 DEF OnReleased, Known, IInv, TypeOK, BgTypeOK
    <3>3. \A u \in usb_txns' :
            u.cb = "close_release" =>
              /\ u.iface \in claimed_interfaces'[u.page]
              /\ \A k \in DOMAIN to_bg' : to_bg'[k] # Reply(u.id, FALSE)
      <4> SUFFICES ASSUME NEW u \in usb_txns', u.cb = "close_release"
                   PROVE  /\ u.iface \in claimed_interfaces'[u.page]
                          /\ \A k \in DOMAIN to_bg' : to_bg'[k] # Reply(u.id, FALSE)
        OBVIOUS
      <4>1. u \in usb_txns /\ u # t /\ u.page \in Pages
        BY <2>2 DEF Known, IInv, TypeOK, BgTypeOK, PageTransaction
      <4>2. u.iface \in claimed_interfaces[u.page] /\ u.iface # t.iface
        BY <2>8, <4>1 DEF Settling, CloseBatch
      <4>3. \A k \in DOMAIN to_bg : to_bg[k] # Reply(u.id, FALSE)
        BY <4>1 DEF Settling, CloseBatch
      <4> QED BY <2>2, <2>5, <4>1, <4>2, <4>3
    <3>4. \A q \in Pages : \A i \in claimed_interfaces'[q] :
            \E u \in usb_txns' : u.cb = "close_release" /\ u.iface = i
      BY <2>2, <2>5, <3>1 DEF Settling, CloseBatch
    <3>5. CloseBatch'
      BY <2>2, <2>5, <3>1, <3>2, <3>3, <3>4 DEF Settling, CloseBatch
    <3> QED BY <2>2, <2>6, <3>5 DEF Settling
  <2> QED BY <2>2, <2>7, <2>8
<1>8. CASE to_bg # <<>> /\ OnDeadReply
  <2>1. 1 \in DOMAIN to_bg /\ Head(to_bg) = to_bg[1]
    BY <1>8, TailElements DEF Known, IInv, TypeOK
  <2>2. /\ IsReply(Head(to_bg))
        /\ ~\E t \in usb_txns : t.id = Head(to_bg).id /\ t.alive
    BY <1>8 DEF OnDeadReply
  <2> QED BY <2>1, <2>2, EffectsAnswered DEF Settling, Alone
<1> QED BY <1>2, <1>3, <1>4, <1>5, <1>6, <1>7, <1>8 DEF StubReply

LEMMA PoliteStep ==
  ASSUME ~IoctlMayFail, OnePage, Known, Polite, [PoliteNext]_vars
  PROVE  Polite'
<1> SUFFICES ASSUME stub_dev' = "present" PROVE Settling'
  BY DEF Polite
<1>1. CASE UNCHANGED vars
  <2>1. stub_dev = "present" /\ Settling
    BY <1>1 DEF Polite, vars, stub_vars
  <2>2. /\ UNCHANGED <<usb_txns, to_bg, pages, opened_count, opened, claimed_interfaces>>
        /\ UNCHANGED <<current_config, outstanding, view_claimed, if_state, stub_config>>
    BY <1>1 DEF vars, stub_vars, bg_vars, router_vars, device_vars, page_dev_vars, view_vars
  <2>3. Alone' /\ CloseBatch'
    BY <2>1, <2>2 DEF Settling, Alone, CloseBatch
  <2>4. Effects' = Effects
    BY <2>2 DEF Effects
  <2> QED BY <2>1, <2>2, <2>3, <2>4, NoEffect DEF Settling
<1>2. CASE StubStep
  <2>1. stub_dev = "present"
    BY <1>2, StubOpenShape DEF StubStep
  <2> QED BY <1>2, <2>1, StubSettling DEF StubStep, Polite
<1>3. CASE BgStep /\ PoliteNext
  <2>1. UNCHANGED stub_vars /\ Settling /\ \A p \in Pages : AwaitsCalls(p)
    BY <1>3 DEF BgStep, PoliteNext, Polite, stub_vars
  <2>2. ASSUME NEW p \in Pages, PageRequest(p)
        PROVE  Settling'
    <3>1. CASE ClosePage(p)
      <4>1. /\ p \in pages /\ opened[p] /\ CloseDeviceOfPage(p) /\ pages' = pages
            /\ UNCHANGED <<claimed_interfaces, current_config>>
            /\ view_claimed' = [view_claimed EXCEPT ![p] = {}]
        BY <3>1 DEF ClosePage, HasDevice
      <4>2. \A q \in pages' : view_claimed'[q] = {}
        BY <4>1 DEF OnePage, Known, IInv, TypeOK, BgTypeOK
      <4> QED BY <2>1, <4>1, <4>2, CloseSettling
    <3> QED BY <2>1, <2>2, <3>1, PageRequestShape, QueueSettling, IdleSettling
  <2>3. ASSUME NEW p \in Pages, Disconnect(p)
        PROVE  Settling'
    <3>1. CASE DisconnectOpen(p)
      <4>1. /\ p \in pages /\ opened[p] /\ CloseDeviceOfPage(p) /\ pages' = pages \ {p}
            /\ UNCHANGED <<claimed_interfaces, current_config>>
        BY <3>1 DEF DisconnectOpen, PageGone
      <4>2. pages' = {}
        BY <4>1 DEF OnePage, Known, IInv, TypeOK, BgTypeOK
      <4> QED BY <2>1, <4>1, <4>2, CloseSettling
    <3> QED BY <2>1, <2>3, <3>1, IdleSettling DEF Disconnect
  <2>4. ~UnplugDevice
    <3> SUFFICES ASSUME to_bg # <<>>, Head(to_bg) = UnplugEvent PROVE FALSE
      BY DEF UnplugDevice
    <3>1. 1 \in DOMAIN to_bg /\ Head(to_bg) = to_bg[1]
      BY TailElements DEF Known, IInv, TypeOK
    <3>2. ~IsReply(UnplugEvent)
      BY DEF UnplugEvent, IsReply
    <3> QED BY <2>1, <3>1, <3>2 DEF Settling, Alone
  <2> QED BY <1>3, <2>1, <2>2, <2>3, <2>4, ReplySettling DEF BgStep, BgNext, BgReceive
<1> QED BY <1>1, <1>2, <1>3 DEF PoliteNext, Next

\* With one page that awaits its calls and a device that refuses nothing, the page,
\* the background script and the stub agree on claims and configuration whenever
\* nothing is under way: what each was told in passing adds up to what the others
\* did (awawausb.js:182, 226-278, 778-945, main.rs:648-775).
THEOREM CopiesCorrect == OnePage /\ ~IoctlMayFail => (PoliteSpec => []CopiesAgree)
<1> SUFFICES ASSUME OnePage, ~IoctlMayFail PROVE PoliteSpec => []CopiesAgree
  OBVIOUS
<1> DEFINE Inv == Known /\ Polite
<1>1. Init => Polite
  <2> SUFFICES ASSUME Init PROVE Polite
    OBVIOUS
  <2>1. PICK c \in Configs \cup {Unconfigured} : BgInit(c) /\ StubInit(c)
    BY DEF Init
  <2>2. usb_txns = {} /\ DOMAIN to_bg = {} /\ Effects = {}
    BY <2>1 DEF Init, BgInit, Effects
  <2>3. StubClaimed = {} /\ stub_config = current_config
    BY <2>1 DEF BgInit, StubInit, StubClaimed, Probed
  <2>4. \A p \in Pages : ~opened[p] /\ claimed_interfaces[p] = {} /\ view_claimed[p] = {}
    BY <2>1 DEF BgInit
  <2>5. opened_count = 0 /\ pages = Pages
    BY <2>1 DEF BgInit
  <2> QED BY <2>2, <2>3, <2>4, <2>5 DEF Polite, Settling, Alone, CloseBatch, Follows
<1>2. Inv /\ [PoliteNext]_vars => Inv'
  <2>1. [PoliteNext]_vars => [Next]_vars
    BY DEF PoliteNext
  <2> QED BY <2>1, NextIInv, NextIds, NextOrder, PoliteStep DEF Known, IInv
<1>3. Inv => CopiesAgree
  <2> SUFFICES ASSUME Inv, Drained, stub_dev = "present" PROVE CopiesAgree
    BY DEF CopiesAgree, ClaimIsReal, ViewClaim, ConfigAgrees
  <2>1. Settling /\ Effects = {} /\ pages \subseteq Pages
    BY DEF Polite, Drained, Effects, Known, IInv, TypeOK, BgTypeOK
  <2>2. \A p \in pages : claimed_interfaces[p] = StubClaimed
    <3>1. \A p \in Pages, i \in Ifaces : i \in StubClaimed <=> i \in claimed_interfaces[p]
      BY <2>1 DEF Settling, Follows
    <3> QED BY <2>1, <3>1 DEF StubClaimed, Known, IInv, TypeOK, BgTypeOK
  <2>3. \A p \in pages : opened[p] => view_claimed[p] = claimed_interfaces[p]
    BY <2>1 DEF Settling, CloseBatch
  <2>4. current_config = stub_config
    BY <2>1 DEF Settling, Follows
  <2> QED BY <2>2, <2>3, <2>4 DEF CopiesAgree, ClaimIsReal, ViewClaim, ConfigAgrees
<1> HIDE DEF Inv
<1>4. Init => Inv
  BY <1>1, InitIInv, InitIds, InitOrder DEF Inv, Known
<1> QED BY <1>2, <1>3, <1>4, PTL DEF PoliteSpec
================================================================================
