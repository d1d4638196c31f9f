-------------------------------- MODULE Broker ---------------------------------
(***************************************************************************)
(* The background script and the native stub, joined by the stub's stdin   *)
(* and stdout: the system that shares one USB device between pages.        *)
(***************************************************************************)
EXTENDS Background, StubDevice

vars == <<bg_vars, stub_vars, to_stub, to_bg>>

Init ==
  /\ to_stub = <<>> /\ to_bg = <<>>
  /\ \E c \in Configs \cup {Unconfigured} : BgInit(c) /\ StubInit(c)

BgStep == BgNext /\ UNCHANGED stub_vars
StubStep == StubNext /\ UNCHANGED bg_vars

Next == BgStep \/ StubStep

Spec == Init /\ [][Next]_vars

\* Both event loops keep running.  Nothing obliges a page to call, the user
\* to pull the plug, or a device to finish a transfer; but once it is pulled
\* the kernel hands back every URB and then ends the device.
Fairness ==
  /\ WF_vars(BgReceive /\ UNCHANGED stub_vars)
  /\ WF_vars(HandleStdin /\ UNCHANGED bg_vars)
  /\ WF_vars(stub_dev = "hup" /\ ReapUrb /\ UNCHANGED bg_vars)
  /\ WF_vars(stub_dev = "hup" /\ Destroyed /\ UNCHANGED bg_vars)

FairSpec == Spec /\ Fairness

\* A page that awaits each call before it makes the next, closes the device
\* or goes away.
AwaitsCalls(p) ==
  \/ outstanding[p] = {}
  \/ outstanding'[p] \subseteq outstanding[p] /\ opened'[p] = opened[p]
  \/ BgReceive
PoliteNext == Next /\ \A p \in Pages : AwaitsCalls(p)
PoliteSpec == Init /\ [][PoliteNext]_vars

--------------------------------------------------------------------------------
(* Type invariant, and the bookkeeping between the two ends.                *)

\* Every variable holds a value of its type.  In particular the open count
\* never goes below zero (awawausb.js:258 decrements it without a test).
TypeOK ==
  /\ to_stub \in Seq(RequestMessage)
  /\ to_bg \in Seq(ResponseMessage)
  /\ BgTypeOK
  /\ StubTypeOK

TxnIds == {t.id : t \in usb_txns}
OpenPages == {p \in Pages : opened[p]}

\* A txn_ref always leads to a live PageTransaction of the same page and
\* target, so abort_transactions (awawausb.js:219-220), which dereferences
\* what usb_txns.get returns without a test, never gets undefined and never
\* kills another page's transaction.
RefsAreLive ==
  \A p \in Pages : \A r \in transactions[p] :
    \E t \in usb_txns : t.id = r.id /\ t.page = p /\ t.iface = r.intf /\ t.alive

\* The unsettled calls of a connected page are those of its txn_refs: none is
\* left without an answer by an abort, and none is answered twice, at which
\* content.js:45 would destructure a missing entry of its txn_map.
EveryCallHasOneRef ==
  \A p \in pages : outstanding[p] = Ids(transactions[p])

\* The tables of the two ends of a page's port match: every txn_ref has its
\* transaction and every unsettled call its txn_ref (awawausb.js:190-224).
CallsMatch == RefsAreLive /\ EveryCallHasOneRef

\* The pipes and the kernel together are a request-reply service, whatever
\* fails and whenever the device is pulled.
Service == INSTANCE RequestReply WITH
  used <- 1 .. next_id - 1,
  asked <- {to_stub[k].id : k \in DOMAIN to_stub} \cup urbs,
  answered <- {to_bg[k].id : k \in {k \in DOMAIN to_bg : IsReply(to_bg[k])}}

\* No request is dropped, carried out twice or answered under another's id.
ServiceSpec == Service!Spec

--------------------------------------------------------------------------------
(* Sharing the device: opens and claims.                                    *)

\* The open count covers every page that has the device open, so that no
\* close but the last can send CloseDevice and close it under the others.
OpenCountCovers == opened_count >= Cardinality(OpenPages)

\* A page knows whether it has the device open (page.js #opened), though
\* opens and closes of several pages finish in any order.
ViewOpen == \A p \in pages : view_opened[p] = opened[p]

\* The count, the background script and the pages agree on who has the device
\* open (awawausb.js:226-259, 700-760).
OpensAgree == OpenCountCovers /\ ViewOpen

\* interfaces_claimed never names a page that does not hold the interface:
\* nobody, not even that page, could claim or release such an interface.
OwnerHoldsClaim ==
  \A i \in Ifaces : interfaces_claimed[i] \in Pages =>
                      i \in claimed_interfaces[interfaces_claimed[i]]

\* In the stub, only an open device has claimed interfaces: close_device
\* releases first and closes last, even if a release fails on the way.
ClaimsNeedOpen == StubClaimed # {} => stub_opened

\* No claim is without its holder at either end: a page in the background
\* script, an open device in the stub (awawausb.js:884, main.rs:663-683).
ClaimsAreHeld == OwnerHoldsClaim /\ ClaimsNeedOpen

\* No transaction is under way.
Drained == usb_txns = {}

\* When nothing is under way and no page counts as having it open, the stub
\* does not have the device open either: no open is orphaned by a close or
\* the end of a page that overtook it.
NoOrphanOpen ==
  Drained /\ opened_count = 0 /\ stub_dev = "present" => ~stub_opened

\* One page at a time holds an interface (architecture.md:79).
ClaimExclusive ==
  \A p, q \in pages : p # q => claimed_interfaces[p] \cap claimed_interfaces[q] = {}

--------------------------------------------------------------------------------
(* Agreement of the copies of the state, once nothing is under way.         *)

\* What the background script takes for claimed is claimed in the stub, and
\* the other way round.
ClaimIsReal ==
  Drained /\ stub_dev = "present" =>
    \A p \in pages : opened[p] => claimed_interfaces[p] = StubClaimed

\* The claims a page knows of are those the background script knows of
\* (awawausb.js:182: "tracked twice: here, and in the page").
ViewClaim ==
  Drained /\ stub_dev = "present" =>
    \A p \in pages : opened[p] => view_claimed[p] = claimed_interfaces[p]

\* Both ends know the same configuration.
ConfigAgrees == Drained /\ stub_dev = "present" => current_config = stub_config

\* When nothing is under way, page, background script and stub agree on claims
\* and configuration (awawausb.js:182, 815-850, main.rs:700-775).
CopiesAgree == ClaimIsReal /\ ViewClaim /\ ConfigAgrees

--------------------------------------------------------------------------------
(* What must happen.                                                        *)

\* Every transaction but a transfer is answered in the end, whether or not it
\* was aborted, its page is gone or the device was pulled meanwhile.
ControlCallsAnswered ==
  \A id \in 1 .. MaxTxn :
    (\E t \in usb_txns : t.id = id /\ t.cb # "xfer") ~> (id \notin TxnIds)

\* Pulling the plug settles every call, transfers included: "the stub will
\* (should?) return them to us as failed" (awawausb.js:403).
UnplugSettlesCalls ==
  (stub_dev = "hup") ~> (~known /\ \A p \in pages : outstanding[p] = {})

================================================================================
