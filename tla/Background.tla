------------------------------ MODULE Background -------------------------------
(***************************************************************************)
(* The background script's broker (extension/awawausb.js): it multiplexes  *)
(* the pages over the one native stub.  Modelled for one device and any    *)
(* set of pages.  JavaScript runs every handler to its end, so a message   *)
(* from a page, a message from the stub and the disconnection of a page    *)
(* are one action each.                                                    *)
(*                                                                         *)
(* A page sends whatever it likes whenever it likes (page.js checks        *)
(* nothing before it sends and does not wait for earlier calls), so the    *)
(* page's request and the handler's run are one action and the request     *)
(* pipe needs no state.  In the other direction, `outstanding` and `view_*`*)
(* are what content.js and page.js hold once the page has taken in all     *)
(* that has been posted to it; pages apply messages in posting order.      *)
(*                                                                         *)
(* A request the handler rejects on the spot changes no state: it is a     *)
(* stuttering step, and the guards below are what is left of the early     *)
(* returns.                                                                *)
(***************************************************************************)
EXTENDS UsbProtocol

CONSTANTS
  Pages,         \* page ids (PerPageState.page_id)
  Protected,     \* interfaces of a class web pages may not claim
  MaxTxn         \* bound: transaction ids handed out in a behaviour

ASSUME PagesAssumption == IsFiniteSet(Pages)
ASSUME ProtectedAssumption == Protected \subseteq Ifaces
ASSUME MaxTxnAssumption == MaxTxn \in Nat

CONSTANTS
  Null,          \* interfaces_claimed[i] = null: present and unclaimed
  Undefined      \* interfaces_claimed[i] = undefined: no such interface

ASSUME NullAssumption ==
  /\ Null \notin Pages
  /\ Undefined \notin Pages
  /\ Null # Undefined

VARIABLES
  \* module scope
  known,             \* is the device's sid a key of usb_devices?
  usb_txns,          \* the values of usb_txns, each with its key
  next_id,           \* supplies both kinds of transaction ids
  pages,             \* the keys of PerPageState.#pages
  \* the device's global record (global_usb_dev)
  opened_count,      \* .opened
  interfaces_claimed,\* .interfaces_claimed
  current_config,    \* .current_config
  page_devices,      \* .page_devices, by page; also who has a handle to it
  \* the PerPageUSBDevice of each page
  opened,            \* .opened
  claimed_interfaces,\* .claimed_interfaces, as the set of the true ones
  transactions,      \* .transactions: txn_refs
  \* in the page
  outstanding,       \* content.js txn_map: calls whose promise is unsettled
  view_opened,       \* page.js #opened
  view_claimed       \* page.js [BACKDOOR_IS_CLAIMED]

router_vars == <<known, usb_txns, next_id, pages>>
device_vars == <<opened_count, interfaces_claimed, current_config, page_devices>>
page_dev_vars == <<opened, claimed_interfaces, transactions>>
view_vars == <<outstanding, view_opened, view_claimed>>
bg_vars == <<router_vars, device_vars, page_dev_vars, view_vars>>

(***************************************************************************)
(* A PageTransaction with its key.  The callback is a closure; `cb` names  *)
(* the operation whose closure it is and the rest is what it captures.     *)
(***************************************************************************)
Callbacks ==
  { "open", "reset", "set_config", "claim_interface", "release_interface",
    "set_alt_interface", "clear_halt", "xfer", "close_release", "close" }

PageTransaction ==
  [id : Nat, page : Pages, cb : Callbacks, iface : Targets,
   value : Configs \cup {Unconfigured}, alive : BOOLEAN]

TxnRef == [id : Nat, intf : Targets]

BgTypeOK ==
  /\ known \in BOOLEAN
  /\ usb_txns \subseteq PageTransaction
  /\ next_id \in Nat
  /\ pages \subseteq Pages
  /\ opened_count \in Nat
  /\ interfaces_claimed \in [Ifaces -> Pages \cup {Null, Undefined}]
  /\ current_config \in Configs \cup {Unconfigured}
  /\ page_devices \subseteq Pages
  /\ opened \in [Pages -> BOOLEAN]
  /\ claimed_interfaces \in [Pages -> SUBSET Ifaces]
  /\ transactions \in [Pages -> SUBSET TxnRef]
  /\ outstanding \in [Pages -> SUBSET Nat]
  /\ view_opened \in [Pages -> BOOLEAN]
  /\ view_claimed \in [Pages -> SUBSET Ifaces]

\* interfaces_claimed as it is built for a configuration: nobody claims.
Unclaimed(c) ==
  [i \in Ifaces |->
     IF c \in Configs /\ i \in ConfigIfaces[c] THEN Null ELSE Undefined]

\* The device has just been put into usb_devices; the pages are connected.
BgInit(c) ==
  /\ known = TRUE
  /\ usb_txns = {}
  /\ next_id = 1
  /\ pages = Pages
  /\ opened_count = 0
  /\ interfaces_claimed = Unclaimed(c)
  /\ current_config = c
  /\ page_devices = {}
  /\ opened = [p \in Pages |-> FALSE]
  /\ claimed_interfaces = [p \in Pages |-> {}]
  /\ transactions = [p \in Pages |-> {}]
  /\ outstanding = [p \in Pages |-> {}]
  /\ view_opened = [p \in Pages |-> FALSE]
  /\ view_claimed = [p \in Pages |-> {}]

--------------------------------------------------------------------------------
(* queue_transaction and abort_transactions.                                *)

\* The txn_refs abort_transactions(intf) sweeps: everything for -2, what is
\* not aimed at the device for -1, else what is aimed at that interface.
Everything(p) == transactions[p]
AllInterfaces(p) == {r \in transactions[p] : r.intf # DeviceTarget}
ThisInterface(p, i) == {r \in transactions[p] : r.intf = i}
Nothing == {}

Ids(refs) == {r.id : r \in refs}

\* usb_txns after the refs were aborted: the entries stay, dead, until the
\* stub answers them.
MarkDead(refs) ==
  {IF t.id \in Ids(refs) THEN [t EXCEPT !.alive = FALSE] ELSE t : t \in usb_txns}

\* Abort `refs` of page p (posting "abort" for each), queue one transaction
\* for the page's call and send its request to the stub.
Queue(p, refs, type, cb, iface, value) ==
  LET id == next_id
      txn == [id |-> id, page |-> p, cb |-> cb, iface |-> iface,
              value |-> value, alive |-> TRUE]
      ref == [id |-> id, intf |-> iface]
  IN  /\ next_id <= MaxTxn
      /\ next_id' = next_id + 1
      /\ usb_txns' = MarkDead(refs) \cup {txn}
      /\ transactions' = [transactions EXCEPT ![p] = (@ \ refs) \cup {ref}]
      /\ outstanding' = [outstanding EXCEPT ![p] = (@ \ Ids(refs)) \cup {id}]
      /\ to_stub' = Append(to_stub, Request(type, id, iface, value))
      /\ UNCHANGED to_bg

\* What queueing alone leaves as it was.
QueueUnchanged ==
  UNCHANGED <<known, pages, device_vars, opened, claimed_interfaces,
              view_opened, view_claimed>>

\* get_usb_device(m): the page is connected and its handle is valid.
HasDevice(p) == p \in pages /\ p \in page_devices

\* get_usb_device(m, true): also open, and the device is configured.
HasOpenDevice(p) == HasDevice(p) /\ opened[p] /\ current_config # Unconfigured

--------------------------------------------------------------------------------
(* Requests of a page: one action per branch of the onMessage handler that  *)
(* has an effect.                                                           *)

\* request_device: the user picked this device; open_device makes the page's
\* PerPageUSBDevice.
RequestDevice(p) ==
  /\ p \in pages /\ known
  /\ p \notin page_devices
  /\ page_devices' = page_devices \cup {p}
  /\ UNCHANGED <<router_vars, opened_count, interfaces_claimed, current_config,
                 page_dev_vars, view_vars, to_stub, to_bg>>

\* open when the page has it open already: success at once.
OpenAgain(p) ==
  /\ HasDevice(p) /\ opened[p]
  /\ view_opened' = [view_opened EXCEPT ![p] = TRUE]
  /\ UNCHANGED <<router_vars, device_vars, page_dev_vars, outstanding,
                 view_claimed, to_stub, to_bg>>

\* open when another page has it open: no request to the stub.
OpenShared(p) ==
  /\ HasDevice(p) /\ ~opened[p] /\ opened_count > 0
  /\ opened_count' = opened_count + 1
  /\ opened' = [opened EXCEPT ![p] = TRUE]
  /\ view_opened' = [view_opened EXCEPT ![p] = TRUE]
  /\ UNCHANGED <<router_vars, interfaces_claimed, current_config, page_devices,
                 claimed_interfaces, transactions, outstanding, view_claimed,
                 to_stub, to_bg>>

\* open when nobody has it open.
OpenFirst(p) ==
  /\ HasDevice(p) /\ ~opened[p] /\ ~(opened_count > 0)
  /\ Queue(p, Nothing, "OpenDevice", "open", DeviceTarget, Unconfigured)
  /\ QueueUnchanged

Open(p) == OpenAgain(p) \/ OpenShared(p) \/ OpenFirst(p)

\* The claimed interfaces in the order a for-in loop visits them: ascending.
Ascending(S) ==
  LET n == Cardinality(S) IN
    {ord \in [1 .. n -> S] : \A j, k \in 1 .. n : j < k => ord[j] < ord[k]}

\* Faulty variant: the count is tested before it is decremented.
CloseRequestsEarly(ord) ==
  [k \in 1 .. Len(ord) |->
     Request("ReleaseInterface", next_id + k - 1, ord[k], Unconfigured)]

\* The requests PerPageUSBDevice.close sends: one release per interface the
\* page has claimed and, when the count drops to zero, the close.
CloseRequests(ord) ==
  LET n == Len(ord)
      release == [k \in 1 .. n |->
        Request("ReleaseInterface", next_id + k - 1, ord[k], Unconfigured)]
      close == Request("CloseDevice", next_id + n, DeviceTarget, Unconfigured)
  IN  IF opened_count = 1 THEN Append(release, close) ELSE release

\* Their entries in usb_txns.  They belong to no page call: they are in no
\* `transactions`, so nothing aborts them.
CloseTransaction(p, m) ==
  [id |-> m.id, page |-> p,
   cb |-> IF m.type = "CloseDevice" THEN "close" ELSE "close_release",
   iface |-> m.iface, value |-> Unconfigured, alive |-> TRUE]

\* PerPageUSBDevice.close.  The claims are given up only when the stub has
\* confirmed each release.
CloseDeviceOfPage(p) ==
  \E ord \in Ascending(claimed_interfaces[p]) :
    LET sent == CloseRequests(ord) IN
      /\ next_id + Len(sent) <= MaxTxn + 1
      /\ next_id' = next_id + Len(sent)
      /\ usb_txns' = MarkDead(Everything(p))
                       \cup {CloseTransaction(p, sent[k]) : k \in 1 .. Len(sent)}
      /\ transactions' = [transactions EXCEPT ![p] = {}]
      /\ to_stub' = to_stub \o sent
      /\ opened' = [opened EXCEPT ![p] = FALSE]
      /\ opened_count' = opened_count - 1
      /\ UNCHANGED to_bg

\* Faulty variant: closing without having opened.
ClosePageUnchecked(p) ==
  /\ HasDevice(p)
  /\ CloseDeviceOfPage(p)
  /\ outstanding' = [outstanding EXCEPT ![p] = @ \ Ids(Everything(p))]
  /\ view_opened' = [view_opened EXCEPT ![p] = FALSE]
  /\ view_claimed' = [view_claimed EXCEPT ![p] = {}]
  /\ UNCHANGED <<known, pages, interfaces_claimed, current_config, page_devices,
                 claimed_interfaces>>

\* close: success is reported at once, whatever becomes of the requests.
ClosePage(p) ==
  /\ HasDevice(p) /\ opened[p]
  /\ CloseDeviceOfPage(p)
  /\ outstanding' = [outstanding EXCEPT ![p] = @ \ Ids(Everything(p))]
  /\ view_opened' = [view_opened EXCEPT ![p] = FALSE]
  /\ view_claimed' = [view_claimed EXCEPT ![p] = {}]
  /\ UNCHANGED <<known, pages, interfaces_claimed, current_config, page_devices,
                 claimed_interfaces>>

\* close when the page does not have it open (an open may be under way):
\* success at once.
CloseAgain(p) ==
  /\ HasDevice(p) /\ ~opened[p]
  /\ view_opened' = [view_opened EXCEPT ![p] = FALSE]
  /\ view_claimed' = [view_claimed EXCEPT ![p] = {}]
  /\ UNCHANGED <<router_vars, device_vars, page_dev_vars, outstanding,
                 to_stub, to_bg>>

Close(p) == ClosePage(p) \/ CloseAgain(p)

Reset(p) ==
  /\ HasOpenDevice(p)
  /\ Queue(p, Everything(p), "ResetDevice", "reset", DeviceTarget, Unconfigured)
  /\ QueueUnchanged

SetConfig(p, c) ==
  /\ HasDevice(p) /\ opened[p]
  /\ Queue(p, AllInterfaces(p), "SetConfiguration", "set_config", DeviceTarget, c)
  /\ QueueUnchanged

\* claim_interface of an interface the page holds: success at once.
ClaimAgain(p, i) ==
  /\ HasOpenDevice(p) /\ interfaces_claimed[i] # Undefined
  /\ i \in claimed_interfaces[p]
  /\ view_claimed' = [view_claimed EXCEPT ![p] = @ \cup {i}]
  /\ UNCHANGED <<router_vars, device_vars, page_dev_vars, outstanding,
                 view_opened, to_stub, to_bg>>

\* claim_interface of an interface nobody holds.
ClaimFree(p, i) ==
  /\ HasOpenDevice(p) /\ interfaces_claimed[i] = Null
  /\ i \notin claimed_interfaces[p]
  /\ i \in ConfigIfaces[current_config] \ Protected
  /\ Queue(p, Nothing, "ClaimInterface", "claim_interface", i, Unconfigured)
  /\ QueueUnchanged

Claim(p, i) == ClaimAgain(p, i) \/ ClaimFree(p, i)

\* release_interface of an interface the page does not hold: success at once.
ReleaseAgain(p, i) ==
  /\ HasOpenDevice(p) /\ interfaces_claimed[i] # Undefined
  /\ i \notin claimed_interfaces[p]
  /\ view_claimed' = [view_claimed EXCEPT ![p] = @ \ {i}]
  /\ UNCHANGED <<router_vars, device_vars, page_dev_vars, outstanding,
                 view_opened, to_stub, to_bg>>

ReleaseHeld(p, i) ==
  /\ HasOpenDevice(p) /\ interfaces_claimed[i] # Undefined
  /\ i \in claimed_interfaces[p]
  /\ Queue(p, Nothing, "ReleaseInterface", "release_interface", i, Unconfigured)
  /\ QueueUnchanged

Release(p, i) == ReleaseAgain(p, i) \/ ReleaseHeld(p, i)

\* set_alt_interface: aborts whatever the page has queued for the interface.
SetAlt(p, i) ==
  /\ HasOpenDevice(p) /\ interfaces_claimed[i] # Undefined
  /\ i \in claimed_interfaces[p] /\ i \in ConfigIfaces[current_config]
  /\ Queue(p, ThisInterface(p, i), "SetAltInterface", "set_alt_interface", i, Unconfigured)
  /\ QueueUnchanged

ClearHaltPage(p, i) ==
  /\ HasOpenDevice(p)
  /\ i \in claimed_interfaces[p] /\ i \in ConfigIfaces[current_config]
  /\ Queue(p, Nothing, "ClearHalt", "clear_halt", i, Unconfigured)
  /\ QueueUnchanged

\* ctrl_xfer: to the device, or to a claimed interface.
CtrlXfer(p, i) ==
  /\ HasOpenDevice(p)
  /\ i = DeviceTarget \/ i \in claimed_interfaces[p]
  /\ Queue(p, Nothing, "Transfer", "xfer", i, Unconfigured)
  /\ QueueUnchanged

\* data_xfer and isoc_xfer: to an endpoint the current configuration has.
DataXfer(p, i) ==
  /\ HasOpenDevice(p)
  /\ i \in claimed_interfaces[p] /\ i \in ConfigIfaces[current_config]
  /\ Queue(p, Nothing, "Transfer", "xfer", i, Unconfigured)
  /\ QueueUnchanged

PageRequest(p) ==
  \/ RequestDevice(p) \/ Open(p) \/ Close(p) \/ Reset(p)
  \/ \E c \in Configs : SetConfig(p, c)
  \/ \E i \in Ifaces : \/ Claim(p, i) \/ Release(p, i)
                       \/ SetAlt(p, i) \/ ClearHaltPage(p, i) \/ DataXfer(p, i)
  \/ \E i \in Targets : CtrlXfer(p, i)

--------------------------------------------------------------------------------
(* onDisconnect: delete_page.  The page is gone, so are its promises.       *)

PageGone(p) ==
  /\ p \in pages
  /\ pages' = pages \ {p}
  /\ page_devices' = page_devices \ {p}
  /\ outstanding' = [outstanding EXCEPT ![p] = {}]
  /\ UNCHANGED <<known, interfaces_claimed, current_config, claimed_interfaces,
                 view_opened, view_claimed>>

\* The page has the device open: close it, under a transaction id of page 0.
DisconnectOpen(p) ==
  /\ PageGone(p)
  /\ HasDevice(p) /\ opened[p]
  /\ CloseDeviceOfPage(p)

\* The page has no device, or has not opened it.  Nothing is aborted.
DisconnectIdle(p) ==
  /\ PageGone(p)
  /\ ~(HasDevice(p) /\ opened[p])
  /\ UNCHANGED <<usb_txns, next_id, opened_count, opened, transactions,
                 to_stub, to_bg>>

Disconnect(p) == DisconnectOpen(p) \/ DisconnectIdle(p)

--------------------------------------------------------------------------------
(* Messages from the stub.                                                  *)

\* The transaction of a reply is taken out of usb_txns; if it is alive its
\* callback drops the txn_ref and settles the page's promise.
Receive(m) ==
  /\ to_bg # <<>> /\ m = Head(to_bg)
  /\ to_bg' = Tail(to_bg)
  /\ usb_txns' = {t \in usb_txns : t.id # m.id}
  /\ UNCHANGED <<to_stub, known, next_id, pages, page_devices>>

\* Faulty variant: the page's promise is not settled.
SettleSilently(t) ==
  /\ transactions' = [transactions EXCEPT ![t.page] = {r \in @ : r.id # t.id}]
  /\ UNCHANGED outstanding

Settle(t) ==
  /\ transactions' = [transactions EXCEPT ![t.page] = {r \in @ : r.id # t.id}]
  /\ outstanding' = [outstanding EXCEPT ![t.page] = @ \ {t.id}]

\* The reply to a live transaction whose callback is one of cbs.
Callback(t, cbs, ok) ==
  /\ t \in usb_txns /\ t.alive /\ t.cb \in cbs
  /\ Receive(Reply(t.id, ok))
  /\ Settle(t)

\* Faulty variant: the open is not counted.
OnOpenedUncounted(t) ==
  /\ Callback(t, {"open"}, TRUE)
  /\ opened' = [opened EXCEPT ![t.page] = TRUE]
  /\ view_opened' = [view_opened EXCEPT ![t.page] = TRUE]
  /\ UNCHANGED <<opened_count, interfaces_claimed, current_config,
                 claimed_interfaces, view_claimed>>

OnOpened(t) ==
  /\ Callback(t, {"open"}, TRUE)
  /\ opened_count' = opened_count + 1
  /\ opened' = [opened EXCEPT ![t.page] = TRUE]
  /\ view_opened' = [view_opened EXCEPT ![t.page] = TRUE]
  /\ UNCHANGED <<interfaces_claimed, current_config, claimed_interfaces, view_claimed>>

\* Only the page that asked forgets its claims.
OnConfigSet(t) ==
  /\ Callback(t, {"set_config"}, TRUE)
  /\ current_config' = t.value
  /\ interfaces_claimed' = Unclaimed(t.value)
  /\ claimed_interfaces' = [claimed_interfaces EXCEPT ![t.page] = {}]
  /\ view_claimed' = [view_claimed EXCEPT ![t.page] = {}]
  /\ UNCHANGED <<opened_count, opened, view_opened>>

OnClaimed(t) ==
  /\ Callback(t, {"claim_interface"}, TRUE)
  /\ interfaces_claimed' = [interfaces_claimed EXCEPT ![t.iface] = t.page]
  /\ claimed_interfaces' = [claimed_interfaces EXCEPT ![t.page] = @ \cup {t.iface}]
  /\ view_claimed' = [view_claimed EXCEPT ![t.page] = @ \cup {t.iface}]
  /\ UNCHANGED <<opened_count, current_config, opened, view_opened>>

\* Faulty variants: the owner is not cleared; the page is not told.
OnReleasedKeepsOwner(t) ==
  /\ Callback(t, {"release_interface", "close_release"}, TRUE)
  /\ claimed_interfaces' = [claimed_interfaces EXCEPT ![t.page] = @ \ {t.iface}]
  /\ view_claimed' = [view_claimed EXCEPT ![t.page] = @ \ {t.iface}]
  /\ UNCHANGED <<opened_count, interfaces_claimed, current_config, opened, view_opened>>
OnReleasedSilently(t) ==
  /\ Callback(t, {"release_interface", "close_release"}, TRUE)
  /\ interfaces_claimed' = [interfaces_claimed EXCEPT ![t.iface] = Null]
  /\ claimed_interfaces' = [claimed_interfaces EXCEPT ![t.page] = @ \ {t.iface}]
  /\ UNCHANGED <<opened_count, current_config, opened, view_opened, view_claimed>>

\* The release of a close posts nothing to the page, which is why only the
\* answer to release_interface changes the page's view.
OnReleased(t) ==
  /\ Callback(t, {"release_interface", "close_release"}, TRUE)
  /\ interfaces_claimed' = [interfaces_claimed EXCEPT ![t.iface] = Null]
  /\ claimed_interfaces' = [claimed_interfaces EXCEPT ![t.page] = @ \ {t.iface}]
  /\ view_claimed' = IF t.cb = "release_interface"
                     THEN [view_claimed EXCEPT ![t.page] = @ \ {t.iface}]
                     ELSE view_claimed
  /\ UNCHANGED <<opened_count, current_config, opened, view_opened>>

NoStateChange ==
  UNCHANGED <<opened_count, interfaces_claimed, current_config, opened,
              claimed_interfaces, view_opened, view_claimed>>

\* Success of an operation the broker keeps no state of.
OnDone(t) ==
  /\ Callback(t, {"reset", "set_alt_interface", "clear_halt", "xfer", "close"}, TRUE)
  /\ NoStateChange

\* map_native_error: whatever was asked, the broker's state stays as it was.
OnError(t) ==
  /\ Callback(t, Callbacks, FALSE)
  /\ NoStateChange

\* The answer to a transaction that was aborted meanwhile is thrown away.
OnDeadReply ==
  \E m \in {Head(to_bg)} :
    /\ Receive(m) /\ IsReply(m)
    /\ ~\E t \in usb_txns : t.id = m.id /\ t.alive
    /\ NoStateChange
    /\ UNCHANGED <<transactions, outstanding>>

StubReply ==
  \/ \E t \in usb_txns : \/ OnOpened(t) \/ OnConfigSet(t) \/ OnClaimed(t)
                         \/ OnReleased(t) \/ OnDone(t) \/ OnError(t)
  \/ to_bg # <<>> /\ OnDeadReply

\* UnplugDevice: every page's device is invalidated and the record dropped.
\* Transactions are not aborted: the stub will return them.
UnplugDevice ==
  /\ to_bg # <<>> /\ Head(to_bg) = UnplugEvent
  /\ to_bg' = Tail(to_bg)
  /\ known' = FALSE
  /\ page_devices' = {}
  /\ UNCHANGED <<to_stub, usb_txns, next_id, pages, opened_count, interfaces_claimed,
                 current_config, page_dev_vars, view_vars>>

BgReceive == StubReply \/ UnplugDevice

BgNext == (\E p \in Pages : PageRequest(p) \/ Disconnect(p)) \/ BgReceive

================================================================================
