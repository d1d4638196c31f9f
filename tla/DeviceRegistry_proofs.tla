-------------------------- MODULE DeviceRegistry_proofs ------------------------
(***************************************************************************)
(* DeviceRegistry: types, handles, permissions and the pages' maps, for    *)
(* any pages, devices and ids.                                             *)
(*                                                                         *)
(* A device is registered once: its one message of the enumeration is on   *)
(* its way, or its transfer is under way, or its notification is, or it is *)
(* registered (OneRegistration).  So a page that gets a handle for it has  *)
(* none yet.                                                               *)
(* A reference from a device leads to a handle (RefsOpen), so that         *)
(* unplugging takes away the handles of that device and no others.         *)
(***************************************************************************)
EXTENDS DeviceRegistry, TLAPS, SequenceTheorems

\* The devices whose enumeration awaits a message of the queue.
Enumerating(q) == {q[k].sid : k \in {k \in DOMAIN q : q[k].type # "UnplugDevice"}}
Distinct(q) ==
  \A j, k \in DOMAIN q :
    q[j].type # "UnplugDevice" /\ q[k].type # "UnplugDevice" /\ q[j].sid = q[k].sid
      => j = k

OneRegistration ==
  /\ Distinct(to_bg)
  /\ Enumerating(to_bg) \cap (asked \cup notifying \cup usb_devices) = {}
  /\ asked \cap (notifying \cup usb_devices) = {}
  /\ notifying \cap usb_devices = {}
  /\ \A s \in Enumerating(to_bg) \cup asked \cup notifying \cup usb_devices :
       connection[s] # "unused"

HandlesFresh ==
  \A p \in Pages : \A o \in opened_devices[p] : o.handle < next_device_id[p]

RefsOpen ==
  \A s \in Sids : \A r \in page_devices[s] :
    [handle |-> r.handle, sid |-> s] \in opened_devices[r.page]

\* A handle that has not been given up stands under the permissions.
HandlesAllowed ==
  \A p \in Pages : \A o \in opened_devices[p] :
    \/ o.handle \in forgotten[p]
    \/ [ids |-> ids_of[o.sid], handle |-> o.handle] \in allowed_handles[p]

KeysGranted == \A p \in Pages : allowed_keys[p] \subseteq granted[p]

HandleInv == HandlesAgree /\ HandlesFresh /\ RefsOpen /\ HandlesAllowed

IInv ==
  /\ TypeOK /\ OneRegistration /\ HandleInv /\ BackRefs /\ ViewFollows
  /\ KeysGranted /\ Consent /\ UnserialConsentEnds

--------------------------------------------------------------------------------
(* The queue.                                                               *)

LEMMA TailMsg ==
  ASSUME NEW q \in Seq(Message), q # <<>>, Distinct(q)
  PROVE  /\ Head(q) \in Message /\ Tail(q) \in Seq(Message) /\ Distinct(Tail(q))
         /\ Enumerating(Tail(q)) \subseteq Enumerating(q)
         /\ Head(q).type # "UnplugDevice" =>
              Head(q).sid \in Enumerating(q) \ Enumerating(Tail(q))
<1>1. /\ Len(q) \in Nat /\ Len(q) >= 1 /\ DOMAIN q = 1 .. Len(q)
      /\ Head(q) = q[1] /\ Tail(q) \in Seq(Message)
      /\ DOMAIN Tail(q) = 1 .. Len(q) - 1
      /\ \A k \in 1 .. Len(q) - 1 : Tail(q)[k] = q[k + 1]
  BY HeadTailProperties, EmptySeq
<1>2. \A k \in 1 .. Len(q) - 1 : k + 1 \in 1 .. Len(q) /\ k + 1 # 1
  BY <1>1
<1>3. 1 \in 1 .. Len(q)
  BY <1>1
<1>4. Distinct(Tail(q))
  BY <1>1, <1>2 DEF Distinct
<1>5. Enumerating(Tail(q)) \subseteq Enumerating(q)
  BY <1>1, <1>2 DEF Enumerating
<1>6. ASSUME Head(q).type # "UnplugDevice"
      PROVE  Head(q).sid \in Enumerating(q) \ Enumerating(Tail(q))
  <2>1. Head(q).sid \in Enumerating(q)
    BY <1>1, <1>3, <1>6 DEF Enumerating
  <2>2. Head(q).sid \notin Enumerating(Tail(q))
    BY <1>1, <1>2, <1>3, <1>6 DEF Enumerating, Distinct
  <2> QED BY <2>1, <2>2
<1>7. Head(q) \in Message
  BY HeadTailProperties
<1> QED BY <1>1, <1>4, <1>5, <1>6, <1>7

LEMMA AppendMsg ==
  ASSUME NEW q \in Seq(Message), NEW m \in Message, Distinct(q),
         m.type = "UnplugDevice" \/ m.sid \notin Enumerating(q)
  PROVE  /\ Append(q, m) \in Seq(Message) /\ Distinct(Append(q, m))
         /\ Enumerating(Append(q, m)) =
              Enumerating(q) \cup (IF m.type = "UnplugDevice" THEN {} ELSE {m.sid})
<1>1. /\ Len(q) \in Nat /\ DOMAIN q = 1 .. Len(q)
      /\ Append(q, m) \in Seq(Message)
      /\ DOMAIN Append(q, m) = 1 .. Len(q) + 1
      /\ \A k \in 1 .. Len(q) : Append(q, m)[k] = q[k]
      /\ Append(q, m)[Len(q) + 1] = m
  BY AppendProperties
<1>2. \A k \in 1 .. Len(q) + 1 : k \in 1 .. Len(q) \/ k = Len(q) + 1
  BY <1>1
<1>3. \A k \in 1 .. Len(q) : k \in 1 .. Len(q) + 1
  BY <1>1
<1>4. Len(q) + 1 \in 1 .. Len(q) + 1
  BY <1>1
<1>5. Distinct(Append(q, m))
  BY <1>1, <1>2 DEF Distinct, Enumerating
<1>6. Enumerating(Append(q, m)) \subseteq
        Enumerating(q) \cup (IF m.type = "UnplugDevice" THEN {} ELSE {m.sid})
  BY <1>1, <1>2 DEF Enumerating
<1>7. Enumerating(q) \subseteq Enumerating(Append(q, m))
  BY <1>1, <1>3 DEF Enumerating
<1>8. m.type # "UnplugDevice" => m.sid \in Enumerating(Append(q, m))
  BY <1>1, <1>4 DEF Enumerating
<1> QED BY <1>1, <1>5, <1>6, <1>7, <1>8

--------------------------------------------------------------------------------
(* Handles.                                                                 *)

HandleTypes ==
  /\ page_devices \in [Sids -> SUBSET PerPageUSBDevice]
  /\ allowed_handles \in [Pages -> SUBSET Allowed]
  /\ opened_devices \in [Pages -> SUBSET Opened]
  /\ sid_to_handle \in [Pages -> [Sids -> Nat \cup {NoHandle}]]
  /\ next_device_id \in [Pages -> Nat]

\* Pages that have no handle of a device get one.
LEMMA AddHandlesStep ==
  ASSUME IInv, NEW P \in SUBSET Pages, NEW s \in Sids, AddHandles(P, s),
         UNCHANGED <<ids_of, forgotten>>,
         \A p \in P : \A o \in opened_devices[p] : o.sid # s
  PROVE  HandleTypes' /\ HandleInv'
<1> DEFINE n(p) == next_device_id[p]
           Fresh(p) == [handle |-> n(p), sid |-> s]
<1>1. HandleTypes /\ HandleInv /\ ids_of \in [Sids -> Ids]
  BY DEF IInv, TypeOK, HandleTypes
<1>2. \A p \in Pages : n(p) \in Nat /\ Fresh(p) \in Opened
  BY <1>1 DEF HandleTypes, Opened
<1>3. /\ next_device_id' \in [Pages -> Nat]
      /\ \A p \in Pages : next_device_id'[p] = IF p \in P THEN n(p) + 1 ELSE n(p)
  BY <1>1, <1>2 DEF AddHandles, HandleTypes
<1>4. /\ opened_devices' \in [Pages -> SUBSET Opened]
      /\ \A p \in Pages : opened_devices'[p] =
           opened_devices[p] \cup (IF p \in P THEN {Fresh(p)} ELSE {})
  BY <1>1, <1>2 DEF AddHandles, HandleTypes
<1>5. /\ allowed_handles' \in [Pages -> SUBSET Allowed]
      /\ \A p \in Pages : allowed_handles'[p] = allowed_handles[p] \cup
           (IF p \in P THEN {[ids |-> ids_of[s], handle |-> n(p)]} ELSE {})
  BY <1>1, <1>2 DEF AddHandles, HandleTypes, Allowed
<1>6. /\ sid_to_handle' \in [Pages -> [Sids -> Nat \cup {NoHandle}]]
      /\ \A p \in Pages, t \in Sids : sid_to_handle'[p][t] =
           IF p \in P /\ t = s THEN n(p) ELSE sid_to_handle[p][t]
  BY <1>1, <1>2 DEF AddHandles, HandleTypes
<1>7. /\ page_devices' \in [Sids -> SUBSET PerPageUSBDevice]
      /\ \A t \in Sids : page_devices'[t] = page_devices[t] \cup
           (IF t = s THEN {[page |-> p, handle |-> n(p)] : p \in P} ELSE {})
  <2> DEFINE new == {[page |-> p, handle |-> n(p)] : p \in P}
  <2>1. \A p \in P : [page |-> p, handle |-> n(p)] \in PerPageUSBDevice
    BY <1>2 DEF PerPageUSBDevice
  <2>2. new \subseteq PerPageUSBDevice
    BY <2>1
  <2>3. page_devices' = [page_devices EXCEPT ![s] = @ \cup new]
    BY DEF AddHandles
  <2>4. page_devices \in [Sids -> SUBSET PerPageUSBDevice]
    BY <1>1 DEF HandleTypes
  <2> HIDE DEF new
  <2>5. /\ page_devices' \in [Sids -> SUBSET PerPageUSBDevice]
        /\ \A t \in Sids : page_devices'[t] =
             page_devices[t] \cup (IF t = s THEN new ELSE {})
    BY <2>2, <2>3, <2>4
  <2> QED BY <2>5 DEF new
<1>8. \A p \in Pages : \A o \in opened_devices[p] : o.handle \in Nat /\ o.sid \in Sids
                                                     /\ o.handle < n(p)
  BY <1>1 DEF HandleTypes, HandleInv, HandlesFresh, Opened
<1> HIDE DEF n
<1>9. HandlesAgree'
  <2>1. ASSUME NEW p \in Pages, NEW t \in Sids, sid_to_handle'[p][t] # NoHandle
        PROVE  [handle |-> sid_to_handle'[p][t], sid |-> t] \in opened_devices'[p]
    BY <1>1, <1>4, <1>6, <2>1 DEF HandleInv, HandlesAgree
  <2>2. ASSUME NEW p \in Pages, NEW o \in opened_devices'[p]
        PROVE  sid_to_handle'[p][o.sid] = o.handle
    <3>1. CASE o \in opened_devices[p]
      <4>1. o.sid \in Sids /\ sid_to_handle[p][o.sid] = o.handle
        BY <1>1, <1>8, <3>1 DEF HandleInv, HandlesAgree
      <4>2. ~(p \in P /\ o.sid = s)
        BY <3>1
      <4> QED BY <1>6, <4>1, <4>2
    <3>2. CASE p \in P /\ o = Fresh(p)
      BY <1>6, <3>2
    <3> QED BY <1>4, <3>1, <3>2
  <2>3. ASSUME NEW p \in Pages, NEW o1 \in opened_devices'[p],
               NEW o2 \in opened_devices'[p], o1.handle = o2.handle
        PROVE  o1 = o2
    <3>1. CASE o1 \in opened_devices[p] /\ o2 \in opened_devices[p]
      BY <1>1, <2>3, <3>1 DEF HandleInv, HandlesAgree
    <3>2. \A o \in opened_devices[p] : o.handle # Fresh(p).handle
      BY <1>2, <1>8
    <3> QED BY <1>4, <2>3, <3>1, <3>2
  <2> QED BY <2>1, <2>2, <2>3 DEF HandlesAgree
<1>10. HandlesFresh'
  <2> SUFFICES ASSUME NEW p \in Pages, NEW o \in opened_devices'[p]
               PROVE  o.handle < next_device_id'[p]
    BY DEF HandlesFresh
  <2>1. CASE o \in opened_devices[p]
    <3>1. n(p) \in Nat /\ o.handle \in Nat /\ o.handle < n(p)
      BY <1>2, <1>8, <2>1
    <3> QED BY <1>3, <3>1
  <2>2. CASE p \in P /\ o = Fresh(p)
    BY <1>2, <1>3, <2>2
  <2> QED BY <1>4, <2>1, <2>2
<1>11. RefsOpen'
  <2> SUFFICES ASSUME NEW t \in Sids, NEW r \in page_devices'[t]
               PROVE  [handle |-> r.handle, sid |-> t] \in opened_devices'[r.page]
    BY DEF RefsOpen
  <2>1. CASE r \in page_devices[t]
    <3>1. r.page \in Pages /\ [handle |-> r.handle, sid |-> t] \in opened_devices[r.page]
      BY <1>1, <2>1 DEF HandleInv, RefsOpen, HandleTypes, PerPageUSBDevice
    <3> QED BY <1>4, <3>1
  <2>2. CASE t = s /\ r \in {[page |-> p, handle |-> n(p)] : p \in P}
    <3>1. PICK p \in P : r = [page |-> p, handle |-> n(p)]
      BY <2>2
    <3> QED BY <1>4, <2>2, <3>1
  <2> QED BY <1>7, <2>1, <2>2
<1>12. HandlesAllowed'
  BY <1>1, <1>4, <1>5 DEF HandleInv, HandlesAllowed
<1> QED BY <1>3, <1>4, <1>5, <1>6, <1>7, <1>9, <1>10, <1>11, <1>12
    DEF HandleTypes, HandleInv

\* A device takes its handles with it, and no others.
LEMMA RefsAreItsHandles ==
  ASSUME IInv, NEW s \in Sids, NEW p \in Pages
  PROVE  /\ \A h \in RefsIn(p, s) : [handle |-> h, sid |-> s] \in opened_devices[p]
         /\ \A o \in opened_devices[p] : o.handle \in RefsIn(p, s) => o.sid = s
         /\ RefsIn(p, s) # {} =>
              \A o \in opened_devices[p] : o.sid = s => o.handle \in RefsIn(p, s)
         /\ p \in pages =>
              \A o \in opened_devices[p] : o.sid = s => o.handle \in RefsIn(p, s)
<1>1. \A h \in RefsIn(p, s) : [handle |-> h, sid |-> s] \in opened_devices[p]
  BY DEF IInv, HandleInv, RefsOpen, RefsIn
<1>2. ASSUME NEW o \in opened_devices[p], o.handle \in RefsIn(p, s)
      PROVE  o.sid = s
  <2> DEFINE o2 == [handle |-> o.handle, sid |-> s]
  <2>1. o2 \in opened_devices[p]
    BY <1>1, <1>2
  <2>2. o = o2
    BY <2>1 DEF IInv, HandleInv, HandlesAgree
  <2> QED BY <2>2
<1>3. ASSUME NEW h \in RefsIn(p, s), NEW o \in opened_devices[p], o.sid = s
      PROVE  o.handle \in RefsIn(p, s)
  <2> DEFINE o2 == [handle |-> h, sid |-> s]
  <2>1. o2 \in opened_devices[p]
    BY <1>1
  <2>2. \A x \in opened_devices[p] : sid_to_handle[p][x.sid] = x.handle
    BY DEF IInv, HandleInv, HandlesAgree
  <2>3. sid_to_handle[p][s] = o.handle /\ sid_to_handle[p][s] = h
    BY <1>3, <2>1, <2>2
  <2> QED BY <2>3
<1>4. ASSUME p \in pages, NEW o \in opened_devices[p], o.sid = s
      PROVE  o.handle \in RefsIn(p, s)
  <2> DEFINE r == [page |-> p, handle |-> o.handle]
  <2>1. r \in page_devices[s] /\ r.page = p /\ r.handle = o.handle
    BY <1>4 DEF IInv, BackRefs
  <2> QED BY <2>1 DEF RefsIn
<1> QED BY <1>1, <1>2, <1>3, <1>4

LEMMA InvalidateStep ==
  ASSUME IInv, NEW s \in Sids, Invalidate(s), UNCHANGED <<ids_of, forgotten>>
  PROVE  /\ HandleTypes' /\ HandleInv'
         /\ \A p \in Pages :
              opened_devices'[p] = {o \in opened_devices[p] : o.handle \notin RefsIn(p, s)}
<1>1. HandleTypes /\ HandleInv /\ ids_of \in [Sids -> Ids]
  BY DEF IInv, TypeOK, HandleTypes
<1>2. /\ opened_devices' \in [Pages -> SUBSET Opened]
      /\ \A p \in Pages :
           opened_devices'[p] = {o \in opened_devices[p] : o.handle \notin RefsIn(p, s)}
  BY <1>1 DEF Invalidate, HandleTypes
<1>3. /\ allowed_handles' \in [Pages -> SUBSET Allowed]
      /\ \A p \in Pages : allowed_handles'[p] =
           {a \in allowed_handles[p] : ~(a.ids = ids_of[s] /\ a.handle \in AllowedRefs(p, s))}
  BY <1>1 DEF Invalidate, Disallow, HandleTypes
<1>4. /\ sid_to_handle' \in [Pages -> [Sids -> Nat \cup {NoHandle}]]
      /\ \A p \in Pages, t \in Sids : sid_to_handle'[p][t] =
           IF RefsIn(p, s) # {} /\ t = s THEN NoHandle ELSE sid_to_handle[p][t]
  BY <1>1 DEF Invalidate, HandleTypes
<1>5. /\ page_devices' \in [Sids -> SUBSET PerPageUSBDevice]
      /\ \A t \in Sids : page_devices'[t] = IF t = s THEN {} ELSE page_devices[t]
  BY <1>1 DEF Invalidate, HandleTypes
<1>6. UNCHANGED next_device_id
  BY DEF Invalidate
<1>7. \A p \in Pages : \A o \in opened_devices[p] : o \in Opened
  BY <1>1 DEF HandleTypes
<1>8. HandlesAgree'
  <2>1. ASSUME NEW p \in Pages, NEW t \in Sids, sid_to_handle'[p][t] # NoHandle
        PROVE  [handle |-> sid_to_handle'[p][t], sid |-> t] \in opened_devices'[p]
    <3> DEFINE o == [handle |-> sid_to_handle[p][t], sid |-> t]
    <3>1. sid_to_handle'[p][t] = sid_to_handle[p][t] /\ (RefsIn(p, s) = {} \/ t # s)
      BY <1>4, <2>1
    <3>2. o \in opened_devices[p]
      BY <1>1, <2>1, <3>1 DEF HandleInv, HandlesAgree
    <3>3. o.handle \notin RefsIn(p, s)
      BY <3>1, <3>2, RefsAreItsHandles
    <3> QED BY <1>2, <3>1, <3>2, <3>3
  <2>2. ASSUME NEW p \in Pages, NEW o \in opened_devices'[p]
        PROVE  sid_to_handle'[p][o.sid] = o.handle
    <3>1. o \in opened_devices[p] /\ o.handle \notin RefsIn(p, s)
      BY <1>2
    <3>2. o.sid \in Sids /\ sid_to_handle[p][o.sid] = o.handle
      BY <1>1, <1>7, <3>1 DEF HandleInv, HandlesAgree, Opened
    <3>3. RefsIn(p, s) = {} \/ o.sid # s
      BY <3>1, RefsAreItsHandles
    <3> QED BY <1>4, <3>2, <3>3
  <2>3. ASSUME NEW p \in Pages, NEW o1 \in opened_devices'[p],
               NEW o2 \in opened_devices'[p], o1.handle = o2.handle
        PROVE  o1 = o2
    BY <1>1, <1>2, <2>3 DEF HandleInv, HandlesAgree
  <2> QED BY <2>1, <2>2, <2>3 DEF HandlesAgree
<1>9. HandlesFresh'
  BY <1>1, <1>2, <1>6 DEF HandleInv, HandlesFresh
<1>10. RefsOpen'
  <2> SUFFICES ASSUME NEW t \in Sids, NEW r \in page_devices'[t]
               PROVE  [handle |-> r.handle, sid |-> t] \in opened_devices'[r.page]
    BY DEF RefsOpen
  <2>1. t # s /\ r \in page_devices[t] /\ r.page \in Pages
    BY <1>1, <1>5 DEF HandleTypes, PerPageUSBDevice
  <2> DEFINE o == [handle |-> r.handle, sid |-> t]
  <2>2. o \in opened_devices[r.page]
    BY <1>1, <2>1 DEF HandleInv, RefsOpen
  <2>3. o.handle \notin RefsIn(r.page, s)
    BY <2>1, <2>2, RefsAreItsHandles
  <2> QED BY <1>2, <2>1, <2>2, <2>3
<1>11. HandlesAllowed'
  <2> SUFFICES ASSUME NEW p \in Pages, NEW o \in opened_devices'[p],
                      o.handle \notin forgotten[p]
               PROVE  [ids |-> ids_of[o.sid], handle |-> o.handle] \in allowed_handles'[p]
    BY DEF HandlesAllowed
  <2>1. o \in opened_devices[p] /\ o.handle \notin AllowedRefs(p, s)
    BY <1>2 DEF AllowedRefs
  <2>2. [ids |-> ids_of[o.sid], handle |-> o.handle] \in allowed_handles[p]
    BY <1>1, <2>1 DEF HandleInv, HandlesAllowed
  <2> QED BY <1>3, <2>1, <2>2
<1> QED BY <1>1, <1>2, <1>3, <1>4, <1>5, <1>6, <1>8, <1>9, <1>10, <1>11
    DEF HandleTypes, HandleInv

--------------------------------------------------------------------------------
(* One step per action.                                                     *)

Sharing ==
  HandleInv /\ BackRefs /\ ViewFollows /\ KeysGranted /\ Consent /\ UnserialConsentEnds

Handles(p) == {o.handle : o \in opened_devices[p]}

\* Nothing happens to handles; a device may be registered.
LEMMA HandlesKept ==
  ASSUME IInv, usb_devices \subseteq usb_devices',
         UNCHANGED <<handle_vars, ids_of, forgotten, granted, pages>>
  PROVE  Sharing'
<1>1. UNCHANGED <<page_devices, allowed_keys, allowed_handles, opened_devices,
                  sid_to_handle, next_device_id, view, ids_of, forgotten, granted, pages>>
  BY DEF handle_vars
<1>2. HandleInv'
  BY <1>1 DEF IInv, HandleInv, HandlesAgree, HandlesFresh, RefsOpen, HandlesAllowed
<1>3. BackRefs' /\ ViewFollows'
  BY <1>1 DEF IInv, BackRefs, ViewFollows
<1>4. KeysGranted' /\ Consent' /\ UnserialConsentEnds'
  BY <1>1 DEF IInv, KeysGranted, Consent, UnserialConsentEnds
<1> QED BY <1>2, <1>3, <1>4 DEF Sharing

LEMMA KnownSids ==
  ASSUME IInv
  PROVE  Enumerating(to_bg) \cup asked \cup notifying \cup usb_devices \subseteq Sids
<1>1. /\ to_bg \in Seq(Message)
      /\ asked \subseteq Sids /\ notifying \subseteq Sids /\ usb_devices \subseteq Sids
  BY DEF IInv, TypeOK
<1>2. \A k \in DOMAIN to_bg : to_bg[k] \in Message
  BY <1>1
<1>3. \A k \in DOMAIN to_bg : to_bg[k].sid \in Sids
  BY <1>2 DEF Message
<1> QED BY <1>1, <1>3 DEF Enumerating

LEMMA StubStep ==
  ASSUME IInv, Stub
  PROVE  IInv'
<1> USE DEF stub_vars, new_device_vars
<1>1. PICK s \in Sids : Plug(s) \/ Unplug(s) \/ Answer(s)
  BY DEF Stub
<1>2. /\ UNCHANGED <<ids_of, new_device_vars, usb_devices, handle_vars, request_vars, pages, forgotten>>
      /\ connection' \in [Sids -> {"unused", "connected", "hup", "gone"}]
      /\ \A t \in Sids : connection[t] # "unused" => connection'[t] # "unused"
  BY <1>1 DEF Plug, Unplug, Answer, IInv, TypeOK
<1>3. Sharing'
  BY <1>2, HandlesKept DEF request_vars
<1>4. to_bg \in Seq(Message) /\ asked \subseteq Sids /\ OneRegistration
  BY DEF IInv, TypeOK
<1>5. \A type \in {"NewDevice", "UnplugDevice", "RequestComplete"} :
        /\ Msg(type, s) \in Message
        /\ Msg(type, s).type = type /\ Msg(type, s).sid = s
  BY DEF Msg, Message
<1>6. /\ to_bg' \in Seq(Message) /\ asked' \subseteq Sids
      /\ OneRegistration'
  <2>1. CASE Plug(s)
    <3>1. s \notin Enumerating(to_bg) \cup asked \cup notifying \cup usb_devices
      BY <1>4, <2>1 DEF Plug, OneRegistration
    <3>2. /\ to_bg' \in Seq(Message) /\ Distinct(to_bg')
          /\ Enumerating(to_bg') = Enumerating(to_bg) \cup {s}
      BY <1>4, <1>5, <2>1, <3>1, AppendMsg DEF Plug, OneRegistration
    <3>3. connection'[s] # "unused" /\ UNCHANGED <<asked, usb_devices>>
      BY <2>1 DEF Plug, IInv, TypeOK
    <3>4. Enumerating(to_bg) \cup asked \cup notifying \cup usb_devices \subseteq Sids
      BY KnownSids
    <3> QED BY <1>2, <1>4, <3>1, <3>2, <3>3, <3>4 DEF OneRegistration
  <2>2. CASE Unplug(s)
    <3>1. /\ to_bg' \in Seq(Message) /\ Distinct(to_bg')
          /\ Enumerating(to_bg') = Enumerating(to_bg)
      BY <1>4, <1>5, <2>2, AppendMsg DEF Unplug, OneRegistration
    <3>2. UNCHANGED <<asked, usb_devices>>
      BY <2>2 DEF Unplug
    <3>3. Enumerating(to_bg) \cup asked \cup notifying \cup usb_devices \subseteq Sids
      BY KnownSids
    <3> QED BY <1>2, <1>4, <3>1, <3>2, <3>3 DEF OneRegistration
  <2>3. CASE Answer(s)
    <3>1. s \in asked /\ asked' = asked \ {s} /\ UNCHANGED <<connection, usb_devices>>
      BY <2>3 DEF Answer
    <3>2. s \notin Enumerating(to_bg) \cup notifying \cup usb_devices
      BY <1>4, <3>1 DEF OneRegistration
    <3>3. /\ to_bg' \in Seq(Message) /\ Distinct(to_bg')
          /\ Enumerating(to_bg') = Enumerating(to_bg) \cup {s}
      BY <1>4, <1>5, <2>3, <3>2, AppendMsg DEF Answer, OneRegistration
    <3>4. Enumerating(to_bg) \cup asked \cup notifying \cup usb_devices \subseteq Sids
      BY KnownSids
    <3> QED BY <1>2, <1>4, <3>1, <3>2, <3>3, <3>4 DEF OneRegistration
  <2> QED BY <1>1, <2>1, <2>2, <2>3
<1>7. TypeOK'
  BY <1>2, <1>6 DEF IInv, TypeOK, handle_vars, request_vars
<1> QED BY <1>3, <1>6, <1>7 DEF IInv, Sharing

LEMMA ReceivedStep ==
  ASSUME IInv, NEW s \in Sids, NEW type, Received(type, s)
  PROVE  /\ to_bg' \in Seq(Message) /\ Distinct(to_bg')
         /\ Enumerating(to_bg') \subseteq Enumerating(to_bg)
         /\ type # "UnplugDevice" =>
              s \in Enumerating(to_bg) \ Enumerating(to_bg')
         /\ UNCHANGED <<connection, ids_of, requests, next_request, granted, pages, forgotten>>
<1>1. /\ to_bg # <<>> /\ to_bg' = Tail(to_bg)
      /\ Head(to_bg).type = type /\ Head(to_bg).sid = s
  BY DEF Received, Msg
<1>2. to_bg \in Seq(Message) /\ Distinct(to_bg)
  BY DEF IInv, TypeOK, OneRegistration
<1>3. UNCHANGED <<connection, ids_of, requests, next_request, granted, pages, forgotten>>
  BY DEF Received, request_vars
<1> QED BY <1>1, <1>2, <1>3, TailMsg

LEMMA AwaitStep ==
  ASSUME IInv, NEW s \in Sids, NEW type \in {"NewDevice", "RequestComplete"},
         Received(type, s), Await(s)
  PROVE  IInv'
<1>1. /\ to_bg' \in Seq(Message) /\ Distinct(to_bg')
      /\ Enumerating(to_bg') \subseteq Enumerating(to_bg)
      /\ s \in Enumerating(to_bg) \ Enumerating(to_bg')
      /\ UNCHANGED <<connection, ids_of, requests, next_request, granted, pages, forgotten>>
  BY ReceivedStep
<1>2. /\ asked' = asked \cup {s}
      /\ UNCHANGED <<usb_devices, handle_vars, notifying, looping, unannounced>>
      /\ probes' \in [Sids -> Nat]
  BY DEF Await, IInv, TypeOK
<1>3. Sharing'
  BY <1>1, <1>2, HandlesKept
<1>4. OneRegistration'
  BY <1>1, <1>2 DEF IInv, OneRegistration
<1>5. TypeOK'
  BY <1>1, <1>2 DEF IInv, TypeOK, handle_vars
<1> QED BY <1>3, <1>4, <1>5 DEF IInv, Sharing

LEMMA AnnounceStep ==
  ASSUME IInv, NEW s \in Sids, Received("RequestComplete", s), Announce(s) \/ SearchForever
  PROVE  IInv'
<1>1. /\ to_bg' \in Seq(Message) /\ Distinct(to_bg')
      /\ Enumerating(to_bg') \subseteq Enumerating(to_bg)
      /\ s \in Enumerating(to_bg) \ Enumerating(to_bg')
      /\ UNCHANGED <<connection, ids_of, requests, next_request, granted, pages, forgotten>>
  BY ReceivedStep
<1>2. /\ UNCHANGED <<asked, probes, unannounced, usb_devices, handle_vars>>
      /\ notifying' \in {notifying, notifying \cup {s}}
      /\ looping' \in {looping, TRUE}
  BY DEF Announce, SearchForever
<1>3. Sharing'
  BY <1>1, <1>2, HandlesKept
<1>4. OneRegistration'
  BY <1>1, <1>2 DEF IInv, OneRegistration
<1>5. TypeOK'
  BY <1>1, <1>2 DEF IInv, TypeOK, handle_vars
<1> QED BY <1>3, <1>4, <1>5 DEF IInv, Sharing

LEMMA RefusedStep ==
  ASSUME IInv, NEW s \in Sids, NotificationRefused(s)
  PROVE  IInv'
<1>1. /\ UNCHANGED <<connection, ids_of, asked, to_bg, looping, usb_devices>>
      /\ UNCHANGED <<handle_vars, requests, next_request, granted, pages, forgotten>>
      /\ notifying' = notifying \ {s} /\ unannounced' = unannounced \cup {s}
      /\ probes' \in [Sids -> Nat]
  BY DEF NotificationRefused, Ended, stub_vars, request_vars, IInv, TypeOK
<1>2. Sharing'
  BY <1>1, HandlesKept
<1>3. OneRegistration'
  BY <1>1 DEF IInv, OneRegistration
<1>4. TypeOK'
  BY <1>1 DEF IInv, TypeOK, handle_vars
<1> QED BY <1>2, <1>3, <1>4 DEF IInv, Sharing

\* The pages told of a new device have no handle of it: it was not registered.
\* NewDevice is at its end, so nothing else of it is under way.
LEMMA RegisterStep ==
  ASSUME IInv, NEW s \in Sids, Register(s),
         to_bg' \in Seq(Message), Distinct(to_bg'),
         Enumerating(to_bg') \subseteq Enumerating(to_bg) \ {s},
         s \notin asked \cup usb_devices, connection[s] # "unused",
         UNCHANGED <<connection, ids_of, requests, next_request, granted, pages, forgotten>>
  PROVE  IInv'
<1> DEFINE P == MayHave(s)
           n(p) == next_device_id[p]
<1>1. UNCHANGED <<connection, ids_of, requests, next_request, granted, pages, forgotten>>
  OBVIOUS
<1>2. /\ usb_devices' = usb_devices \cup {s} /\ notifying' = notifying \ {s}
      /\ UNCHANGED <<asked, allowed_keys, looping, unannounced>>
      /\ AddHandles(P, s) /\ probes' \in [Sids -> Nat]
  BY DEF Register, Ended, IInv, TypeOK
<1>3. P \in SUBSET Pages /\ P \subseteq pages /\ \A p \in P : ids_of[s] \in allowed_keys[p]
  BY DEF MayHave, IInv, TypeOK
<1>4. s \notin usb_devices
  OBVIOUS
<1>5. \A p \in P : \A o \in opened_devices[p] : o.sid # s
  BY <1>3, <1>4 DEF IInv, BackRefs
<1>6. HandleTypes' /\ HandleInv'
  BY <1>1, <1>2, <1>3, <1>5, AddHandlesStep
<1>7. HandleTypes /\ next_device_id \in [Pages -> Nat]
  BY DEF IInv, TypeOK, HandleTypes
<1>8. /\ \A p \in Pages : opened_devices'[p] = opened_devices[p] \cup
           (IF p \in P THEN {[handle |-> n(p), sid |-> s]} ELSE {})
      /\ \A p \in Pages : allowed_handles[p] \subseteq allowed_handles'[p]
  BY <1>2 DEF AddHandles
<1>9. \A p \in Pages : view'[p] = view[p] \cup (IF p \in P THEN {n(p)} ELSE {})
  BY DEF Register
<1>10. view' \in [Pages -> SUBSET Nat]
  BY <1>7 DEF Register, IInv, TypeOK
<1>11. /\ \A t \in Sids : page_devices[t] \subseteq page_devices'[t]
       /\ \A p \in P : [page |-> p, handle |-> n(p)] \in page_devices'[s]
  BY <1>2, <1>7 DEF AddHandles, HandleTypes
<1> HIDE DEF P, n
<1>12. pages \subseteq Pages /\ \A p \in Pages : \A o \in opened_devices[p] : o.sid \in Sids
  BY <1>7 DEF HandleTypes, Opened, IInv, TypeOK
<1>13. BackRefs'
  <2> SUFFICES ASSUME NEW p \in pages, NEW o \in opened_devices'[p]
               PROVE  /\ o.sid \in usb_devices'
                      /\ [page |-> p, handle |-> o.handle] \in page_devices'[o.sid]
    BY <1>1 DEF BackRefs
  <2>1. CASE o \in opened_devices[p]
    BY <1>2, <1>11, <1>12, <2>1 DEF IInv, BackRefs
  <2>2. CASE p \in P /\ o = [handle |-> n(p), sid |-> s]
    BY <1>2, <1>11, <2>2
  <2> QED BY <1>8, <1>12, <2>1, <2>2
<1>14. ViewFollows'
  <2> SUFFICES ASSUME NEW p \in pages
               PROVE  /\ Handles(p)' \subseteq view'[p]
                      /\ view'[p] \ Handles(p)' \subseteq forgotten'[p]
    BY <1>1 DEF ViewFollows, Handles
  <2>1. Handles(p) \subseteq view[p] /\ view[p] \ Handles(p) \subseteq forgotten[p]
    BY DEF IInv, ViewFollows, Handles
  <2>2. Handles(p)' = Handles(p) \cup (IF p \in P THEN {n(p)} ELSE {})
    <3> DEFINE o1 == [handle |-> n(p), sid |-> s]
    <3>1. p \in Pages /\ o1.handle = n(p)
      BY <1>12
    <3>2. CASE p \notin P
      BY <1>8, <3>1, <3>2 DEF Handles
    <3>3. CASE p \in P
      <4>1. opened_devices'[p] = opened_devices[p] \cup {o1}
        BY <1>8, <3>1, <3>3
      <4> HIDE DEF o1
      <4>2. Handles(p)' = Handles(p) \cup {o1.handle}
        BY <4>1 DEF Handles
      <4> QED BY <3>1, <3>3, <4>2
    <3> QED BY <3>2, <3>3
  <2> QED BY <1>1, <1>9, <1>12, <2>1, <2>2
<1>15. Consent' /\ KeysGranted'
  BY <1>1, <1>2, <1>3, <1>8, <1>12 DEF IInv, Consent, KeysGranted
<1>16. UnserialConsentEnds'
  BY <1>1, <1>2, <1>8 DEF IInv, UnserialConsentEnds
<1>17. OneRegistration'
  BY <1>1, <1>2 DEF IInv, OneRegistration
<1>18. TypeOK'
  BY <1>1, <1>2, <1>6, <1>10 DEF IInv, TypeOK, HandleTypes
<1> QED BY <1>6, <1>13, <1>14, <1>15, <1>16, <1>17, <1>18 DEF IInv

LEMMA ReceivedRegisterStep ==
  ASSUME IInv, NEW s \in Sids, NEW type \in {"NewDevice", "RequestComplete"},
         Received(type, s), Register(s)
  PROVE  IInv'
<1>1. /\ to_bg' \in Seq(Message) /\ Distinct(to_bg')
      /\ Enumerating(to_bg') \subseteq Enumerating(to_bg)
      /\ s \in Enumerating(to_bg) \ Enumerating(to_bg')
      /\ UNCHANGED <<connection, ids_of, requests, next_request, granted, pages, forgotten>>
  BY ReceivedStep
<1>2. s \notin asked \cup usb_devices /\ connection[s] # "unused"
  BY <1>1 DEF IInv, OneRegistration
<1>3. Enumerating(to_bg') \subseteq Enumerating(to_bg) \ {s}
  BY <1>1
<1> QED BY <1>1, <1>2, <1>3, RegisterStep

LEMMA NotifiedStep ==
  ASSUME IInv, NEW s \in Sids, Notified(s)
  PROVE  IInv'
<1>1. /\ s \in notifying /\ Register(s) /\ to_bg' = to_bg
      /\ UNCHANGED <<connection, ids_of, requests, next_request, granted, pages, forgotten>>
  BY DEF Notified, request_vars
<1>2. /\ s \notin Enumerating(to_bg) \cup asked \cup usb_devices
      /\ connection[s] # "unused"
  BY <1>1 DEF IInv, OneRegistration
<1>3. to_bg \in Seq(Message) /\ Distinct(to_bg)
  BY DEF IInv, TypeOK, OneRegistration
<1>4. Enumerating(to_bg') \subseteq Enumerating(to_bg) \ {s}
  BY <1>1, <1>2
<1> QED BY <1>1, <1>2, <1>3, <1>4, RegisterStep

\* The handles that go are those of the device; the page is told of each that
\* it has not forgotten.
LEMMA UnplugStep ==
  ASSUME IInv, NEW s \in Sids, UnplugDevice(s)
  PROVE  IInv'
<1>1. /\ to_bg' \in Seq(Message) /\ Distinct(to_bg')
      /\ Enumerating(to_bg') \subseteq Enumerating(to_bg)
      /\ UNCHANGED <<connection, ids_of, requests, next_request, granted, pages, forgotten>>
      /\ UNCHANGED <<asked, probes, notifying, looping, unannounced>>
  BY ReceivedStep DEF UnplugDevice, new_device_vars
<1>2. CASE s \notin usb_devices
  <2>1. UNCHANGED <<handle_vars, usb_devices>>
    BY <1>2 DEF UnplugDevice
  <2>2. Sharing'
    BY <1>1, <2>1, HandlesKept
  <2>3. OneRegistration'
    BY <1>1, <2>1 DEF IInv, OneRegistration
  <2>4. TypeOK'
    BY <1>1, <2>1 DEF IInv, TypeOK, handle_vars
  <2> QED BY <2>2, <2>3, <2>4 DEF IInv, Sharing
<1>3. CASE s \in usb_devices
  <2>1. Invalidate(s) /\ usb_devices' = usb_devices \ {s}
    BY <1>3 DEF UnplugDevice
  <2>2. /\ HandleTypes' /\ HandleInv'
        /\ \A p \in Pages :
             opened_devices'[p] = {o \in opened_devices[p] : o.handle \notin RefsIn(p, s)}
    BY <1>1, <2>1, InvalidateStep
  <2>3. pages \subseteq Pages /\ \A p \in Pages : \A o \in opened_devices[p] : o.sid \in Sids
    BY DEF IInv, TypeOK, Opened
  <2>4. \A t \in Sids : page_devices'[t] = IF t = s THEN {} ELSE page_devices[t]
    BY <2>1 DEF Invalidate, IInv, TypeOK
  <2>5. \A p \in pages : view'[p] = view[p] \ AllowedRefs(p, s)
    BY <2>1, <2>3 DEF Invalidate
  <2>6. view' \in [Pages -> SUBSET Nat]
    BY <2>1 DEF Invalidate, IInv, TypeOK
  <2>7. \A p \in Pages :
          /\ allowed_keys'[p] = allowed_keys[p] \ EndedKeys(p, s)
          /\ allowed_handles'[p] = Disallow(s)[p]
    BY <2>1 DEF Invalidate
  <2>8. BackRefs'
    <3> SUFFICES ASSUME NEW p \in pages, NEW o \in opened_devices'[p]
                 PROVE  /\ o.sid \in usb_devices'
                        /\ [page |-> p, handle |-> o.handle] \in page_devices'[o.sid]
      BY <1>1 DEF BackRefs
    <3>1. o \in opened_devices[p] /\ o.handle \notin RefsIn(p, s)
      BY <2>2, <2>3
    <3>2. o.sid # s
      BY <2>3, <3>1, RefsAreItsHandles
    <3> QED BY <2>1, <2>3, <2>4, <3>1, <3>2 DEF IInv, BackRefs
  <2>9. ViewFollows'
    <3> SUFFICES ASSUME NEW p \in pages
                 PROVE  /\ Handles(p)' \subseteq view'[p]
                        /\ view'[p] \ Handles(p)' \subseteq forgotten'[p]
      BY <1>1 DEF ViewFollows, Handles
    <3>1. Handles(p) \subseteq view[p] /\ view[p] \ Handles(p) \subseteq forgotten[p]
      BY DEF IInv, ViewFollows, Handles
    <3>2. Handles(p)' = Handles(p) \ RefsIn(p, s)
      BY <2>2, <2>3 DEF Handles
    <3>3. AllowedRefs(p, s) \subseteq RefsIn(p, s)
      BY DEF AllowedRefs
    <3>4. ASSUME NEW h \in Handles(p) \cap RefsIn(p, s), h \notin AllowedRefs(p, s)
          PROVE  h \in forgotten[p]
      <4>1. PICK o \in opened_devices[p] : o.handle = h
        BY DEF Handles
      <4>2. o.sid = s
        BY <2>3, <4>1, RefsAreItsHandles
      <4>3. [ids |-> ids_of[s], handle |-> h] \notin allowed_handles[p]
        BY <3>4 DEF AllowedRefs
      <4> QED BY <2>3, <4>1, <4>2, <4>3 DEF IInv, HandleInv, HandlesAllowed
    <3> QED BY <1>1, <2>5, <3>1, <3>2, <3>3, <3>4
  <2>10. KeysGranted' /\ Consent'
    BY <1>1, <2>2, <2>7 DEF IInv, KeysGranted, Consent
  <2>11. UnserialConsentEnds'
    <3> SUFFICES ASSUME NEW p \in Pages, NEW i \in allowed_keys'[p] \cap Unserial,
                        forgotten[p] = {}
                 PROVE  \E a \in allowed_handles'[p] : a.ids = i
      BY <1>1 DEF UnserialConsentEnds
    <3>1. PICK a \in allowed_handles[p] : a.ids = i
      BY <2>7 DEF IInv, UnserialConsentEnds
    <3>2. Disallow(s)[p] = {b \in allowed_handles[p] :
                              ~(b.ids = ids_of[s] /\ b.handle \in AllowedRefs(p, s))}
      BY DEF Disallow
    <3>3. CASE i # ids_of[s] \/ AllowedRefs(p, s) = {}
      BY <2>7, <3>1, <3>2, <3>3
    <3>4. CASE i = ids_of[s] /\ AllowedRefs(p, s) # {}
      BY <2>7, <3>4 DEF EndedKeys
    <3> QED BY <3>3, <3>4
  <2>12. OneRegistration'
    BY <1>1, <2>1 DEF IInv, OneRegistration
  <2>13. allowed_keys' \in [Pages -> SUBSET Ids]
    BY <2>1 DEF Invalidate, IInv, TypeOK
  <2>14. TypeOK'
    BY <1>1, <2>1, <2>2, <2>6, <2>13 DEF IInv, TypeOK, HandleTypes
  <2> QED BY <2>2, <2>8, <2>9, <2>10, <2>11, <2>12, <2>14 DEF IInv
<1> QED BY <1>2, <1>3

LEMMA RequestStep ==
  ASSUME IInv,
         \/ \E p \in Pages : RequestDevice(p)
         \/ \E r \in requests : Cancel(r)
  PROVE  IInv'
<1> USE DEF stub_vars
<1>1. /\ UNCHANGED <<connection, ids_of, asked, to_bg, new_device_vars, usb_devices, handle_vars>>
      /\ UNCHANGED <<granted, pages, forgotten>>
  BY DEF RequestDevice, Cancel
<1>2. requests' \subseteq Request /\ next_request' \in Nat
  BY DEF RequestDevice, Cancel, Request, IInv, TypeOK
<1>3. Sharing'
  BY <1>1, HandlesKept
<1>4. OneRegistration'
  BY <1>1 DEF IInv, OneRegistration, new_device_vars
<1>5. TypeOK'
  BY <1>1, <1>2 DEF IInv, TypeOK, handle_vars, new_device_vars
<1> QED BY <1>3, <1>4, <1>5 DEF IInv, Sharing

\* The choice adds to what the page may have before it adds a handle, and
\* adds none for a device that is gone.
LEMMA ChooseStep ==
  ASSUME IInv, NEW r \in requests, NEW s \in r.possible, Choose(r, s)
  PROVE  IInv'
<1> DEFINE q == r.page
           n == next_device_id[q]
           Fresh == [handle |-> n, sid |-> s]
<1>1. q \in Pages /\ s \in Sids /\ n \in Nat /\ ids_of[s] \in Ids
  BY DEF IInv, TypeOK, Request
<1>2. /\ UNCHANGED <<connection, ids_of, asked, to_bg, new_device_vars, usb_devices, next_request>>
      /\ UNCHANGED <<pages, forgotten>>
      /\ requests' \subseteq requests
  BY DEF Choose, stub_vars
<1>3. /\ granted' = [granted EXCEPT ![q] = @ \cup {ids_of[s]}]
      /\ OpenDevice(q, s)
      /\ view' = IF q \in pages /\ sid_to_handle'[q][s] # NoHandle
                 THEN [view EXCEPT ![q] = @ \cup {sid_to_handle'[q][s]}]
                 ELSE view
  BY DEF Choose
<1>4. /\ granted' \in [Pages -> SUBSET Ids] /\ ids_of[s] \in granted'[q]
      /\ \A p \in Pages : granted[p] \subseteq granted'[p]
  BY <1>1, <1>3 DEF IInv, TypeOK
<1>5. OneRegistration'
  BY <1>2 DEF IInv, OneRegistration, new_device_vars
<1>6. HandleTypes /\ pages \subseteq Pages /\ view \in [Pages -> SUBSET Nat]
      /\ sid_to_handle[q][s] \in Nat \cup {NoHandle}
  BY <1>1 DEF IInv, TypeOK, HandleTypes
<1> HIDE DEF q, n
<1>7. CASE sid_to_handle[q][s] = NoHandle /\ s \in usb_devices
  <2>1. /\ AddHandles({q}, s)
        /\ allowed_keys' = [allowed_keys EXCEPT ![q] = @ \cup {ids_of[s]}]
    BY <1>3, <1>7 DEF OpenDevice
  <2>2. \A o \in opened_devices[q] : o.sid # s
    <3>1. \A o \in opened_devices[q] : o.handle \in Nat
      BY <1>1, <1>6 DEF HandleTypes, Opened
    <3>2. \A o \in opened_devices[q] : sid_to_handle[q][o.sid] = o.handle
      BY <1>1 DEF IInv, HandleInv, HandlesAgree
    <3> QED BY <1>7, <3>1, <3>2, NoHandleAssumption
  <2>3. HandleTypes' /\ HandleInv'
    BY <1>1, <1>2, <2>1, <2>2, AddHandlesStep
  <2>4. \A p \in Pages : opened_devices'[p] =
          opened_devices[p] \cup (IF p = q THEN {Fresh} ELSE {})
    BY <1>1, <2>1 DEF AddHandles, n
  <2>5. \A p \in Pages : allowed_handles'[p] = allowed_handles[p] \cup
          (IF p = q THEN {[ids |-> ids_of[s], handle |-> n]} ELSE {})
    BY <1>1, <2>1 DEF AddHandles, n
  <2>6. sid_to_handle'[q][s] = n
    BY <1>1, <1>6, <2>1 DEF AddHandles, HandleTypes, n
  <2>7. /\ \A t \in Sids : page_devices[t] \subseteq page_devices'[t]
        /\ [page |-> q, handle |-> n] \in page_devices'[s]
    BY <1>1, <1>6, <2>1 DEF AddHandles, HandleTypes, n
  <2>8. view' = IF q \in pages THEN [view EXCEPT ![q] = @ \cup {n}] ELSE view
    <3>1. n # NoHandle
      BY <1>1, NoHandleAssumption
    <3> QED BY <1>3, <2>6, <3>1
  <2>9. BackRefs'
    <3> SUFFICES ASSUME NEW p \in pages, NEW o \in opened_devices'[p]
                 PROVE  /\ o.sid \in usb_devices'
                        /\ [page |-> p, handle |-> o.handle] \in page_devices'[o.sid]
      BY <1>2 DEF BackRefs
    <3>1. CASE o \in opened_devices[p]
      <4>1. o.sid \in Sids
        BY <1>6, <3>1 DEF HandleTypes, Opened
      <4> QED BY <1>2, <2>7, <3>1, <4>1 DEF IInv, BackRefs
    <3>2. CASE p = q /\ o = Fresh
      BY <1>2, <1>7, <2>7, <3>2
    <3> QED BY <1>6, <2>4, <3>1, <3>2
  <2>10. ViewFollows'
    <3> SUFFICES ASSUME NEW p \in pages
                 PROVE  /\ Handles(p)' \subseteq view'[p]
                        /\ view'[p] \ Handles(p)' \subseteq forgotten'[p]
      BY <1>2 DEF ViewFollows, Handles
    <3>1. Handles(p) \subseteq view[p] /\ view[p] \ Handles(p) \subseteq forgotten[p]
      BY DEF IInv, ViewFollows, Handles
    <3>2. CASE p # q
      <4>1. Handles(p)' = Handles(p) /\ view'[p] = view[p]
        BY <1>6, <2>4, <2>8, <3>2 DEF Handles
      <4> QED BY <1>2, <3>1, <4>1
    <3>3. CASE p = q
      <4>1. Fresh.handle = n /\ opened_devices'[p] = opened_devices[p] \cup {Fresh}
        BY <1>6, <2>4, <3>3
      <4> HIDE DEF Fresh
      <4>2. Handles(p)' = Handles(p) \cup {Fresh.handle}
        BY <4>1 DEF Handles
      <4>3. view'[p] = view[p] \cup {n}
        BY <1>6, <2>8, <3>3
      <4> QED BY <1>2, <3>1, <4>1, <4>2, <4>3
    <3> QED BY <3>2, <3>3
  <2>11. Consent'
    <3>1. \A p \in Pages : \A o \in opened_devices'[p] :
            o \in opened_devices[p] \/ (p = q /\ o.sid = s)
      BY <2>4
    <3> QED BY <1>2, <1>4, <3>1 DEF IInv, Consent
  <2>12. \A p \in Pages : \A i \in allowed_keys'[p] :
           i \in allowed_keys[p] \/ (p = q /\ i = ids_of[s])
    BY <1>1, <2>1 DEF IInv, TypeOK
  <2>13. KeysGranted'
    BY <1>4, <2>12 DEF IInv, KeysGranted
  <2>14. UnserialConsentEnds'
    <3> SUFFICES ASSUME NEW p \in Pages, NEW i \in allowed_keys'[p] \cap Unserial
                 PROVE  (\E a \in allowed_handles'[p] : a.ids = i) \/ forgotten[p] # {}
      BY <1>2 DEF UnserialConsentEnds
    <3>1. CASE i \in allowed_keys[p]
      BY <2>5, <3>1 DEF IInv, UnserialConsentEnds
    <3>2. CASE p = q /\ i = ids_of[s]
      <4>1. [ids |-> ids_of[s], handle |-> n] \in allowed_handles'[p]
        BY <1>1, <2>5, <3>2
      <4> QED BY <3>2, <4>1
    <3> QED BY <2>12, <3>1, <3>2
  <2>15. allowed_keys' \in [Pages -> SUBSET Ids] /\ view' \in [Pages -> SUBSET Nat]
    BY <1>1, <1>6, <2>1, <2>8 DEF IInv, TypeOK
  <2>16. TypeOK'
    BY <1>2, <1>4, <2>3, <2>15 DEF IInv, TypeOK, HandleTypes, new_device_vars
  <2> QED BY <1>5, <2>3, <2>9, <2>10, <2>11, <2>13, <2>14, <2>16 DEF IInv
<1>8. CASE ~(sid_to_handle[q][s] = NoHandle /\ s \in usb_devices)
  <2>1. UNCHANGED <<page_devices, allowed_keys, allowed_handles, opened_devices,
                    sid_to_handle, next_device_id>>
    BY <1>3, <1>8 DEF OpenDevice
  <2>2. HandleInv' /\ BackRefs' /\ UnserialConsentEnds'
    BY <1>2, <2>1 DEF IInv, HandleInv, HandlesAgree, HandlesFresh, RefsOpen, HandlesAllowed,
                      BackRefs, UnserialConsentEnds
  <2>3. Consent' /\ KeysGranted'
    BY <1>2, <1>4, <2>1 DEF IInv, Consent, KeysGranted
  <2>4. view' \in [Pages -> SUBSET Nat]
        /\ \A p \in Pages : view'[p] = view[p] \/ (view'[p] \subseteq view[p] \cup Handles(p)
                                                   /\ view[p] \subseteq view'[p])
    <3> DEFINE h == sid_to_handle[q][s]
    <3>1. CASE q \in pages /\ h # NoHandle
      <4> DEFINE o1 == [handle |-> h, sid |-> s]
      <4>1. o1 \in opened_devices[q] /\ o1.handle = h
        BY <1>1, <3>1 DEF IInv, HandleInv, HandlesAgree
      <4>2. h \in Handles(q)
        BY <4>1 DEF Handles
      <4>3. h \in Nat /\ view' = [view EXCEPT ![q] = @ \cup {h}]
        BY <1>3, <1>6, <2>1, <3>1
      <4> HIDE DEF h
      <4> QED BY <1>1, <1>6, <4>2, <4>3
    <3>2. CASE ~(q \in pages /\ h # NoHandle)
      BY <1>3, <1>6, <2>1, <3>2
    <3> QED BY <3>1, <3>2
  <2>5. ViewFollows'
    BY <1>2, <1>6, <2>1, <2>4 DEF IInv, ViewFollows, Handles
  <2>6. TypeOK'
    BY <1>2, <1>4, <2>1, <2>4 DEF IInv, TypeOK, new_device_vars
  <2> QED BY <1>5, <2>2, <2>3, <2>5, <2>6 DEF IInv
<1> QED BY <1>7, <1>8

LEMMA ForgetStep ==
  ASSUME IInv, NEW p \in Pages, NEW h \in view[p], Forget(p, h)
  PROVE  IInv'
<1>1. /\ UNCHANGED <<connection, ids_of, asked, to_bg, new_device_vars, usb_devices, page_devices>>
      /\ UNCHANGED <<allowed_keys, opened_devices, sid_to_handle, next_device_id, view>>
      /\ UNCHANGED <<requests, next_request, granted, pages>>
  BY DEF Forget, stub_vars, request_vars
<1>2. /\ allowed_handles' \in [Pages -> SUBSET Allowed]
      /\ \A t \in Pages : allowed_handles'[t] =
           IF t = p THEN {a \in allowed_handles[p] : a.handle # h} ELSE allowed_handles[t]
  BY DEF Forget, IInv, TypeOK
<1>3. /\ forgotten' \in [Pages -> SUBSET Nat]
      /\ \A t \in Pages : forgotten'[t] = IF t = p THEN forgotten[p] \cup {h} ELSE forgotten[t]
  BY DEF Forget, IInv, TypeOK
<1>4. HandlesAllowed'
  <2> SUFFICES ASSUME NEW t \in Pages, NEW o \in opened_devices[t],
                      o.handle \notin forgotten'[t]
               PROVE  [ids |-> ids_of[o.sid], handle |-> o.handle] \in allowed_handles'[t]
    BY <1>1 DEF HandlesAllowed
  <2>1. [ids |-> ids_of[o.sid], handle |-> o.handle] \in allowed_handles[t]
    BY <1>3 DEF IInv, HandleInv, HandlesAllowed
  <2> QED BY <1>2, <1>3, <2>1
<1>5. HandleInv'
  BY <1>1, <1>4 DEF IInv, HandleInv, HandlesAgree, HandlesFresh, RefsOpen
<1>6. pages \subseteq Pages
  BY DEF IInv, TypeOK
<1>7. BackRefs' /\ ViewFollows' /\ Consent' /\ KeysGranted'
  BY <1>1, <1>3, <1>6 DEF IInv, BackRefs, ViewFollows, Consent, KeysGranted
<1>8. UnserialConsentEnds'
  BY <1>1, <1>2, <1>3 DEF IInv, UnserialConsentEnds
<1>9. OneRegistration'
  BY <1>1 DEF IInv, OneRegistration, new_device_vars
<1>10. TypeOK'
  BY <1>1, <1>2, <1>3 DEF IInv, TypeOK, new_device_vars
<1> QED BY <1>5, <1>7, <1>8, <1>9, <1>10 DEF IInv

LEMMA PageGoneStep ==
  ASSUME IInv, NEW p \in Pages, PageGone(p)
  PROVE  IInv'
<1>1. /\ UNCHANGED <<connection, ids_of, asked, to_bg, new_device_vars, usb_devices>>
      /\ UNCHANGED <<allowed_keys, allowed_handles, opened_devices, sid_to_handle>>
      /\ UNCHANGED <<next_device_id, view, requests, next_request, granted, forgotten>>
      /\ pages' = pages \ {p}
  BY DEF PageGone, stub_vars, request_vars
<1>2. /\ page_devices' \in [Sids -> SUBSET PerPageUSBDevice]
      /\ \A s \in Sids : page_devices'[s] \subseteq page_devices[s]
      /\ \A s \in Sids : \A r \in page_devices[s] : r.page # p => r \in page_devices'[s]
  BY DEF PageGone, IInv, TypeOK
<1>3. RefsOpen'
  BY <1>1, <1>2 DEF IInv, HandleInv, RefsOpen
<1>4. HandleInv'
  BY <1>1, <1>3 DEF IInv, HandleInv, HandlesAgree, HandlesFresh, HandlesAllowed
<1>5. BackRefs'
  <2> SUFFICES ASSUME NEW t \in pages, t # p, NEW o \in opened_devices[t]
               PROVE  /\ o.sid \in usb_devices
                      /\ [page |-> t, handle |-> o.handle] \in page_devices'[o.sid]
    BY <1>1 DEF BackRefs
  <2>1. o.sid \in usb_devices /\ [page |-> t, handle |-> o.handle] \in page_devices[o.sid]
    BY DEF IInv, BackRefs
  <2>2. o.sid \in Sids
    BY <2>1 DEF IInv, TypeOK
  <2> QED BY <1>2, <2>1, <2>2
<1>6. ViewFollows' /\ Consent' /\ KeysGranted' /\ UnserialConsentEnds'
  BY <1>1 DEF IInv, ViewFollows, Consent, KeysGranted, UnserialConsentEnds
<1>7. OneRegistration'
  BY <1>1 DEF IInv, OneRegistration, new_device_vars
<1>8. TypeOK'
  BY <1>1, <1>2 DEF IInv, TypeOK, new_device_vars
<1> QED BY <1>4, <1>5, <1>6, <1>7, <1>8 DEF IInv

--------------------------------------------------------------------------------

LEMMA InitIInv == Init => IInv
<1> SUFFICES ASSUME Init PROVE IInv
  OBVIOUS
<1>1. TypeOK
  <2>1. looping \in BOOLEAN
    BY DEF Init
  <2>2. probes \in [Sids -> Nat] /\ next_device_id \in [Pages -> Nat]
    BY DEF Init
  <2>3. sid_to_handle \in [Pages -> [Sids -> Nat \cup {NoHandle}]]
    BY DEF Init
  <2> QED BY <2>1, <2>2, <2>3 DEF Init, TypeOK
<1>2. OneRegistration
  BY DEF Init, OneRegistration, Distinct, Enumerating
<1>3. HandleInv /\ BackRefs /\ ViewFollows
  BY <1>1 DEF Init, TypeOK, HandleInv, HandlesAgree, HandlesFresh, RefsOpen, HandlesAllowed,
              BackRefs, ViewFollows
<1>4. KeysGranted /\ Consent /\ UnserialConsentEnds
  BY DEF Init, KeysGranted, Consent, UnserialConsentEnds
<1> QED BY <1>1, <1>2, <1>3, <1>4 DEF IInv

LEMMA NextIInv == IInv /\ [Next]_vars => IInv'
<1> SUFFICES ASSUME IInv, [Next]_vars PROVE IInv'
  OBVIOUS
<1>1. CASE Stub
  BY <1>1, StubStep
<1>2. CASE BgReceive
  <2>1. PICK s \in Sids : NewDevice(s) \/ Probed(s) \/ UnplugDevice(s)
    BY <1>2 DEF BgReceive
  <2>2. CASE NewDevice(s)
    BY <2>2, AwaitStep, ReceivedRegisterStep DEF NewDevice
  <2>3. CASE Probed(s)
    BY <2>3, AwaitStep, AnnounceStep, ReceivedRegisterStep DEF Probed
  <2>4. CASE UnplugDevice(s)
    BY <2>4, UnplugStep
  <2> QED BY <2>1, <2>2, <2>3, <2>4
<1>3. CASE Page
  <2>1. CASE \E p \in Pages : RequestDevice(p)
    BY <2>1, RequestStep
  <2>2. CASE \E p \in Pages : PageGone(p)
    BY <2>2, PageGoneStep
  <2>3. CASE \E p \in Pages : \E h \in view[p] : Forget(p, h)
    BY <2>3, ForgetStep
  <2>4. CASE \E r \in requests : Cancel(r)
    BY <2>4, RequestStep
  <2>5. CASE \E r \in requests : \E s \in r.possible : Choose(r, s)
    BY <2>5, ChooseStep
  <2> QED BY <1>3, <2>1, <2>2, <2>3, <2>4, <2>5 DEF Page
<1>4. CASE UNCHANGED vars
  <2>1. /\ UNCHANGED <<connection, ids_of, asked, to_bg, new_device_vars, usb_devices, page_devices>>
        /\ UNCHANGED <<allowed_keys, allowed_handles, opened_devices, sid_to_handle>>
        /\ UNCHANGED <<next_device_id, view, requests, next_request, granted, pages, forgotten>>
    BY <1>4 DEF vars, stub_vars, handle_vars, request_vars
  <2>2. Sharing'
    BY <2>1, HandlesKept DEF handle_vars
  <2>3. TypeOK' /\ OneRegistration'
    BY <2>1 DEF IInv, TypeOK, OneRegistration, new_device_vars
  <2> QED BY <2>2, <2>3 DEF IInv, Sharing
<1>5. CASE Browser
  BY <1>5, NotifiedStep, RefusedStep DEF Browser
<1> QED BY <1>1, <1>2, <1>3, <1>4, <1>5 DEF Next

LEMMA SpecIInv == Spec => []IInv
<1> QED BY InitIInv, NextIInv, PTL DEF Spec

\* Every variable keeps its type; in particular a page's map of handles only
\* ever holds handles (awawausb.js:295-343, page.js:41-44).
THEOREM TypeCorrect == Spec => []TypeOK
<1>1. IInv => TypeOK
  BY DEF IInv
<1> QED BY <1>1, SpecIInv, PTL

\* However requests, enumeration, unplugging and pages that go away
\* interleave: a device has at most one handle in a page, and a connected
\* page's handles are all known to their device, which is registered
\* (awawausb.js:343-466).
THEOREM HandlesCorrect == Spec => []HandlesMatch
<1>1. IInv => HandlesMatch
  BY DEF IInv, HandleInv, HandlesMatch
<1> QED BY <1>1, SpecIInv, PTL

\* A connected page has an object for each of its handles, and none for
\* another unless it has called forget() on it (awawausb.js:398, page.js:47-64).
THEOREM ViewCorrect == Spec => []ViewFollows
<1>1. IInv => ViewFollows
  BY DEF IInv
<1> QED BY <1>1, SpecIInv, PTL

\* A page never has a handle of a device with ids and a serial number the user
\* has not let it have, and permission for a device without a serial number
\* ends with its last handle (awawausb.js:374-391).
THEOREM ConsentCorrect == Spec => []ConsentHolds
<1>1. IInv => ConsentHolds
  BY DEF IInv, ConsentHolds
<1> QED BY <1>1, SpecIInv, PTL

================================================================================
