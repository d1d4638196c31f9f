----------------------------- MODULE MacStub_proofs -----------------------------
(***************************************************************************)
(* MacStub: type correctness, that the ports of transfers stay open, that  *)
(* claims and objects agree, and the refinement of RequestReply, for any   *)
(* interfaces, endpoints and bound, with calls failing at will; and, if    *)
(* the properties of a pipe can always be read, that an endpoint leads to  *)
(* its own pipe.                                                           *)
(*                                                                         *)
(* A transfer is submitted on an object of the table, so the objects of    *)
(* the table must exist (TableHasPorts); and no object of a new probe may  *)
(* have been opened before, so objects are told apart by their probe       *)
(* (ProbesCounted).                                                        *)
(*                                                                         *)
(* Entries of the map of endpoints outlive the claims that made them, so   *)
(* what is shown of the endpoints of claimed interfaces is shown of every  *)
(* entry (MapMatches).                                                     *)
(***************************************************************************)
EXTENDS MacStub, PipeLemmas, TLAPS, FiniteSetTheorems, FunctionTheorems, SequenceTheorems

Boxes == in_flight \cup completed

TableHasPorts == ObjectsIn(ifaces) \subseteq ports

ProbesCounted ==
  /\ \A o \in taken : o[2] <= probes
  /\ \A k \in DOMAIN ifaces : ifaces[k][2] <= probes

\* ClaimsMatchObjects, without what being in the table implies.
ClaimsMatch ==
  \A i \in Ifaces :
    if_state[i].slot \in DOMAIN ifaces =>
      /\ ObjectOf(i)[1] = i
      /\ if_state[i].claimed <=> ObjectOf(i) \in taken

IInv == TypeOK /\ TransfersKeepPorts /\ TableHasPorts /\ ProbesCounted /\ ClaimsMatch

--------------------------------------------------------------------------------
(* A probe.                                                                 *)

LEMMA OrdersAreLists ==
  ASSUME NEW c \in Configs \cup {Unconfigured}, NEW order \in Orders(c)
  PROVE  \E n \in Nat : DOMAIN order = 1 .. n /\ \A k \in 1 .. n : order[k] \in Ifaces
<1> DEFINE S == IF c = Unconfigured THEN {} ELSE ConfigIfaces[c]
<1>1. S \subseteq Ifaces /\ IsFiniteSet(Ifaces)
  BY MacAssumption
<1>2. Cardinality(S) \in Nat
  BY <1>1, FS_Subset, FS_CardinalityType
<1>3. order \in [1 .. Cardinality(S) -> S]
  BY DEF Orders
<1> HIDE DEF S
<1> QED BY <1>1, <1>2, <1>3

LEMMA Probed ==
  ASSUME TypeOK, NEW c \in Configs \cup {Unconfigured}, NEW order \in Orders(c),
         ProbeOk(order)
  PROVE  /\ ifaces' \in Seq(Object)
         /\ if_state' \in [Ifaces -> [slot : Nat, claimed : BOOLEAN, eps : SUBSET Eps]]
         /\ ep_to_slot' \in [Eps -> [slot : Nat, pipe : Nat]]
         /\ ports' \subseteq Object /\ taken' \subseteq Object /\ probes' = probes + 1
         /\ probes \in Nat
         /\ \A k \in DOMAIN ifaces' : ifaces'[k][2] = probes + 1
         /\ \A i \in Ifaces : if_state'[i].slot \in DOMAIN ifaces' =>
              ifaces'[if_state'[i].slot][1] = i /\ ~if_state'[i].claimed
         /\ ObjectsIn(ifaces') \subseteq ports'
<1> DEFINE slot(i) == CHOOSE k \in DOMAIN order : order[k] = i
           has(i) == \E k \in DOMAIN order : order[k] = i
<1>1. PICK n \in Nat : DOMAIN order = 1 .. n /\ \A k \in 1 .. n : order[k] \in Ifaces
  BY OrdersAreLists
<1>2. probes \in Nat /\ taken \subseteq Object /\ ports \subseteq Object
  BY DEF TypeOK
<1>3. ifaces' = [k \in 1 .. n |-> <<order[k], probes + 1>>]
  BY <1>1 DEF ProbeOk
<1>4. ifaces' \in [1 .. n -> Object]
  BY <1>1, <1>2, <1>3 DEF Object
<1>5. ifaces' \in Seq(Object)
  BY <1>4, SeqDef
<1>6. \A i \in Ifaces : has(i) => slot(i) \in 1 .. n /\ order[slot(i)] = i
  BY <1>1
<1>7. if_state' = [i \in Ifaces |-> IF has(i) THEN [slot |-> slot(i), claimed |-> FALSE, eps |-> {}]
                                            ELSE Absent]
  BY DEF ProbeOk
<1> HIDE DEF slot, has
<1>8. \A i \in Ifaces :
        /\ if_state'[i] \in [slot : Nat, claimed : BOOLEAN, eps : SUBSET Eps]
        /\ ~if_state'[i].claimed
        /\ if_state'[i].slot = (IF has(i) THEN slot(i) ELSE 0)
  <2> SUFFICES ASSUME NEW i \in Ifaces
               PROVE  /\ if_state'[i] \in [slot : Nat, claimed : BOOLEAN, eps : SUBSET Eps]
                      /\ ~if_state'[i].claimed
                      /\ if_state'[i].slot = (IF has(i) THEN slot(i) ELSE 0)
    OBVIOUS
  <2>1. CASE has(i)
    BY <1>6, <1>7, <2>1
  <2>2. CASE ~has(i)
    BY <1>7, <2>2 DEF Absent
  <2> QED BY <2>1, <2>2
<1>9. \A i \in Ifaces : if_state'[i].slot \in 1 .. n =>
        ifaces'[if_state'[i].slot][1] = i /\ ~if_state'[i].claimed
  BY <1>3, <1>6, <1>8
<1>10. if_state' \in [Ifaces -> [slot : Nat, claimed : BOOLEAN, eps : SUBSET Eps]]
  BY <1>7, <1>8
<1>11. ObjectsIn(ifaces') \subseteq ports' /\ ports' \subseteq ports \cup ObjectsIn(ifaces')
       /\ taken' \subseteq taken
  BY DEF ProbeOk, Kept
<1>12. ObjectsIn(ifaces') \subseteq Object
  BY <1>4 DEF ObjectsIn
<1>13. ep_to_slot' \in [Eps -> [slot : Nat, pipe : Nat]]
  BY DEF ProbeOk, NoPipe
<1>14. probes' = probes + 1
  BY DEF ProbeOk
<1>15. \A k \in DOMAIN ifaces' : ifaces'[k][2] = probes + 1
  BY <1>3
<1>16. DOMAIN ifaces' = 1 .. n
  BY <1>3
<1> QED BY <1>2, <1>5, <1>9, <1>10, <1>11, <1>12, <1>13, <1>14, <1>15, <1>16

--------------------------------------------------------------------------------
(* Type correctness.                                                        *)

LEMMA InitInv == ASSUME Init PROVE IInv
<1>1. TypeOK
  BY MacAssumption, EmptySeq DEF Init, TypeOK, Absent, NoPipe
<1>2. DOMAIN ifaces = {}
  BY DEF Init
<1>3. TransfersKeepPorts /\ TableHasPorts /\ ProbesCounted
  BY <1>2 DEF Init, TransfersKeepPorts, TableHasPorts, ObjectsIn, ProbesCounted
<1>4. ClaimsMatch
  BY <1>2 DEF ClaimsMatch
<1> QED BY <1>1, <1>3, <1>4 DEF IInv

LEMMA Queues ==
  ASSUME TypeOK
  PROVE  /\ to_stub # <<>> => Tail(to_stub) \in Seq(Nat) /\ Head(to_stub) \in Nat
         /\ notices # <<>> => Tail(notices) \in Seq({"plug", "unplug"})
  BY HeadTailProperties, EmptySeq DEF TypeOK

LEMMA OutsideType == ASSUME TypeOK, Outside PROVE TypeOK'
<1>1. CASE Post
  <2>1. Append(to_stub, posted + 1) \in Seq(Nat)
    BY AppendProperties DEF TypeOK
  <2> QED BY <1>1, <2>1 DEF TypeOK, Post, kernel_vars, table_vars
<1>2. CASE PlugIn \/ PullOut
  <2>1. \A n \in {"plug", "unplug"} : Append(notices, n) \in Seq({"plug", "unplug"})
    BY AppendProperties DEF TypeOK
  <2> QED BY <1>2, <2>1 DEF TypeOK, PlugIn, PullOut, table_vars
<1>3. ASSUME NEW t \in in_flight, Complete(t) PROVE TypeOK'
  BY <1>3 DEF TypeOK, Complete, table_vars
<1> QED BY <1>1, <1>2, <1>3 DEF Outside

\* What becomes of ports and opened interfaces when some are closed.
LEMMA KeptType ==
  ASSUME TypeOK, NEW table, NEW boxes, ports' = Kept(table, boxes),
         taken' = taken \cap ports'
  PROVE  ports' \subseteq ports /\ taken' \subseteq taken
  BY DEF Kept

LEMMA NoticeType == ASSUME TypeOK, Setup \/ SetupFails \/ Unplug PROVE TypeOK'
<1>0. notices' \in Seq({"plug", "unplug"})
  BY Queues DEF Setup, SetupFails, Unplug
<1>1. CASE Setup
  <2>1. PICK c \in Configs \cup {Unconfigured} :
          config' = c /\ \E order \in Orders(c) : ProbeOk(order)
    BY <1>1 DEF Setup
  <2>2. PICK order \in Orders(c) : ProbeOk(order)
    BY <2>1
  <2> QED BY <1>0, <1>1, <2>1, <2>2, Probed DEF TypeOK, Setup
<1>2. CASE SetupFails
  BY <1>0, <1>2 DEF TypeOK, SetupFails, table_vars
<1>3. CASE Unplug
  <2>1. if_state' \in [Ifaces -> [slot : Nat, claimed : BOOLEAN, eps : SUBSET Eps]]
        /\ ep_to_slot' \in [Eps -> [slot : Nat, pipe : Nat]] /\ ifaces' \in Seq(Object)
    BY <1>3, EmptySeq DEF Unplug, Absent, NoPipe
  <2> QED BY <1>0, <1>3, <2>1, KeptType DEF TypeOK, Unplug
<1> QED BY <1>1, <1>2, <1>3

LEMMA DeliverType == ASSUME TypeOK, NEW t \in completed, Deliver(t) PROVE TypeOK'
<1>1. t.id \in Nat
  BY DEF TypeOK, Transfer
<1> QED BY <1>1, KeptType DEF TypeOK, Deliver, table_vars

\* The pipe an endpoint is taken to have is a number.
LEMMA PlaceIsNat ==
  ASSUME NEW i, NEW a, NEW S \in SUBSET Eps, NEW e
  PROVE  PlaceOf(i, a, S, e) \in Nat
<1> DEFINE P == {f \in S : PipeRef[i][a][f] \in 1 .. PipeRef[i][a][e]}
<1>1. P \subseteq Eps /\ IsFiniteSet(Eps)
  BY MacAssumption
<1>2. Cardinality(P) \in Nat
  BY <1>1, FS_Subset, FS_CardinalityType
<1> QED BY <1>2 DEF PlaceOf

LEMMA RecordType ==
  ASSUME TypeOK, NEW i \in Ifaces, NEW a, NEW S \in Readable, RecordEndpoints(i, a, S)
  PROVE  /\ if_state' \in [Ifaces -> [slot : Nat, claimed : BOOLEAN, eps : SUBSET Eps]]
         /\ ep_to_slot' \in [Eps -> [slot : Nat, pipe : Nat]]
<1>1. S \subseteq Eps /\ EpAddrs(i, a, S) \subseteq Eps
  BY DEF Readable, EpAddrs
<1>2. if_state[i].slot \in Nat
  BY DEF TypeOK
<1>3. \A e \in Eps : PlaceOf(i, a, S, e) \in Nat
  BY <1>1, PlaceIsNat
<1>4. if_state' = [if_state EXCEPT ![i].claimed = TRUE, ![i].eps = EpAddrs(i, a, S)]
  BY DEF RecordEndpoints
<1>5. if_state' \in [Ifaces -> [slot : Nat, claimed : BOOLEAN, eps : SUBSET Eps]]
  BY <1>1, <1>4 DEF TypeOK
<1>6. ep_to_slot' = [e \in Eps |->
        CASE e \in EpAddrs(i, a, S) ->
               [slot |-> if_state[i].slot, pipe |-> PlaceOf(i, a, S, e)]
          [] e \in if_state[i].eps \ EpAddrs(i, a, S) -> NoPipe
          [] OTHER -> ep_to_slot[e]]
  BY DEF RecordEndpoints
<1>7. ep_to_slot' \in [Eps -> [slot : Nat, pipe : Nat]]
  BY <1>2, <1>3, <1>6 DEF TypeOK, NoPipe
<1> QED BY <1>5, <1>7

\* What all requests do but those that end the process.
LEMMA RequestType ==
  ASSUME TypeOK, NextRequest
  PROVE  to_stub' \in Seq(Nat) /\ (Reply => replies' \subseteq Nat)
  BY Queues DEF NextRequest, Reply, Id, TypeOK

LEMMA SlotInTable ==
  ASSUME TypeOK, NEW k \in DOMAIN ifaces
  PROVE  ifaces[k] \in Object /\ ifaces[k][1] \in Ifaces /\ ifaces[k][2] \in Nat
<1>1. ifaces[k] \in Object
  BY DEF TypeOK
<1> QED BY <1>1 DEF Object

LEMMA AbortBoxes ==
  ASSUME TypeOK, NEW objs, Abort(objs)
  PROVE  in_flight' \cup completed' = Boxes /\ in_flight' \subseteq Transfer
         /\ completed' \subseteq Transfer
  BY DEF Abort, Boxes, TypeOK

LEMMA CloseType == ASSUME TypeOK, CloseDevice PROVE TypeOK'
<1>1. PICK failed \in SUBSET ClaimedIfaces :
        /\ if_state' = [i \in Ifaces |-> [if_state[i] EXCEPT !.claimed = @ /\ i \in failed]]
        /\ taken' = taken \ {ObjectOf(i) : i \in ClaimedIfaces \ failed}
        /\ Abort({ObjectOf(i) : i \in ClaimedIfaces \ failed})
  BY DEF CloseDevice
<1>2. if_state' \in [Ifaces -> [slot : Nat, claimed : BOOLEAN, eps : SUBSET Eps]]
  BY <1>1 DEF TypeOK
<1>3. taken' \subseteq Object
  BY <1>1 DEF TypeOK
<1>4. opened' \in BOOLEAN
  BY DEF CloseDevice, CanFail, TypeOK
<1> QED BY <1>1, <1>2, <1>3, <1>4, AbortBoxes, RequestType DEF CloseDevice, TypeOK

LEMMA SetConfigurationType ==
  ASSUME TypeOK, NEW c \in Configs, SetConfiguration(c)
  PROVE  TypeOK'
<1>1. alt' \in [Ifaces -> Alts] /\ config' \in Configs
  BY MacAssumption DEF SetConfiguration
<1>2. ASSUME NEW order \in Orders(c), ProbeOk(order) PROVE TypeOK'
  BY <1>1, <1>2, Probed, RequestType DEF SetConfiguration, TypeOK
<1>3. CASE ProbeFails
  <2>1. ifaces' \in Seq(Object) /\ ep_to_slot' \in [Eps -> [slot : Nat, pipe : Nat]]
    BY <1>3, EmptySeq DEF ProbeFails, NoPipe
  <2>2. ports' \subseteq ports /\ taken' \subseteq taken
    BY <1>3 DEF ProbeFails, Kept
  <2> QED BY <1>1, <1>3, <2>1, <2>2, RequestType DEF SetConfiguration, ProbeFails, TypeOK
<1> QED BY <1>2, <1>3 DEF SetConfiguration

LEMMA ClaimingType ==
  ASSUME TypeOK, NEW i \in Ifaces,
         \/ ClaimInterface(i) \/ ReleaseInterface(i)
         \/ \E a \in Alts : SetAltInterface(i, a)
  PROVE  TypeOK'
<1>1. CASE ClaimInterface(i)
  <2>1. PICK S \in Readable : RecordEndpoints(i, alt[i], S)
    BY <1>1 DEF ClaimInterface
  <2>2. ObjectOf(i) \in Object
    BY <1>1, SlotInTable DEF ClaimInterface, OutOfBounds, ObjectOf
  <2> QED BY <1>1, <2>1, <2>2, RecordType, RequestType DEF ClaimInterface, TypeOK
<1>2. CASE ReleaseInterface(i)
  <2>1. if_state' \in [Ifaces -> [slot : Nat, claimed : BOOLEAN, eps : SUBSET Eps]]
        /\ ep_to_slot' \in [Eps -> [slot : Nat, pipe : Nat]]
    BY <1>2 DEF ReleaseInterface, TypeOK, NoPipe
  <2> QED BY <1>2, <2>1, AbortBoxes, RequestType DEF ReleaseInterface, TypeOK
<1>3. ASSUME NEW a \in Alts, SetAltInterface(i, a) PROVE TypeOK'
  <2>1. PICK S \in Readable : RecordEndpoints(i, a, S)
    BY <1>3 DEF SetAltInterface
  <2>2. alt' \in [Ifaces -> Alts]
    BY <1>3 DEF SetAltInterface, TypeOK
  <2> QED BY <1>3, <2>1, <2>2, RecordType, AbortBoxes, RequestType
          DEF SetAltInterface, TypeOK
<1> QED BY <1>1, <1>2, <1>3

LEMMA TransferType ==
  ASSUME TypeOK, CtrlXfer \/ \E e \in Eps : DataXfer(e) \/ DataXferFails(e)
  PROVE  TypeOK'
<1>0. to_stub # <<>> => Id \in Nat
  BY Queues DEF Id
<1>1. CASE CtrlXfer
  <2>1. [id |-> Id, obj |-> Device] \in Transfer
    BY <1>0, <1>1 DEF Transfer, CtrlXfer, NextRequest
  <2> QED BY <1>1, <2>1, RequestType DEF CtrlXfer, TypeOK, table_vars
<1>2. ASSUME NEW e \in Eps, DataXfer(e) PROVE TypeOK'
  <2>1. ifaces[ep_to_slot[e].slot] \in Object
    BY <1>2, SlotInTable DEF DataXfer, Reaches
  <2>2. [id |-> Id, obj |-> ifaces[ep_to_slot[e].slot]] \in Transfer
    BY <1>0, <1>2, <2>1 DEF Transfer, DataXfer, NextRequest
  <2> QED BY <1>2, <2>2, RequestType DEF DataXfer, TypeOK, table_vars
<1>3. ASSUME NEW e \in Eps, DataXferFails(e) PROVE TypeOK'
  <2>1. ifaces[ep_to_slot[e].slot] \in Object
    BY <1>3, SlotInTable DEF DataXferFails, Reaches
  <2> QED BY <1>3, <2>1, RequestType DEF DataXferFails, TypeOK, kernel_vars, table_vars
<1> QED BY <1>1, <1>2, <1>3

LEMMA RequestsType == ASSUME TypeOK, Request PROVE TypeOK'
<1>1. CASE Answer \/ OpenDevice
  BY <1>1, RequestType DEF Answer, OpenDevice, TypeOK, kernel_vars, table_vars
<1>2. ASSUME NEW i \in Ifaces, ClaimAsserts(i) \/ IndexPanics(i) PROVE TypeOK'
  BY <1>2 DEF ClaimAsserts, IndexPanics, Panic, TypeOK, kernel_vars, table_vars
<1>3. CASE ProbePanics
  BY <1>3 DEF ProbePanics, Panic, TypeOK, kernel_vars, table_vars
<1> QED BY <1>1, <1>2, <1>3, CloseType, SetConfigurationType, ClaimingType, TransferType DEF Request

LEMMA NextTypeOK == ASSUME TypeOK, [Next]_vars PROVE TypeOK'
<1>1. CASE UNCHANGED vars
  BY <1>1 DEF TypeOK, vars, kernel_vars, table_vars
<1> QED BY <1>1, OutsideType, NoticeType, DeliverType, RequestsType
        DEF Next, RunLoop, Completions

\* Every variable keeps its type: in particular a transfer is submitted on an
\* object that is there, and the place of an endpoint in its list is a number.
THEOREM TypeCorrect == Spec => []TypeOK
<1>1. Init => TypeOK
  BY InitInv DEF IInv
<1>2. TypeOK /\ [Next]_vars => TypeOK'
  BY NextTypeOK
<1> QED BY <1>1, <1>2, PTL DEF Spec

--------------------------------------------------------------------------------
(* Ports.                                                                   *)

PortsHeld == TransfersKeepPorts /\ TableHasPorts

\* A step that leaves the objects alone, and submits on those of the table.
LEMMA PortsSame ==
  ASSUME PortsHeld, UNCHANGED <<ports, ifaces>>,
         \A t \in Boxes' : t \in Boxes \/ t.obj = Device \/ t.obj \in ObjectsIn(ifaces)
  PROVE  PortsHeld'
  BY DEF PortsHeld, TransfersKeepPorts, TableHasPorts, ObjectsIn, Boxes

LEMMA OutsidePorts == ASSUME TypeOK, PortsHeld, Outside PROVE PortsHeld'
<1>1. ASSUME NEW t \in in_flight, Complete(t) PROVE PortsHeld'
  BY <1>1, PortsSame DEF Complete, table_vars, Boxes
<1>2. CASE Post \/ PlugIn \/ PullOut
  BY <1>2, PortsSame DEF Post, PlugIn, PullOut, kernel_vars, table_vars, Boxes
<1> QED BY <1>1, <1>2 DEF Outside

\* A probe keeps the objects of the transfers under way.
LEMMA ProbePorts ==
  ASSUME TypeOK, PortsHeld, UNCHANGED <<in_flight, completed>>,
         ProbeFails \/ \E order : ProbeOk(order)
  PROVE  PortsHeld'
<1>1. \A t \in Boxes : t.obj # Device => t.obj \in ports'
  BY DEF ProbeFails, ProbeOk, Kept, PortsHeld, TransfersKeepPorts, Boxes
<1>2. TransfersKeepPorts'
  BY <1>1 DEF TransfersKeepPorts, Boxes
<1>3. TableHasPorts'
  <2>1. CASE ProbeFails
    BY <2>1 DEF ProbeFails, TableHasPorts, ObjectsIn
  <2>2. ASSUME NEW order, ProbeOk(order) PROVE TableHasPorts'
    BY <2>2 DEF ProbeOk, TableHasPorts, ObjectsIn
  <2> QED BY <2>1, <2>2
<1> QED BY <1>2, <1>3 DEF PortsHeld

LEMMA NoticePorts ==
  ASSUME TypeOK, PortsHeld, Setup \/ SetupFails \/ Unplug
  PROVE  PortsHeld'
<1>1. CASE Setup
  BY <1>1, ProbePorts DEF Setup
<1>2. CASE SetupFails
  BY <1>2, PortsSame DEF SetupFails, table_vars, Boxes
<1>3. CASE Unplug
  BY <1>3 DEF Unplug, Kept, ObjectsIn, PortsHeld, TransfersKeepPorts, TableHasPorts
<1> QED BY <1>1, <1>2, <1>3

LEMMA DeliverPorts ==
  ASSUME TypeOK, PortsHeld, NEW t \in completed, Deliver(t)
  PROVE  PortsHeld'
<1>1. in_flight' = in_flight /\ completed' = completed \ {t} /\ ifaces' = ifaces
      /\ ports' = Kept(ifaces, in_flight \cup (completed \ {t}))
  BY DEF Deliver, table_vars
<1>2. TransfersKeepPorts'
  BY <1>1 DEF Kept, PortsHeld, TransfersKeepPorts
<1>3. TableHasPorts'
  BY <1>1 DEF Kept, PortsHeld, TableHasPorts, ObjectsIn
<1> QED BY <1>2, <1>3 DEF PortsHeld

LEMMA RequestPorts == ASSUME TypeOK, PortsHeld, Request PROVE PortsHeld'
<1>1. CASE Answer \/ OpenDevice
  BY <1>1, PortsSame DEF Answer, OpenDevice, kernel_vars, table_vars, Boxes
<1>2. CASE CloseDevice
  BY <1>2, AbortBoxes, PortsSame DEF CloseDevice, Boxes
<1>3. CASE CtrlXfer
  BY <1>3, PortsSame DEF CtrlXfer, table_vars, Boxes
<1>4. ASSUME NEW c \in Configs, SetConfiguration(c) PROVE PortsHeld'
  BY <1>4, ProbePorts DEF SetConfiguration
<1>5. ASSUME NEW i \in Ifaces, ClaimInterface(i) PROVE PortsHeld'
  BY <1>5, PortsSame DEF ClaimInterface, Boxes
<1>6. ASSUME NEW i \in Ifaces, ReleaseInterface(i) PROVE PortsHeld'
  BY <1>6, AbortBoxes, PortsSame DEF ReleaseInterface, Boxes
<1>7. ASSUME NEW i \in Ifaces, NEW a \in Alts, SetAltInterface(i, a) PROVE PortsHeld'
  BY <1>7, AbortBoxes, PortsSame DEF SetAltInterface, Boxes
<1>8. ASSUME NEW i \in Ifaces, ClaimAsserts(i) \/ IndexPanics(i) PROVE PortsHeld'
  BY <1>8, PortsSame DEF ClaimAsserts, IndexPanics, Panic, kernel_vars, table_vars, Boxes
<1>9. ASSUME NEW e \in Eps, DataXfer(e) PROVE PortsHeld'
  BY <1>9, PortsSame DEF DataXfer, Reaches, table_vars, Boxes, ObjectsIn
<1>10. ASSUME NEW e \in Eps, DataXferFails(e) PROVE PortsHeld'
  BY <1>10, PortsSame DEF DataXferFails, kernel_vars, table_vars, Boxes
<1>11. CASE ProbePanics
  BY <1>11, PortsSame DEF ProbePanics, Panic, kernel_vars, table_vars, Boxes
<1> QED BY <1>1, <1>2, <1>3, <1>4, <1>5, <1>6, <1>7, <1>8, <1>9, <1>10, <1>11 DEF Request

LEMMA NextPorts == ASSUME TypeOK, PortsHeld, [Next]_vars PROVE PortsHeld'
<1>1. CASE UNCHANGED vars
  BY <1>1, PortsSame DEF vars, kernel_vars, table_vars, Boxes
<1> QED BY <1>1, OutsidePorts, NoticePorts, DeliverPorts, RequestPorts
        DEF Next, RunLoop, Completions

--------------------------------------------------------------------------------
(* Claims.                                                                  *)

\* A step that changes no claim, and closes no object of the table.
LEMMA ClaimsSame ==
  ASSUME ProbesCounted, ClaimsMatch, UNCHANGED <<ifaces, probes>>,
         \A i \in Ifaces : /\ if_state'[i].slot = if_state[i].slot
                           /\ if_state'[i].claimed = if_state[i].claimed,
         taken' \subseteq taken, taken \cap ObjectsIn(ifaces) \subseteq taken'
  PROVE  ProbesCounted' /\ ClaimsMatch'
  BY DEF ProbesCounted, ClaimsMatch, ObjectOf, ObjectsIn

\* A table without objects.
LEMMA NoObjects ==
  ASSUME TypeOK, ProbesCounted, ifaces' = <<>>, taken' \subseteq taken, probes' = probes
  PROVE  ProbesCounted' /\ ClaimsMatch'
  BY EmptySeq DEF ProbesCounted, ClaimsMatch

LEMMA ProbeClaims ==
  ASSUME TypeOK, ProbesCounted, NEW c \in Configs \cup {Unconfigured},
         NEW order \in Orders(c), ProbeOk(order)
  PROVE  ProbesCounted' /\ ClaimsMatch'
<1>1. taken' \subseteq taken
  <2>1. taken' = taken \cap ports'
    BY DEF ProbeOk
  <2> QED BY <2>1
<1>2. \A o \in taken : o[2] \in Nat /\ o[2] <= probes
  BY DEF TypeOK, Object, ProbesCounted
<1>3. probes \in Nat /\ probes' = probes + 1
  BY Probed
<1>4. \A k \in DOMAIN ifaces' : ifaces'[k][2] = probes + 1
  BY Probed
<1>5. \A k \in DOMAIN ifaces' : ifaces'[k] \notin taken'
  BY <1>1, <1>2, <1>3, <1>4
<1>6. ProbesCounted'
  BY <1>1, <1>2, <1>3, <1>4 DEF ProbesCounted
<1>7. \A i \in Ifaces : if_state'[i].slot \in DOMAIN ifaces' =>
        ifaces'[if_state'[i].slot][1] = i /\ ~if_state'[i].claimed
  BY Probed
<1>8. ClaimsMatch'
  BY <1>5, <1>7 DEF ClaimsMatch, ObjectOf
<1> QED BY <1>6, <1>8

LEMMA CloseClaims ==
  ASSUME TypeOK, ProbesCounted, ClaimsMatch, CloseDevice
  PROVE  ProbesCounted' /\ ClaimsMatch'
<1>1. PICK failed \in SUBSET ClaimedIfaces :
        /\ if_state' = [i \in Ifaces |-> [if_state[i] EXCEPT !.claimed = @ /\ i \in failed]]
        /\ taken' = taken \ {ObjectOf(i) : i \in ClaimedIfaces \ failed}
  BY DEF CloseDevice
<1>2. \A i \in Ifaces : /\ if_state'[i].slot = if_state[i].slot
                        /\ if_state'[i].claimed <=> if_state[i].claimed /\ i \in failed
  BY <1>1 DEF TypeOK
<1>3. ifaces' = ifaces /\ probes' = probes
  BY DEF CloseDevice
<1>4. \A i \in ClaimedIfaces : if_state[i].slot \in DOMAIN ifaces /\ i \in Ifaces
  BY DEF CloseDevice, OutOfBounds, ClaimedIfaces
<1>5. ASSUME NEW i \in Ifaces, if_state[i].slot \in DOMAIN ifaces
      PROVE  /\ ObjectOf(i)[1] = i
             /\ (if_state[i].claimed /\ i \in failed) <=> ObjectOf(i) \in taken'
  <2>1. ObjectOf(i)[1] = i /\ (if_state[i].claimed <=> ObjectOf(i) \in taken)
    BY <1>5 DEF ClaimsMatch
  <2>2. \A j \in ClaimedIfaces : ObjectOf(j) = ObjectOf(i) => j = i
    BY <1>4, <2>1 DEF ClaimsMatch
  <2>3. i \in ClaimedIfaces <=> if_state[i].claimed
    BY DEF ClaimedIfaces
  <2> QED BY <1>1, <2>1, <2>2, <2>3
<1>6. ClaimsMatch'
  BY <1>2, <1>3, <1>5 DEF ClaimsMatch, ObjectOf
<1>7. ProbesCounted'
  BY <1>1, <1>3 DEF ProbesCounted
<1> QED BY <1>6, <1>7

\* Opening or closing the object of one interface, and no other.
LEMMA OneClaim ==
  ASSUME TypeOK, ProbesCounted, ClaimsMatch, UNCHANGED <<ifaces, probes>>,
         NEW i \in Ifaces, if_state[i].slot \in DOMAIN ifaces,
         \A j \in Ifaces : /\ if_state'[j].slot = if_state[j].slot
                           /\ j # i => if_state'[j].claimed = if_state[j].claimed,
         \/ if_state'[i].claimed = TRUE /\ taken' = taken \cup {ObjectOf(i)}
         \/ if_state'[i].claimed = FALSE /\ taken' = taken \ {ObjectOf(i)}
  PROVE  ProbesCounted' /\ ClaimsMatch'
<1>1. ObjectOf(i)[1] = i /\ ObjectOf(i)[2] <= probes
  BY DEF ClaimsMatch, ProbesCounted, ObjectOf
<1>2. ProbesCounted'
  BY <1>1 DEF ProbesCounted
<1>3. ASSUME NEW j \in Ifaces, if_state[j].slot \in DOMAIN ifaces
      PROVE  /\ ObjectOf(j)[1] = j
             /\ if_state'[j].claimed <=> ObjectOf(j) \in taken'
  <2>1. ObjectOf(j)[1] = j /\ (if_state[j].claimed <=> ObjectOf(j) \in taken)
    BY <1>3 DEF ClaimsMatch
  <2>2. CASE j = i
    BY <2>1, <2>2
  <2>3. CASE j # i
    BY <1>1, <2>1, <2>3
  <2> QED BY <2>2, <2>3
<1>4. ClaimsMatch'
  BY <1>3 DEF ClaimsMatch, ObjectOf
<1> QED BY <1>2, <1>4

LEMMA ClaimingClaims ==
  ASSUME TypeOK, ProbesCounted, ClaimsMatch, NEW i \in Ifaces,
         \/ ClaimInterface(i) \/ ReleaseInterface(i)
         \/ \E a \in Alts : SetAltInterface(i, a)
  PROVE  ProbesCounted' /\ ClaimsMatch'
<1>1. ASSUME NEW a, NEW S, RecordEndpoints(i, a, S)
      PROVE  /\ if_state'[i].claimed = TRUE
             /\ \A j \in Ifaces : /\ if_state'[j].slot = if_state[j].slot
                                  /\ j # i => if_state'[j].claimed = if_state[j].claimed
  BY <1>1 DEF RecordEndpoints, TypeOK
<1>2. CASE ClaimInterface(i)
  BY <1>1, <1>2, OneClaim DEF ClaimInterface, OutOfBounds
<1>3. CASE ReleaseInterface(i)
  <2>1. /\ if_state'[i].claimed = FALSE
        /\ \A j \in Ifaces : /\ if_state'[j].slot = if_state[j].slot
                             /\ j # i => if_state'[j].claimed = if_state[j].claimed
    BY <1>3 DEF ReleaseInterface, TypeOK
  <2> QED BY <1>3, <2>1, OneClaim DEF ReleaseInterface, OutOfBounds
<1>4. ASSUME NEW a \in Alts, SetAltInterface(i, a) PROVE ProbesCounted' /\ ClaimsMatch'
  <2>1. \A j \in Ifaces : /\ if_state'[j].slot = if_state[j].slot
                          /\ if_state'[j].claimed = if_state[j].claimed
    BY <1>1, <1>4 DEF SetAltInterface, TypeOK
  <2> QED BY <1>4, <2>1, ClaimsSame DEF SetAltInterface
<1> QED BY <1>2, <1>3, <1>4

LEMMA NextClaims ==
  ASSUME TypeOK, PortsHeld, ProbesCounted, ClaimsMatch, [Next]_vars
  PROVE  ProbesCounted' /\ ClaimsMatch'
<1>0. ASSUME UNCHANGED <<ifaces, probes, if_state, taken>>
      PROVE  ProbesCounted' /\ ClaimsMatch'
  BY <1>0, ClaimsSame
<1>1. CASE Outside
  BY <1>0, <1>1 DEF Outside, Post, PlugIn, PullOut, Complete, kernel_vars, table_vars
<1>2. CASE Setup
  BY <1>2, ProbeClaims DEF Setup
<1>3. CASE SetupFails
  BY <1>0, <1>3 DEF SetupFails, table_vars
<1>4. CASE Unplug
  <2>1. taken' = taken \cap ports' /\ ifaces' = <<>> /\ probes' = probes
    BY <1>4 DEF Unplug
  <2> QED BY <2>1, NoObjects
<1>5. ASSUME NEW t \in completed, Deliver(t) PROVE ProbesCounted' /\ ClaimsMatch'
  <2>1. /\ ports' = Kept(ifaces, in_flight \cup (completed \ {t}))
        /\ taken' = taken \cap ports'
        /\ UNCHANGED <<ifaces, probes, if_state>>
    BY <1>5 DEF Deliver, table_vars
  <2>2. taken \cap ObjectsIn(ifaces) \subseteq taken'
    BY <2>1 DEF PortsHeld, TableHasPorts, Kept
  <2> QED BY <2>1, <2>2, ClaimsSame
<1>6. CASE Answer \/ OpenDevice \/ ProbePanics \/ CtrlXfer
  BY <1>0, <1>6 DEF Answer, OpenDevice, ProbePanics, Panic, CtrlXfer, kernel_vars, table_vars
<1>7. ASSUME NEW c \in Configs, SetConfiguration(c) PROVE ProbesCounted' /\ ClaimsMatch'
  <2>1. CASE ProbeFails
    <3>1. taken' = taken \cap ports' /\ ifaces' = <<>> /\ probes' = probes
      BY <2>1 DEF ProbeFails
    <3> QED BY <3>1, NoObjects
  <2> QED BY <1>7, <2>1, ProbeClaims DEF SetConfiguration
<1>8. ASSUME NEW i \in Ifaces, ClaimAsserts(i) \/ IndexPanics(i)
      PROVE  ProbesCounted' /\ ClaimsMatch'
  BY <1>0, <1>8 DEF ClaimAsserts, IndexPanics, Panic, kernel_vars, table_vars
<1>9. ASSUME NEW e \in Eps, DataXfer(e) \/ DataXferFails(e)
      PROVE  ProbesCounted' /\ ClaimsMatch'
  BY <1>0, <1>9 DEF DataXfer, DataXferFails, kernel_vars, table_vars
<1>10. CASE UNCHANGED vars
  BY <1>0, <1>10 DEF vars, kernel_vars, table_vars
<1> QED BY <1>1, <1>2, <1>3, <1>4, <1>5, <1>6, <1>7, <1>8, <1>9, <1>10, CloseClaims,
           ClaimingClaims DEF Next, RunLoop, Completions, Request

--------------------------------------------------------------------------------
(* Endpoints.                                                               *)

\* What the map says of an endpoint, claimed or not, is what the setting of its
\* interface says; and what it says anything of is in the interface's list,
\* without which a release or another setting would leave it behind.
MapMatches ==
  \A e \in Eps :
    LET i == EpIface[e] IN
      ep_to_slot[e] # NoPipe =>
        /\ e \in if_state[i].eps
        /\ ep_to_slot[e] = [slot |-> if_state[i].slot, pipe |-> PipeRef[i][alt[i]][e]]

\* Where the pipes are counted without a gap, the place of an endpoint in the
\* list is its pipe.
LEMMA PlaceIsPipe ==
  ASSUME NEW i \in Ifaces, NEW a \in Alts, NEW e \in Eps, PipeRef[i][a][e] > 0
  PROVE  PlaceOf(i, a, Eps, e) = PipeRef[i][a][e]
<1> DEFINE pipe == PipeRef[i][a]
           own == {f \in Eps : pipe[f] > 0}
           P == {f \in Eps : pipe[f] \in 1 .. pipe[e]}
<1>1. pipe \in [Eps -> Nat] /\ IsFiniteSet(Eps)
  BY MacAssumption
<1>2. /\ \A f, g \in own : pipe[f] = pipe[g] => f = g
      /\ \A k \in 1 .. pipe[e] : \E f \in own : pipe[f] = k
  BY PipesAssumption
<1>3. pipe[e] \in Nat /\ pipe[e] > 0
  BY <1>1
<1> HIDE DEF pipe
<1>4. P \subseteq own
  BY <1>1
<1>5. [f \in P |-> pipe[f]] \in Bijection(P, 1 .. pipe[e])
  <2>1. \A k \in 1 .. pipe[e] : \E f \in P : pipe[f] = k
    BY <1>2
  <2>2. \A f, g \in P : pipe[f] = pipe[g] => f = g
    BY <1>2, <1>4
  <2> QED BY <2>1, <2>2, Fun_IsBij
<1>6. IsFiniteSet(P)
  BY <1>1, FS_Subset
<1>7. Cardinality(P) = Cardinality(1 .. pipe[e])
  BY <1>5, <1>6, FS_Bijection DEF ExistsBijection
<1>8. Cardinality(1 .. pipe[e]) = pipe[e]
  BY <1>3, FS_Interval
<1> QED BY <1>7, <1>8 DEF PlaceOf, pipe

LEMMA MapSame ==
  MapMatches /\ UNCHANGED <<if_state, ep_to_slot, alt>> => MapMatches'
  BY DEF MapMatches

LEMMA MapEmpty ==
  ep_to_slot' = [e \in Eps |-> NoPipe] => MapMatches'
  BY DEF MapMatches

\* The endpoints of an interface are recorded anew, for the setting it is in now.
LEMMA RecordMap ==
  ASSUME ~PipesMayFail, TypeOK, MapMatches, NEW i \in Ifaces, NEW a \in Alts,
         NEW S \in Readable, RecordEndpoints(i, a, S), alt' = [alt EXCEPT ![i] = a]
  PROVE  MapMatches'
<1> SUFFICES ASSUME NEW e \in Eps, ep_to_slot'[e] # NoPipe
             PROVE  LET j == EpIface[e] IN
                      /\ e \in if_state'[j].eps
                      /\ ep_to_slot'[e] = [slot |-> if_state'[j].slot,
                                           pipe |-> PipeRef[j][alt'[j]][e]]
  BY DEF MapMatches
<1>1. S = Eps \/ S = {}
  BY DEF Readable
<1>2. EpIface[e] \in Ifaces /\ alt' \in [Ifaces -> Alts] /\ alt'[i] = a
  BY MacAssumption DEF TypeOK
<1>3. /\ if_state'[i].eps = EpAddrs(i, a, S) /\ if_state'[i].slot = if_state[i].slot
      /\ \A j \in Ifaces : j # i => if_state'[j] = if_state[j] /\ alt'[j] = alt[j]
  BY DEF RecordEndpoints, TypeOK
<1>4. CASE e \in EpAddrs(i, a, S)
  <2>1. ep_to_slot'[e] = [slot |-> if_state[i].slot, pipe |-> PlaceOf(i, a, S, e)]
    BY <1>4 DEF RecordEndpoints
  <2>2. S = Eps /\ PipeRef[i][a][e] > 0
    BY <1>1, <1>4 DEF EpAddrs
  <2>3. EpIface[e] = i
    BY <2>2, PipesAssumption
  <2> QED BY <1>2, <1>3, <1>4, <2>1, <2>2, <2>3, PlaceIsPipe
<1>5. CASE e \notin EpAddrs(i, a, S)
  <2>1. e \notin if_state[i].eps /\ ep_to_slot'[e] = ep_to_slot[e]
    BY <1>5 DEF RecordEndpoints
  <2>2. EpIface[e] # i
    BY <2>1 DEF MapMatches
  <2> QED BY <1>2, <1>3, <2>1, <2>2 DEF MapMatches
<1> QED BY <1>4, <1>5

LEMMA RequestMap ==
  ASSUME ~PipesMayFail, TypeOK, MapMatches, Request
  PROVE  MapMatches'
<1>1. CASE Answer \/ OpenDevice \/ ProbePanics \/ CtrlXfer
  BY <1>1, MapSame
  DEF Answer, OpenDevice, ProbePanics, Panic, CtrlXfer, kernel_vars, table_vars
<1>2. CASE CloseDevice
  <2>1. ep_to_slot' = ep_to_slot /\ alt' = alt
    BY <1>2 DEF CloseDevice
  <2>2. \A i \in Ifaces : if_state'[i].slot = if_state[i].slot /\ if_state'[i].eps = if_state[i].eps
    BY <1>2 DEF CloseDevice, TypeOK
  <2> QED BY <2>1, <2>2, MacAssumption DEF MapMatches
<1>3. ASSUME NEW c \in Configs, SetConfiguration(c) PROVE MapMatches'
  BY <1>3, MapEmpty DEF SetConfiguration, ProbeOk, ProbeFails
<1>4. ASSUME NEW i \in Ifaces, ClaimInterface(i) PROVE MapMatches'
  <2>1. alt[i] \in Alts /\ alt' = [alt EXCEPT ![i] = alt[i]]
    BY <1>4 DEF ClaimInterface, TypeOK
  <2> QED BY <1>4, <2>1, RecordMap DEF ClaimInterface
<1>5. ASSUME NEW i \in Ifaces, ReleaseInterface(i) PROVE MapMatches'
  <2>1. /\ alt' = alt
        /\ ep_to_slot' = [e \in Eps |-> IF e \in if_state[i].eps THEN NoPipe ELSE ep_to_slot[e]]
        /\ \A j \in Ifaces : j # i => if_state'[j] = if_state[j]
    BY <1>5 DEF ReleaseInterface, TypeOK
  <2>2. \A e \in Eps : EpIface[e] = i => ep_to_slot'[e] = NoPipe
    BY <2>1 DEF MapMatches
  <2> QED BY <2>1, <2>2, MacAssumption DEF MapMatches
<1>6. ASSUME NEW i \in Ifaces, ClaimAsserts(i) \/ IndexPanics(i) PROVE MapMatches'
  BY <1>6, MapSame DEF ClaimAsserts, IndexPanics, Panic, kernel_vars, table_vars
<1>7. ASSUME NEW i \in Ifaces, NEW a \in Alts, SetAltInterface(i, a) PROVE MapMatches'
  BY <1>7, RecordMap DEF SetAltInterface
<1>8. ASSUME NEW e \in Eps, DataXfer(e) \/ DataXferFails(e) PROVE MapMatches'
  BY <1>8, MapSame DEF DataXfer, DataXferFails, kernel_vars, table_vars
<1> QED BY <1>1, <1>2, <1>3, <1>4, <1>5, <1>6, <1>7, <1>8 DEF Request

LEMMA NextMap ==
  ASSUME ~PipesMayFail, TypeOK, MapMatches, [Next]_vars
  PROVE  MapMatches'
<1>1. CASE UNCHANGED vars \/ SetupFails
  BY <1>1, MapSame DEF vars, SetupFails, kernel_vars, table_vars
<1>2. CASE Outside
  BY <1>2, MapSame DEF Outside, Post, PlugIn, PullOut, Complete, kernel_vars, table_vars
<1>3. CASE Setup \/ Unplug
  BY <1>3, MapEmpty DEF Setup, ProbeOk, Unplug
<1>4. ASSUME NEW t \in completed, Deliver(t) PROVE MapMatches'
  BY <1>4, MapSame DEF Deliver, table_vars
<1> QED BY <1>1, <1>2, <1>3, <1>4, RequestMap DEF Next, RunLoop, Completions

--------------------------------------------------------------------------------
(* Where the ids are: each in one place, and there once.                    *)

BoxIds == {t.id : t \in Boxes}

\* A request is on stdin or in a box, and a box in flight or completed.
IdsApart ==
  /\ NoRepeat(to_stub)
  /\ \A t, u \in Boxes : t.id = u.id => t = u
  /\ in_flight \cap completed = {}
  /\ Elems(to_stub) \cap BoxIds = {}
  /\ Elems(to_stub) \cup BoxIds \subseteq 1 .. posted

\* The step is one of RequestReply, or none, in terms of sets of ids.
ServiceStep ==
  LET used == 1 .. posted
      asking == Elems(to_stub) \cup BoxIds
  IN  \/ /\ used \subseteq used' /\ used' # used
         /\ asking' = asking \cup (used' \ used)
         /\ replies' = replies
      \/ \E id \in asking : /\ asking' = asking \ {id}
                            /\ replies' = replies \cup {id}
                            /\ used' = used
      \/ used' = used /\ asking' = asking /\ replies' = replies

LEMMA ServiceStepRefines ==
  ASSUME ServiceStep
  PROVE  [Service!Next]_(Service!vars)
<1> DEFINE asking == Elems(to_stub) \cup BoxIds
           asked == {to_stub[k] : k \in DOMAIN to_stub}
                      \cup {t.id : t \in in_flight} \cup {t.id : t \in completed}
<1>1. asking = asked /\ asking' = asked'
  BY DEF Elems, BoxIds, Boxes
<1> QED BY <1>1 DEF ServiceStep, Service!Next, Service!Ask, Service!Finish, Service!Deliver,
                    Service!vars

LEMMA IdsUnmoved ==
  IdsApart /\ UNCHANGED <<posted, to_stub, replies, in_flight, completed>>
    => IdsApart' /\ ServiceStep
BY DEF IdsApart, ServiceStep, Elems, NoRepeat, BoxIds, Boxes

\* Transfers end, and their boxes wait at their ports.
LEMMA BoxesMove ==
  ASSUME IdsApart, NEW S, in_flight' = in_flight \ S,
         completed' = completed \cup (in_flight \cap S)
  PROVE  Boxes' = Boxes /\ BoxIds' = BoxIds /\ (in_flight \cap completed)' = {}
BY DEF IdsApart, Boxes, BoxIds

LEMMA AbortIds ==
  ASSUME IdsApart, NEW objs, Abort(objs)
  PROVE  Boxes' = Boxes /\ BoxIds' = BoxIds /\ (in_flight \cap completed)' = {}
<1> DEFINE S == {t \in in_flight : t.obj \in objs}
<1>1. in_flight' = in_flight \ S /\ completed' = completed \cup (in_flight \cap S)
  BY DEF Abort
<1> QED BY <1>1, BoxesMove

LEMMA OutsideIds ==
  ASSUME TypeOK, IdsApart, Outside
  PROVE  IdsApart' /\ ServiceStep
<1>1. CASE Post
  <2>1. posted \in Nat /\ to_stub \in Seq(Nat) /\ posted' = posted + 1
        /\ to_stub' = Append(to_stub, posted + 1) /\ UNCHANGED <<replies, in_flight, completed>>
    BY <1>1 DEF Post, kernel_vars, TypeOK
  <2>2. /\ posted + 1 \in Nat /\ posted + 1 \notin 1 .. posted
        /\ 1 .. posted' = (1 .. posted) \cup {posted + 1}
    BY <2>1
  <2>3. posted + 1 \notin Elems(to_stub) /\ posted + 1 \notin BoxIds
    BY <2>2 DEF IdsApart
  <2>4. NoRepeat(to_stub') /\ Elems(to_stub') = Elems(to_stub) \cup {posted + 1}
    BY <2>1, <2>2, <2>3, AppendElems DEF IdsApart
  <2>5. Boxes' = Boxes /\ BoxIds' = BoxIds
    BY <2>1 DEF Boxes, BoxIds
  <2>6. IdsApart'
    BY <2>1, <2>2, <2>3, <2>4, <2>5 DEF IdsApart
  <2>7. ServiceStep
    BY <2>1, <2>2, <2>4, <2>5 DEF ServiceStep
  <2> QED BY <2>6, <2>7
<1>2. CASE PlugIn \/ PullOut
  BY <1>2, IdsUnmoved DEF PlugIn, PullOut
<1>3. ASSUME NEW t \in in_flight, Complete(t) PROVE IdsApart' /\ ServiceStep
  <2>1. in_flight' = in_flight \ {t} /\ completed' = completed \cup (in_flight \cap {t})
        /\ UNCHANGED <<posted, to_stub, replies>>
    BY <1>3 DEF Complete
  <2>2. Boxes' = Boxes /\ BoxIds' = BoxIds /\ (in_flight \cap completed)' = {}
    BY <2>1, BoxesMove
  <2>3. IdsApart'
    BY <2>1, <2>2 DEF IdsApart, Elems, NoRepeat
  <2>4. ServiceStep
    BY <2>1, <2>2 DEF ServiceStep, Elems
  <2> QED BY <2>3, <2>4
<1> QED BY <1>1, <1>2, <1>3 DEF Outside

LEMMA DeliverIds ==
  ASSUME TypeOK, IdsApart, NEW t \in completed, Deliver(t)
  PROVE  IdsApart' /\ ServiceStep
<1>1. /\ replies' = replies \cup {t.id} /\ completed' = completed \ {t}
      /\ UNCHANGED <<posted, to_stub, in_flight>>
  BY DEF Deliver
<1>2. t \in Boxes /\ t \notin in_flight
  BY DEF Boxes, IdsApart
<1>3. Boxes' = Boxes \ {t}
  BY <1>1, <1>2 DEF Boxes
<1>4. \A u \in Boxes : u.id = t.id => u = t
  BY <1>2 DEF IdsApart
<1>5. BoxIds' = BoxIds \ {t.id} /\ t.id \in BoxIds
  BY <1>2, <1>3, <1>4 DEF BoxIds
<1>6. IdsApart'
  BY <1>1, <1>3, <1>5 DEF IdsApart, Elems, NoRepeat
<1>7. t.id \notin Elems(to_stub)
  BY <1>5 DEF IdsApart
<1>8. ServiceStep
  BY <1>1, <1>5, <1>7 DEF ServiceStep, Elems
<1> QED BY <1>6, <1>8

LEMMA RequestIds ==
  ASSUME TypeOK, IdsApart, Request
  PROVE  IdsApart' /\ ServiceStep
<1>1. ASSUME NextRequest, posted' = posted
      PROVE  /\ Id \in Elems(to_stub) /\ Id \in 1 .. posted /\ Id \notin BoxIds
             /\ NoRepeat(to_stub') /\ Elems(to_stub') = Elems(to_stub) \ {Id}
  BY <1>1, TailElems DEF NextRequest, Id, TypeOK, IdsApart
<1>2. ASSUME NextRequest, Reply, posted' = posted,
             Boxes' = Boxes, BoxIds' = BoxIds, (in_flight \cap completed)' = {}
      PROVE  IdsApart' /\ ServiceStep
  <2>1. IdsApart'
    BY <1>1, <1>2 DEF IdsApart
  <2>2. ServiceStep
    BY <1>1, <1>2 DEF ServiceStep, Reply
  <2> QED BY <2>1, <2>2
<1>3. ASSUME NextRequest, Reply, posted' = posted, UNCHANGED <<in_flight, completed>>
      PROVE  IdsApart' /\ ServiceStep
  BY <1>2, <1>3 DEF Boxes, BoxIds, IdsApart
<1>4. ASSUME NextRequest, Reply, posted' = posted, NEW objs, Abort(objs)
      PROVE  IdsApart' /\ ServiceStep
  BY <1>2, <1>4, AbortIds
<1>5. ASSUME NextRequest, NEW t, t.id = Id, in_flight' = in_flight \cup {t},
             UNCHANGED <<posted, replies, completed>>
      PROVE  IdsApart' /\ ServiceStep
  <2>1. Boxes' = Boxes \cup {t}
    BY <1>5 DEF Boxes
  <2>2. BoxIds' = BoxIds \cup {Id}
    BY <1>5, <2>1 DEF BoxIds
  <2>3. \A u \in Boxes : u.id # Id
    BY <1>1, <1>5 DEF BoxIds
  <2>4. (in_flight \cap completed)' = {}
    BY <1>5, <2>3 DEF IdsApart, Boxes
  <2>5. \A u, v \in Boxes' : u.id = v.id => u = v
    BY <1>5, <2>1, <2>3 DEF IdsApart
  <2>6. IdsApart'
    BY <1>1, <1>5, <2>2, <2>4, <2>5 DEF IdsApart
  <2>7. ServiceStep
    BY <1>1, <1>5, <2>2 DEF ServiceStep
  <2> QED BY <2>6, <2>7
<1> USE DEF kernel_vars, table_vars
<1>6. CASE Answer \/ OpenDevice
  BY <1>3, <1>6 DEF Answer, OpenDevice
<1>7. CASE CloseDevice
  BY <1>4, <1>7 DEF CloseDevice
<1>8. CASE ProbePanics
  BY <1>8, IdsUnmoved DEF ProbePanics, Panic
<1>9. CASE CtrlXfer
  <2>1. [id |-> Id, obj |-> Device].id = Id
    OBVIOUS
  <2> QED BY <1>5, <1>9, <2>1 DEF CtrlXfer
<1>10. ASSUME NEW c \in Configs, SetConfiguration(c) PROVE IdsApart' /\ ServiceStep
  BY <1>3, <1>10 DEF SetConfiguration
<1>11. ASSUME NEW i \in Ifaces, ClaimInterface(i) PROVE IdsApart' /\ ServiceStep
  BY <1>3, <1>11 DEF ClaimInterface
<1>12. ASSUME NEW i \in Ifaces, ReleaseInterface(i) PROVE IdsApart' /\ ServiceStep
  BY <1>4, <1>12 DEF ReleaseInterface
<1>13. ASSUME NEW i \in Ifaces, ClaimAsserts(i) \/ IndexPanics(i)
       PROVE  IdsApart' /\ ServiceStep
  BY <1>13, IdsUnmoved DEF ClaimAsserts, IndexPanics, Panic
<1>14. ASSUME NEW i \in Ifaces, NEW a \in Alts, SetAltInterface(i, a)
       PROVE  IdsApart' /\ ServiceStep
  BY <1>4, <1>14 DEF SetAltInterface
<1>15. ASSUME NEW e \in Eps, DataXfer(e) PROVE IdsApart' /\ ServiceStep
  <2>1. [id |-> Id, obj |-> ifaces[ep_to_slot[e].slot]].id = Id
    OBVIOUS
  <2> QED BY <1>5, <1>15, <2>1 DEF DataXfer
<1>16. ASSUME NEW e \in Eps, DataXferFails(e) PROVE IdsApart' /\ ServiceStep
  BY <1>3, <1>16 DEF DataXferFails
<1> QED BY <1>6, <1>7, <1>8, <1>9, <1>10, <1>11, <1>12, <1>13, <1>14, <1>15, <1>16 DEF Request

LEMMA NextIds ==
  ASSUME TypeOK, IdsApart, [Next]_vars
  PROVE  IdsApart' /\ ServiceStep
<1>1. CASE Setup \/ SetupFails \/ Unplug \/ UNCHANGED vars
  BY <1>1, IdsUnmoved DEF Setup, SetupFails, Unplug, vars, kernel_vars
<1> QED BY <1>1, OutsideIds, DeliverIds, RequestIds DEF Next, RunLoop, Completions

--------------------------------------------------------------------------------
(* The theorems.                                                            *)

LEMMA Inductive == Spec => []IInv
<1>1. Init => IInv
  BY InitInv
<1>2. IInv /\ [Next]_vars => IInv'
  BY NextTypeOK, NextPorts, NextClaims DEF IInv, PortsHeld
<1> QED BY <1>1, <1>2, PTL DEF Spec

\* The port by which the completion of a transfer comes is open as long as the
\* transfer is under way: the reference of its box sees to it
\* (architecture.md:127-137, main.rs:1868-2019).
THEOREM PortsCorrect == Spec => []TransfersKeepPorts
<1>1. IInv => TransfersKeepPorts
  BY DEF IInv
<1> QED BY <1>1, Inductive, PTL

\* An interface counts as claimed exactly as long as its own object is open, also
\* after closes and probes that failed half way (main.rs:1404-1480, 1517-1559).
THEOREM ClaimsCorrect == Spec => []ClaimsMatchObjects
<1>1. IInv => ClaimsMatchObjects
  BY DEF IInv, ClaimsMatch, ClaimsMatchObjects, OutOfBounds
<1> QED BY <1>1, Inductive, PTL

\* The stub on macOS implements RequestReply: every request is carried out once
\* and answered once or, if it is a transfer whose port has been closed, never;
\* no completion is delivered twice (main.rs:3074-3118, 1868-2019).
THEOREM ServiceCorrect == Spec => ServiceSpec
<1>1. Init => Service!Init /\ IdsApart
  <2> SUFFICES ASSUME Init PROVE Service!Init /\ IdsApart
    OBVIOUS
  <2>1. 1 .. posted = {} /\ to_stub = <<>>
        /\ in_flight = {} /\ completed = {} /\ replies = {}
    BY DEF Init
  <2>2. Service!Init
    BY <2>1 DEF Service!Init
  <2>3. IdsApart
    BY <2>1 DEF IdsApart, NoRepeat, Elems, BoxIds, Boxes
  <2> QED BY <2>2, <2>3
<1>2. IInv /\ IdsApart /\ [Next]_vars => IdsApart' /\ [Service!Next]_(Service!vars)
  BY NextIds, ServiceStepRefines DEF IInv
<1> QED BY <1>1, <1>2, Inductive, PTL DEF Spec, ServiceSpec, Service!Spec

\* Where no pipe hides its properties, the endpoint of a claimed interface leads
\* to that interface's object and to the endpoint's own pipe, through any
\* sequence of claims, settings, closes and probes, those that fail half way
\* included (main.rs:1639-1680, 1760-1780).
THEOREM EndpointsCorrect == ~PipesMayFail => (Spec => []EndpointsReachTheirPipes)
<1> SUFFICES ASSUME ~PipesMayFail PROVE Spec => []EndpointsReachTheirPipes
  OBVIOUS
<1>1. Init => MapMatches
  BY DEF Init, MapMatches
<1>2. TypeOK /\ MapMatches /\ [Next]_vars => MapMatches'
  BY NextMap
<1>3. MapMatches => EndpointsReachTheirPipes
  BY DEF MapMatches, EndpointsReachTheirPipes
<1> QED BY <1>1, <1>2, <1>3, TypeCorrect, PTL DEF Spec

================================================================================
