--------------------------- MODULE TelemetryProofs ---------------------------
(***************************************************************************)
(* Proofs about Telemetry, for any number of processes, events, facts and  *)
(* sample rates.                                                           *)
(***************************************************************************)
EXTENDS Telemetry, TLAPS

(* Every process that has an ID has the winner's.                          *)
OneDeviceID == \A p \in Procs : id[p] \in Procs => id[p] = device

-----------------------------------------------------------------------------
(* The parts of the inductive invariant.                                   *)

(* A process links what it has written; the file keeps the ID of the one   *)
(* whose link succeeded, and everybody who has an ID has that one.         *)
WinnerOf(p) ==
    /\ pc[p] = "link" => temp[p] = p
    /\ linked[p] <=> device = p
    /\ linked[p] => pc[p] \in {"remove", "done", "dead"}
    /\ pc[p] \notin {"done", "dead"} => id[p] = NoID
    /\ id[p] \in Procs => id[p] = device
    /\ pc[p] = "done" => id[p] # NoID

DeviceInv == IDTypeOK /\ \A p \in Procs : WinnerOf(p)

ServiceTypeOK ==
    /\ events \in EventMaps
    /\ pending \subseteq DOMAIN events
    /\ disabled \in BOOLEAN /\ finished \in BOOLEAN /\ atFinish \in BOOLEAN
    /\ rate \in Rates /\ stated \in Rates /\ bucket \in Buckets
    /\ snapshot \in Payloads \cup {NoPayload}
    /\ sent \subseteq Payloads

(* What the payload must be, whether it is still to be flushed or sent.    *)
Exact(m) ==
    /\ finished /\ ~SampledOut(m.rate, bucket)
    /\ m.events = IF atFinish THEN NoEvents ELSE events
    /\ m.device = id[Main] /\ pc[Main] = "done"

FlushInv ==
    /\ stated = rate
    /\ snapshot # NoPayload => Exact(snapshot) /\ sent = {}
    /\ \A m \in sent : Exact(m) /\ sent = {m}

Inv == DeviceInv /\ ServiceTypeOK /\ FlushInv

-----------------------------------------------------------------------------
(* The device ID.                                                          *)

(* One step of one process keeps the winner's ID.                          *)
LEMMA DeviceStep ==
    ASSUME DeviceInv, NEW p \in Procs, DeviceID(p)
    PROVE  DeviceInv'
<1> USE IDAssumption DEF DeviceInv, IDTypeOK, WinnerOf, Steps, Goto, Returns
<1>1. CASE ReadID(p)
  BY <1>1 DEF ReadID
<1>2. CASE CreateTemp(p)
  BY <1>2 DEF CreateTemp
<1>3. CASE WriteTemp(p)
  BY <1>3 DEF WriteTemp
<1>4. CASE LinkTemp(p)
  <2>1. /\ pc[p] = "link" /\ pc' = [pc EXCEPT ![p] = "remove"] /\ temp[p] = p
        /\ UNCHANGED <<temp, id>>
    BY <1>4 DEF LinkTemp
  <2>2. CASE device = NoID /\ device' = p /\ linked' = [linked EXCEPT ![p] = TRUE]
    <3>1. \A q \in Procs : ~linked[q] /\ id[q] \notin Procs /\ q # NoID
      BY <2>2
    <3> QED
      BY <2>1, <2>2, <3>1
  <2>3. CASE UNCHANGED <<device, linked>>
    BY <2>1, <2>3
  <2> QED
    BY <1>4, <2>1, <2>2, <2>3 DEF LinkTemp
<1>5. CASE RemoveTemp(p)
  BY <1>5 DEF RemoveTemp
<1>6. CASE RereadID(p)
  BY <1>6 DEF RereadID
<1>7. CASE Crash(p)
  BY <1>7 DEF Crash
<1> QED
  BY <1>1, <1>2, <1>3, <1>4, <1>5, <1>6, <1>7 DEF DeviceID

(* A process that has its ID keeps it, and is not Main's service.          *)
LEMMA DeviceFrame ==
    ASSUME DeviceInv, NEW p \in Procs, DeviceID(p)
    PROVE  /\ service' = service
           /\ pc[Main] = "done" => pc'[Main] = "done" /\ id'[Main] = id[Main]
<1>1. service' = service
  BY DEF DeviceID, ReadID, CreateTemp, WriteTemp, LinkTemp, RemoveTemp, RereadID, Crash
<1>2. pc[p] # "done" /\ Main \in Procs
  BY IDAssumption DEF DeviceID, ReadID, CreateTemp, WriteTemp, LinkTemp, RemoveTemp, RereadID, Crash
<1>3. p # Main => pc'[Main] = pc[Main] /\ id'[Main] = id[Main]
  BY <1>2 DEF DeviceInv, IDTypeOK, DeviceID, ReadID, CreateTemp, WriteTemp, LinkTemp,
              RemoveTemp, RereadID, Crash, Goto, Returns
<1> QED
  BY <1>1, <1>2, <1>3

-----------------------------------------------------------------------------
(* The service.                                                            *)

(* The events that Append adds.                                            *)
LEMMA AppendType ==
    ASSUME events \in EventMaps, NEW e \in Events, NEW F \in SUBSET Facts, Append(e, F)
    PROVE  events' \in EventMaps /\ DOMAIN events' = DOMAIN events \cup {e}
<1>1. PICK D \in SUBSET Events : events \in [D -> SUBSET Facts]
  BY DEF EventMaps
<1>2. events' \in [D \cup {e} -> SUBSET Facts]
  BY <1>1 DEF Append
<1>3. D \cup {e} \in SUBSET Events
  OBVIOUS
<1> QED
  BY <1>1, <1>2, <1>3 DEF EventMaps

(* Facts are added to an event that is there.                              *)
LEMMA UpsertType ==
    ASSUME events \in EventMaps, NEW e \in Events, NEW F \in SUBSET Facts, Upsert(e, F)
    PROVE  events' \in EventMaps /\ DOMAIN events' = DOMAIN events
<1>1. PICK D \in SUBSET Events : events \in [D -> SUBSET Facts]
  BY DEF EventMaps
<1>2. events' \in [D -> SUBSET Facts]
  BY <1>1 DEF Upsert
<1> QED
  BY <1>1, <1>2 DEF EventMaps

(* One step of the service keeps the types and the payload exact.          *)
LEMMA ServiceStep ==
    ASSUME Inv, Service
    PROVE  ServiceTypeOK' /\ FlushInv'
<1>1. /\ pc[Main] = "done" /\ id[Main] \in Procs \cup {Unknown}
      /\ UNCHANGED <<pc, id>>
  BY IDAssumption DEF Inv, DeviceInv, IDTypeOK, WinnerOf, Service, idVars
<1>2. NoEvents \in EventMaps
  BY DEF NoEvents, EventMaps
<1> USE DEF Inv, ServiceTypeOK, FlushInv, Exact
<1>3. CASE Disable
  BY <1>1, <1>3 DEF Disable
<1>4. CASE Finish
  <2>1. ASSUME ~SampledOut(rate, bucket)
        PROVE  /\ snapshot' = [device |-> id[Main], rate |-> stated,
                               events |-> IF disabled THEN NoEvents ELSE events]
               /\ snapshot' \in Payloads
    BY <1>1, <1>2, <1>4, <2>1 DEF Finish, Payloads
  <2>2. sent = {}
    BY <1>4 DEF Finish
  <2>3. SampledOut(rate, bucket) => snapshot' = NoPayload
    BY <1>4 DEF Finish
  <2>4. /\ UNCHANGED <<events, pending, disabled, rate, bucket, stated, sent>>
        /\ finished' = TRUE /\ atFinish' = disabled
    BY <1>4 DEF Finish
  <2>5. SampledOut(stated, bucket)' = SampledOut(rate, bucket)
    BY <2>4 DEF SampledOut
  <2>6. FlushInv'
    BY <1>1, <2>1, <2>2, <2>3, <2>4, <2>5 DEF SampledOut
  <2>7. ServiceTypeOK'
    BY <2>1, <2>3, <2>4
  <2> QED
    BY <2>6, <2>7
<1>5. CASE Flush
  BY <1>1, <1>5 DEF Flush, SampledOut
<1>6. ASSUME NEW e \in Events, NEW F \in SUBSET Facts, Record(e, F) \/ Begin(e, F)
      PROVE  ServiceTypeOK' /\ FlushInv'
  <2>1. Append(e, F) /\ ~finished
    BY <1>6 DEF Record, Begin, Append
  <2>2. events' \in EventMaps /\ DOMAIN events' = DOMAIN events \cup {e}
    BY <2>1, AppendType
  <2> QED
    BY <1>1, <1>6, <2>1, <2>2 DEF Record, Begin
<1>7. ASSUME NEW e \in Events, NEW F \in SUBSET Facts, Upsert(e, F)
      PROVE  ServiceTypeOK' /\ FlushInv'
  <2>1. events' \in EventMaps /\ DOMAIN events' = DOMAIN events
    BY <1>7, UpsertType
  <2> QED
    BY <1>1, <1>7, <2>1 DEF Upsert
<1>8. ASSUME NEW r \in Rates, SetSampleRate(r)
      PROVE  ServiceTypeOK' /\ FlushInv'
  BY <1>1, <1>8 DEF SetSampleRate
<1> QED
  BY <1>3, <1>4, <1>5, <1>6, <1>7, <1>8 DEF Service

-----------------------------------------------------------------------------
(* The theorems.                                                           *)

(* The invariant holds at the start ...                                    *)
LEMMA InitInv == Init => Inv
<1> SUFFICES ASSUME Init PROVE Inv
  OBVIOUS
<1>1. DeviceInv
  BY IDAssumption DEF Init, DeviceInv, IDTypeOK, WinnerOf, Steps
<1>2. NoEvents \in EventMaps
  BY DEF NoEvents, EventMaps
<1>3. ServiceTypeOK /\ FlushInv
  BY <1>2 DEF Init, ServiceTypeOK, FlushInv
<1> QED
  BY <1>1, <1>3 DEF Inv

(* ... every step keeps it ...                                             *)
LEMMA InvStep == Inv /\ [Next]_vars => Inv'
<1> SUFFICES ASSUME Inv, [Next]_vars PROVE Inv'
  OBVIOUS
<1>1. ASSUME NEW p \in Procs, DeviceID(p)
      PROVE  Inv'
  <2>1. DeviceInv'
    BY <1>1, DeviceStep DEF Inv
  <2>2. service' = service
    BY <1>1, DeviceFrame DEF Inv
  <2>3. pc[Main] = "done" => pc'[Main] = "done" /\ id'[Main] = id[Main]
    BY <1>1, DeviceFrame DEF Inv
  <2>4. ServiceTypeOK'
    BY <2>2 DEF Inv, ServiceTypeOK, service
  <2>5. FlushInv'
    BY <2>2, <2>3 DEF Inv, FlushInv, Exact, SampledOut, service
  <2> QED
    BY <2>1, <2>4, <2>5 DEF Inv
<1>2. CASE Service
  <2>1. UNCHANGED idVars
    BY <1>2 DEF Service
  <2>2. DeviceInv'
    BY <2>1 DEF Inv, DeviceInv, IDTypeOK, WinnerOf, idVars
  <2> QED
    BY <1>2, <2>2, ServiceStep DEF Inv
<1>3. CASE UNCHANGED vars
  BY <1>3 DEF Inv, DeviceInv, IDTypeOK, WinnerOf, ServiceTypeOK, FlushInv, Exact,
              SampledOut, vars, idVars, service
<1> QED
  BY <1>1, <1>2, <1>3 DEF Next

(* ... so it always holds.                                                 *)
LEMMA Invariance == Spec => []Inv
BY InitInv, InvStep, PTL DEF Spec

(* The variables keep their types.                                         *)
THEOREM TypeCorrect == Spec => []TypeOK
<1>1. Inv => TypeOK
  BY DEF Inv, DeviceInv, ServiceTypeOK, TypeOK
<1> QED
  BY <1>1, Invariance, PTL

(* All processes that have a device ID have the same one, whatever fails   *)
(* and whoever dies (getOrCreateDeviceID).                                 *)
THEOREM DeviceIDIsUnique == Spec => []OneDeviceID
<1>1. Inv => OneDeviceID
  BY DEF Inv, DeviceInv, WinnerOf, OneDeviceID
<1> QED
  BY <1>1, Invariance, PTL

(* What is sent is what was recorded when Finish came.                     *)
THEOREM PayloadIsWhatWasRecorded == Spec => []PayloadIsExact
<1>1. Inv => PayloadIsExact
  BY DEF Inv, FlushInv, Exact, PayloadIsExact
<1> QED
  BY <1>1, Invariance, PTL

(* What a process does for its device ID is a step of the election, or     *)
(* nobody sees it.                                                         *)
LEMMA ElectionStep ==
    ASSUME DeviceInv, NEW p \in Procs, DeviceID(p)
    PROVE  [Election!Next]_(Election!vars)
<1> USE IDAssumption DEF DeviceInv, IDTypeOK, WinnerOf, Goto, Returns
<1>1. ASSUME NEW i \in Procs \cup {Unknown}, pc[p] \notin {"done", "dead"},
             id' = [id EXCEPT ![p] = i], device' = device,
             i = device \/ (i = Unknown /\ device # p)
      PROVE  [Election!Next]_(Election!vars)
  BY <1>1 DEF Election!Next, Election!Tell
<1>2. CASE UNCHANGED <<device, id>>
  BY <1>2 DEF Election!vars
<1>3. CASE ReadID(p)
  BY <1>1, <1>2, <1>3 DEF ReadID
<1>4. CASE CreateTemp(p)
  BY <1>1, <1>2, <1>4 DEF CreateTemp
<1>5. CASE WriteTemp(p)
  BY <1>1, <1>2, <1>5 DEF WriteTemp
<1>6. CASE LinkTemp(p)
  <2>1. CASE device = NoID /\ device' = p /\ id' = id
    BY <1>6, <2>1 DEF LinkTemp, Election!Next, Election!Elect
  <2> QED
    BY <1>2, <1>6, <2>1 DEF LinkTemp
<1>7. CASE RemoveTemp(p)
  BY <1>1, <1>2, <1>7 DEF RemoveTemp
<1>8. CASE RereadID(p)
  BY <1>1, <1>8 DEF RereadID
<1>9. CASE Crash(p)
  BY <1>2, <1>9 DEF Crash
<1> QED
  BY <1>3, <1>4, <1>5, <1>6, <1>7, <1>8, <1>9 DEF DeviceID

(* DeviceIsElected: Telemetry implements DeviceElection, for any number of *)
(* processes that start, fail and die at any step (getOrCreateDeviceID:    *)
(* the link of a temporary file decides).                                  *)
THEOREM ElectionIsImplemented == Spec => DeviceIsElected
<1>1. Init => Election!Init
  BY DEF Init, Election!Init
<1>2. Inv /\ [Next]_vars => [Election!Next]_(Election!vars)
  <2> SUFFICES ASSUME Inv, [Next]_vars PROVE [Election!Next]_(Election!vars)
    OBVIOUS
  <2>1. CASE Service \/ UNCHANGED vars
    BY <2>1 DEF Service, vars, idVars, Election!vars
  <2>2. ASSUME NEW p \in Procs, DeviceID(p) PROVE [Election!Next]_(Election!vars)
    BY <2>2, ElectionStep DEF Inv
  <2> QED
    BY <2>1, <2>2 DEF Next
<1> QED
  BY <1>1, <1>2, Invariance, PTL DEF Spec, DeviceIsElected, Election!Spec

=============================================================================
