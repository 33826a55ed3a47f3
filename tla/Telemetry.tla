----------------------------- MODULE Telemetry -----------------------------
(***************************************************************************)
(* Telemetry: gh processes of one user agree on a device ID in the state   *)
(* directory (getOrCreateDeviceID: write a temporary file, link it to the  *)
(* name), and one of them, Main, runs the telemetry service: its           *)
(* goroutines record events and add facts to them, disable the service or  *)
(* change its sample rate, while others finish it.  The methods of the     *)
(* service are atomic under its mutex; the flush of Finish is not.         *)
(*                                                                         *)
(* An ID is the process that has generated it.                             *)
(***************************************************************************)
EXTENDS Integers

CONSTANTS
    Procs, Main,
    NoID, Unknown,      \* no device ID (yet); "<unknown>"
    Events, Facts,
    Rates,              \* the sample rates in use
    Buckets,            \* the sample buckets to look at
    NoPayload,
    Faults              \* may file operations fail, and processes die?

ASSUME IDAssumption ==
    /\ Main \in Procs /\ NoID # Unknown /\ {NoID, Unknown} \cap Procs = {}
ASSUME RatesAssumption ==
    Rates \subseteq 0 .. 100 /\ Buckets \subseteq 0 .. 99 /\ Rates # {} /\ Buckets # {}
ASSUME FaultsAssumption == Faults \in BOOLEAN

Steps == {"read", "create", "write", "link", "remove", "reread", "done", "dead"}
EventMaps == UNION {[D -> SUBSET Facts] : D \in SUBSET Events}
NoEvents == [e \in {} |-> {}]
Payloads == [device : Procs \cup {Unknown}, rate : Rates,
             events : EventMaps]

VARIABLES
    device,      \* the file device-id
    temp,        \* the temporary file of each process
    pc,          \* where each process is in getOrCreateDeviceID
    linked,      \* has its link succeeded?
    id           \* the device ID it uses

idVars == <<device, temp, pc, linked, id>>

VARIABLES
    events,      \* the events recorded, each with its facts
    pending,     \* events of which a goroutine has a handle that works
    disabled, rate, bucket,
    stated,      \* the dimension sample_rate
    finished,
    snapshot,    \* the payload that Finish has still to flush
    sent,        \* the payloads flushed
    atFinish     \* history: was the service disabled when Finish came?

service == <<events, pending, disabled, rate, bucket, stated, finished,
             snapshot, sent, atFinish>>
vars == <<idVars, service>>

IDTypeOK ==
    /\ device \in Procs \cup {NoID}
    /\ temp \in [Procs -> Procs \cup {NoID}]
    /\ pc \in [Procs -> Steps]
    /\ linked \in [Procs -> BOOLEAN]
    /\ id \in [Procs -> Procs \cup {NoID, Unknown}]

TypeOK ==
    /\ IDTypeOK
    /\ events \in EventMaps
    /\ pending \subseteq DOMAIN events
    /\ disabled \in BOOLEAN /\ finished \in BOOLEAN /\ atFinish \in BOOLEAN
    /\ rate \in Rates /\ stated \in Rates /\ bucket \in Buckets
    /\ snapshot \in Payloads \cup {NoPayload}
    /\ sent \subseteq Payloads

Init ==
    /\ device = NoID
    /\ temp = [p \in Procs |-> NoID]
    /\ pc = [p \in Procs |-> "read"]
    /\ linked = [p \in Procs |-> FALSE]
    /\ id = [p \in Procs |-> NoID]
    /\ events = NoEvents
    /\ pending = {} /\ disabled = FALSE /\ finished = FALSE /\ atFinish = FALSE
    /\ rate \in Rates /\ stated = rate /\ bucket \in Buckets
    /\ snapshot = NoPayload /\ sent = {}

-----------------------------------------------------------------------------
(* getOrCreateDeviceID, whose error makes the ID unknown.                  *)

Goto(p, to) == pc' = [pc EXCEPT ![p] = to]
Returns(p, i) == Goto(p, "done") /\ id' = [id EXCEPT ![p] = i]

ReadID(p) ==
    /\ pc[p] = "read"
    /\ \/ device # NoID /\ Returns(p, device)
       \/ device = NoID /\ Goto(p, "create") /\ UNCHANGED id
       \/ Faults /\ Returns(p, Unknown)
    /\ UNCHANGED <<device, temp, linked, service>>

(* MkdirAll and CreateTemp.                                                *)
CreateTemp(p) ==
    /\ pc[p] = "create"
    /\ \/ Goto(p, "write") /\ UNCHANGED id
       \/ Faults /\ Returns(p, Unknown)
    /\ UNCHANGED <<device, temp, linked, service>>

(* WriteString and Close; what a failed one has left is removed.           *)
WriteTemp(p) ==
    /\ pc[p] = "write"
    /\ \/ temp' = [temp EXCEPT ![p] = p] /\ Goto(p, "link") /\ UNCHANGED id
       \/ Faults /\ Returns(p, Unknown) /\ UNCHANGED temp
    /\ UNCHANGED <<device, linked, service>>

(* Mutant of LinkTemp: a rename, which replaces what is there.             *)
RenameTemp(p) ==
    /\ pc[p] = "link" /\ Goto(p, "remove")
    /\ device' = temp[p]
    /\ linked' = [linked EXCEPT ![p] = TRUE]
    /\ UNCHANGED <<temp, id, service>>

LinkTemp(p) ==
    /\ pc[p] = "link" /\ Goto(p, "remove")
    /\ \/ /\ device = NoID /\ device' = temp[p]
          /\ linked' = [linked EXCEPT ![p] = TRUE]
       \/ (device # NoID \/ Faults) /\ UNCHANGED <<device, linked>>
    /\ UNCHANGED <<temp, id, service>>

RemoveTemp(p) ==
    /\ pc[p] = "remove"
    /\ \/ temp' = [temp EXCEPT ![p] = NoID]
       \/ Faults /\ UNCHANGED temp
    /\ IF linked[p] THEN Returns(p, p) ELSE Goto(p, "reread") /\ UNCHANGED id
    /\ UNCHANGED <<device, linked, service>>

RereadID(p) ==
    /\ pc[p] = "reread"
    /\ \/ device # NoID /\ Returns(p, device)
       \/ (device = NoID \/ Faults) /\ Returns(p, Unknown)
    /\ UNCHANGED <<device, temp, linked, service>>

Crash(p) ==
    /\ Faults /\ pc[p] \notin {"done", "dead"}
    /\ Goto(p, "dead")
    /\ UNCHANGED <<device, temp, linked, id, service>>

DeviceID(p) ==
    \/ ReadID(p) \/ CreateTemp(p) \/ WriteTemp(p) \/ LinkTemp(p) \/ RemoveTemp(p)
    \/ RereadID(p) \/ Crash(p)

-----------------------------------------------------------------------------
(* The service, which Main has once it has its device ID.                  *)

Disable ==
    /\ disabled' = TRUE
    /\ UNCHANGED <<events, pending, rate, bucket, stated, finished, snapshot, sent, atFinish>>

(* An event is recorded once; that bounds the runs.                        *)
Append(e, F) ==
    /\ ~finished /\ e \notin DOMAIN events
    /\ events' = [x \in DOMAIN events \cup {e} |-> IF x = e THEN F ELSE events[x]]

Record(e, F) ==
    /\ Append(e, F)
    /\ UNCHANGED <<pending, disabled, rate, bucket, stated, finished, snapshot, sent, atFinish>>

(* Mutant of Begin: a handle on an event that is not in the list.          *)
BeginOnly(e, F) ==
    /\ ~finished /\ e \notin DOMAIN events
    /\ pending' = pending \cup {e}
    /\ UNCHANGED <<events, disabled, rate, bucket, stated, finished, snapshot, sent, atFinish>>

Begin(e, F) ==
    /\ Append(e, F)
    /\ pending' = pending \cup {e}
    /\ UNCHANGED <<disabled, rate, bucket, stated, finished, snapshot, sent, atFinish>>

(* UpsertDimensions and UpsertMeasures, which differ in the map they use.  *)
Upsert(e, F) ==
    /\ ~finished /\ e \in pending
    /\ events' = [events EXCEPT ![e] = @ \cup F]
    /\ UNCHANGED <<pending, disabled, rate, bucket, stated, finished, snapshot, sent, atFinish>>

(* Mutant of SetSampleRate: the dimension is left as it was.               *)
SetSampleRateOnly(r) ==
    /\ ~finished /\ rate' = r
    /\ UNCHANGED <<events, pending, disabled, bucket, stated, finished, snapshot, sent, atFinish>>

SetSampleRate(r) ==
    /\ ~finished /\ rate' = r /\ stated' = r
    /\ UNCHANGED <<events, pending, disabled, bucket, finished, snapshot, sent, atFinish>>

SampledOut(r, b) == 0 < r /\ r < 100 /\ b >= r

Finish ==
    /\ ~finished /\ finished' = TRUE /\ atFinish' = disabled
    /\ snapshot' = IF SampledOut(rate, bucket) THEN NoPayload
                   ELSE [device |-> id[Main], rate |-> stated,
                         events |-> IF disabled THEN NoEvents ELSE events]
    /\ UNCHANGED <<events, pending, disabled, rate, bucket, stated, sent>>

(* After the lock has been released.                                       *)
Flush ==
    /\ snapshot # NoPayload
    /\ sent' = sent \cup {snapshot} /\ snapshot' = NoPayload
    /\ UNCHANGED <<events, pending, disabled, rate, bucket, stated, finished, atFinish>>

Service ==
    /\ pc[Main] = "done" /\ UNCHANGED idVars
    /\ \/ Disable \/ Finish \/ Flush
       \/ \E e \in Events, F \in SUBSET Facts : Record(e, F) \/ Begin(e, F) \/ Upsert(e, F)
       \/ \E r \in Rates : SetSampleRate(r)

Next == Service \/ \E p \in Procs : DeviceID(p)

Spec == Init /\ [][Next]_vars

-----------------------------------------------------------------------------
(* Properties.                                                             *)

(* getOrCreateDeviceID: "exactly one concurrent caller wins", the first    *)
(* whose link succeeds.  The file is never replaced, a process that gets   *)
(* an ID gets the winner's, once and for all, and the winner is not left   *)
(* without its own, even if its temporary file stays.                      *)
Election == INSTANCE DeviceElection WITH winner <- device, told <- id

DeviceIsElected == Election!Spec

(* Finish: one payload, with all that was recorded before it and nothing   *)
(* that came later; none of it if the service was disabled by then; and    *)
(* only if the rate it states has the invocation in the sample.            *)
PayloadIsExact ==
    \A m \in sent :
        /\ finished /\ ~SampledOut(m.rate, bucket)
        /\ m.events = IF atFinish THEN NoEvents ELSE events
        /\ m.device = id[Main]
        /\ sent = {m}

=============================================================================
