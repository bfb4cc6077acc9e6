----------------------- MODULE PromptAcceptanceLedger -----------------------
(***************************************************************************)
(* PromptAcceptanceLedger: which sends (client nonces) the host has        *)
(* accepted, kept in memory, in one file that is replaced as a whole, and  *)
(* in a marker file that says since when the first file could not be       *)
(* written.  The ledger may forget a send (it holds MAX_RECORDS, a write   *)
(* may fail, the file may be torn); what it promises is to know that it    *)
(* may have forgotten, and for which period: the history gaps.             *)
(*                                                                         *)
(* Every method loads the file on first use; Load is that first half of    *)
(* the first method called after a start.  Methods are synchronous.  The   *)
(* callers follow send-pipeline.ts: one attempt in flight per nonce, which *)
(* ends in markAccepted or, when it throws, in clearUnlessAccepted.  Times *)
(* are Date.now() stamps of a clock that does not run backwards, with None *)
(* for null.  Gaps that are null are EMPTY_GAPS here: no code path writes  *)
(* a gaps object with nothing in it, and only lookup tests for null.       *)
(***************************************************************************)
EXTENDS Integers, Sequences, SequencesExt

CONSTANTS Nonce, Digest,
          MAX_RECORDS, MAX_DEGRADED_WINDOWS,
          MaxClock,    \* the clock stops here
          MaxRestarts, \* how often the process may end
          MaxSends     \* how many attempts may be recorded

ASSUME LedgerAssumption ==
    /\ MAX_RECORDS \in Nat \ {0}
    /\ MAX_DEGRADED_WINDOWS \in Nat \ {0}
    /\ MaxClock \in Nat
    /\ MaxRestarts \in Nat
    /\ MaxSends \in Nat

VARIABLES
    clock,
    loaded,         \* this.loaded # null
    records,        \* loaded.records, in insertion order
    gaps,           \* loaded.gaps
    degradedSince,  \* this.degradedSinceMs
    markerMayExist,
    file,           \* send-acceptance.json
    marker,         \* sinceMs of send-acceptance.json.degraded, or None
    inFlight,       \* attempts of this process that have called recordPending
    owed,           \* history: sends accepted so far, less those in Forgiven
    restarts, sends

bounds == <<restarts, sends>>
memory == <<loaded, records, gaps, degradedSince, markerMayExist>>
disk == <<file, marker>>
vars == <<clock, memory, disk, inFlight, owed, bounds>>

None == -1
Time == 0..MaxClock
Window == [from : Time, to : Time]
Record == [nonce : Nonce, digest : Digest,
           status : {"pending", "accepted", "rejected"}, at : Time]
Gaps == [horizon : Time \cup {None}, windows : Seq(Window),
         reset : Time \cup {None}]
EMPTY_GAPS == [horizon |-> None, windows |-> <<>>, reset |-> None]
NoFile == [records |-> <<>>, gaps |-> EMPTY_GAPS, damaged |-> FALSE]
TornFile == [NoFile EXCEPT !.damaged = TRUE]
Attempt == [nonce : Nonce, digest : Digest, at : Time]

Later(s, t) == IF s >= t THEN s ELSE t
Earlier(s, t) == IF s <= t THEN s ELSE t
Keys(recs) == {recs[i].nonce : i \in DOMAIN recs}
Holds(recs, a) == \E i \in DOMAIN recs : /\ recs[i].nonce = a.nonce
                                        /\ recs[i].digest = a.digest
                                        /\ recs[i].at = a.at
AttemptsInFlight(n) == {a \in inFlight : a.nonce = n}
-----------------------------------------------------------------------------
(***************************************************************************)
(* The gaps.  None is below every time, so max(g ?? t, t) is Later(g, t).  *)
(***************************************************************************)
WithEvictionHorizon(g, at) == [g EXCEPT !.horizon = Later(@, at)]

WithCorruptReset(g, at) == [g EXCEPT !.reset = Later(@, at)]

\* A full list of windows is not dropped from: its last window grows.
ReplaceLastWindow(g, w) ==
    LET ws == g.windows
        n == Len(ws)
    IN  [g EXCEPT !.windows =
            IF n < MAX_DEGRADED_WINDOWS THEN Append(ws, w)
            ELSE [ws EXCEPT ![n] = w]]
WithDegradedWindow(g, w) ==
    LET ws == g.windows
        n == Len(ws)
    IN  [g EXCEPT !.windows =
            IF n < MAX_DEGRADED_WINDOWS THEN Append(ws, w)
            ELSE [ws EXCEPT ![n] = [from |-> Earlier(ws[n].from, w.from),
                                    to |-> Later(ws[n].to, w.to)]]]

(***************************************************************************)
(* evictPastCap: the oldest completed record goes first; a pending one     *)
(* goes only when every record is pending.                                 *)
(***************************************************************************)
OldestRecord(recs) == 1
Victim(recs) ==
    LET completed == {i \in DOMAIN recs : recs[i].status # "pending"}
    IN  IF completed = {} THEN 1
        ELSE CHOOSE i \in completed : \A j \in completed : i <= j

EvictLate(recs) ==
    IF Len(recs) <= MAX_RECORDS + 1 THEN recs
    ELSE RemoveAt(recs, Victim(recs))
EvictedRecords(recs) ==
    IF Len(recs) <= MAX_RECORDS THEN recs ELSE RemoveAt(recs, Victim(recs))
EvictedGaps(recs, g) ==
    IF Len(recs) <= MAX_RECORDS THEN g
    ELSE WithEvictionHorizon(g, recs[Victim(recs)].at)

(***************************************************************************)
(* persist, with the records recs and gaps g in memory.  The new file is   *)
(* written beside the old one and renamed over it, so a failed or          *)
(* interrupted write leaves the old file.  A process that ends between the *)
(* rename and the removal of the marker is one that failed to remove it.   *)
(* A marker write that fails may leave a torn marker, which reads as none. *)
(***************************************************************************)
GapsToWrite(g, since) ==
    IF since = None THEN g
    ELSE WithDegradedWindow(g, [from |-> since, to |-> clock])

RemoveMarker(may) ==
    \/ markerMayExist' = FALSE /\ marker' = IF may THEN None ELSE marker
    \/ may /\ markerMayExist' = TRUE /\ UNCHANGED marker

PersistWrites(recs, g, since, may) ==
    /\ file' = [records |-> recs, gaps |-> GapsToWrite(g, since),
                damaged |-> FALSE]
    /\ records' = recs
    /\ gaps' = GapsToWrite(g, since)
    /\ degradedSince' = None
    /\ RemoveMarker(may)

RestampMarker(may, since) == markerMayExist' = TRUE /\ marker' = clock
WriteMarker(may, since) ==
    \/ may /\ markerMayExist' = TRUE /\ UNCHANGED marker
    \/ ~may /\ markerMayExist' = TRUE /\ marker' = since
    \/ ~may /\ markerMayExist' = FALSE /\ marker' \in {marker, None}

PersistFails(recs, g, since, may) ==
    LET sinceNow == IF since = None THEN clock ELSE since
    IN  /\ records' = recs
        /\ gaps' = g
        /\ degradedSince' = sinceNow
        /\ WriteMarker(may, sinceNow)
        /\ UNCHANGED file

Persist(recs, g, since, may) ==
    /\ loaded' = TRUE
    /\ \/ PersistWrites(recs, g, since, may)
       \/ PersistFails(recs, g, since, may)
-----------------------------------------------------------------------------
(***************************************************************************)
(* load.  A damaged file and a marker become gaps before the first answer, *)
(* and both are folded into the file at once.                              *)
(***************************************************************************)
GapsOfFile(f) ==
    IF f.damaged THEN WithCorruptReset(f.gaps, clock) ELSE f.gaps
GapsOfMarker(g) ==
    IF marker = None THEN g
    ELSE WithDegradedWindow(g, [from |-> marker, to |-> clock])

LoadFrom(f) ==
    LET g == GapsOfMarker(GapsOfFile(f))
        may == marker # None
    IN  IF f.damaged \/ may
        THEN Persist(f.records, g, None, may)
        ELSE /\ loaded' = TRUE /\ records' = f.records /\ gaps' = g
             /\ UNCHANGED <<degradedSince, markerMayExist, disk>>

Load ==
    /\ ~loaded
    /\ LoadFrom(file)
    /\ UNCHANGED <<clock, inFlight, owed, bounds>>

(***************************************************************************)
(* A file that cannot be read (readFileSync throws) counts as no file, and *)
(* the next write replaces it.  What it held is forgotten without a trace: *)
(* the second of the two losses that the ledger cannot report.             *)
(***************************************************************************)
LoadUnreadable ==
    /\ ~loaded /\ file # NoFile
    /\ LoadFrom(NoFile)
    /\ owed' = {}
    /\ UNCHANGED <<clock, inFlight, bounds>>

(***************************************************************************)
(* lookup and admitSend: what the ledger answers about a nonce.            *)
(***************************************************************************)
Lookup(n) ==
    IF n \in Keys(records) THEN "found"
    ELSE IF gaps # EMPTY_GAPS \/ degradedSince # None
         THEN "unknown-durability" ELSE "not-found"

AdmitAlways(n, d) == "dispatch"
AdmitSend(n, d) ==
    IF Lookup(n) # "found" THEN "dispatch"
    ELSE LET r == records[CHOOSE i \in DOMAIN records : records[i].nonce = n]
         IN  IF r.digest # d THEN "mismatch"
             ELSE IF r.status = "rejected" THEN "rejected" ELSE "duplicate"

(***************************************************************************)
(* recordPending, called by an attempt that was admitted.  A second send   *)
(* of a nonce in flight coalesces onto the running attempt before it is    *)
(* admitted, so the nonce has no record yet and recordPending's own check  *)
(* for one never finds any.                                                *)
(***************************************************************************)
RecordPending(n, d) ==
    LET r == [nonce |-> n, digest |-> d, status |-> "pending", at |-> clock]
        recs == Append(records, r)
    IN  /\ loaded /\ sends < MaxSends
        /\ AttemptsInFlight(n) = {}
        /\ AdmitSend(n, d) = "dispatch"
        /\ Persist(EvictedRecords(recs), EvictedGaps(recs, gaps),
                   degradedSince, markerMayExist)
        /\ inFlight' = inFlight \cup {[nonce |-> n, digest |-> d, at |-> clock]}
        /\ sends' = sends + 1
        /\ UNCHANGED <<clock, owed, restarts>>

SetStatus(n, s) ==
    [i \in DOMAIN records |->
        IF records[i].nonce = n THEN [records[i] EXCEPT !.status = s]
        ELSE records[i]]
IsPending(n) ==
    \E i \in DOMAIN records :
        records[i].nonce = n /\ records[i].status = "pending"

\* markAccepted and markRejected: only a pending record changes.
Complete(n, s) ==
    IF IsPending(n)
    THEN Persist(SetStatus(n, s), gaps, degradedSince, markerMayExist)
    ELSE UNCHANGED <<memory, disk>>

MarkAccepted(a) ==
    /\ a \in inFlight
    /\ Complete(a.nonce, "accepted")
    /\ inFlight' = inFlight \ {a}
    /\ owed' = owed \cup {a}
    /\ UNCHANGED <<clock, bounds>>

MarkRejected(a) ==
    /\ a \in inFlight
    /\ Complete(a.nonce, "rejected")
    /\ inFlight' = inFlight \ {a}
    /\ UNCHANGED <<clock, owed, bounds>>

(***************************************************************************)
(* clearUnlessAccepted: the attempt threw, so its nonce may be tried again.*)
(***************************************************************************)
ClearUnlessAccepted(a) ==
    /\ a \in inFlight
    /\ \/ \E i \in DOMAIN records :
              /\ records[i].nonce = a.nonce /\ records[i].status # "accepted"
              /\ Persist(RemoveAt(records, i), gaps, degradedSince,
                         markerMayExist)
       \/ /\ \A i \in DOMAIN records : records[i].nonce = a.nonce =>
                                           records[i].status = "accepted"
          /\ UNCHANGED <<memory, disk>>
    /\ inFlight' = inFlight \ {a}
    /\ UNCHANGED <<clock, owed, bounds>>

\* dispose writes once more; the process goes on to end.
Dispose ==
    /\ loaded
    /\ Persist(records, gaps, degradedSince, markerMayExist)
    /\ UNCHANGED <<clock, inFlight, owed, bounds>>
-----------------------------------------------------------------------------
(***************************************************************************)
(* The process ends, with or without notice.  The file may come out torn:  *)
(* it is not synced before the rename.  While writes fail and the marker   *)
(* could not be written either, the disk holds no sign of what is lost:    *)
(* the first of the two losses that the ledger cannot report.              *)
(***************************************************************************)
Dated(at, g) ==
    \/ at <= g.horizon
    \/ at <= g.reset
    \/ \E i \in DOMAIN g.windows :
           g.windows[i].from <= at /\ at <= g.windows[i].to

OnFile(a) == Holds(file.records, a) \/ Dated(a.at, file.gaps)

Forgiven ==
    IF degradedSince # None /\ marker = None
    THEN {a \in owed : ~OnFile(a)} ELSE {}

Restart ==
    /\ restarts < MaxRestarts
    /\ loaded
    /\ loaded' = FALSE /\ records' = <<>> /\ gaps' = EMPTY_GAPS
    /\ degradedSince' = None /\ markerMayExist' = FALSE
    /\ inFlight' = {}
    /\ \/ file' = file /\ owed' = owed \ Forgiven
       \/ file # NoFile /\ file' = TornFile /\ owed' = owed
    /\ restarts' = restarts + 1
    /\ UNCHANGED <<clock, marker, sends>>

Tick ==
    /\ clock < MaxClock
    /\ clock' = clock + 1
    /\ UNCHANGED <<memory, disk, inFlight, owed, bounds>>

Init ==
    /\ clock = 0
    /\ loaded = FALSE /\ records = <<>> /\ gaps = EMPTY_GAPS
    /\ degradedSince = None /\ markerMayExist = FALSE
    /\ file = NoFile /\ marker = None
    /\ inFlight = {} /\ owed = {} /\ restarts = 0 /\ sends = 0

Next ==
    \/ Load
    \/ LoadUnreadable
    \/ \E n \in Nonce, d \in Digest : RecordPending(n, d)
    \/ \E a \in inFlight : MarkAccepted(a)
    \/ \E a \in inFlight : MarkRejected(a)
    \/ \E a \in inFlight : ClearUnlessAccepted(a)
    \/ Dispose
    \/ Restart
    \/ Tick

Spec == Init /\ [][Next]_vars
-----------------------------------------------------------------------------
(***************************************************************************)
(* Types, and the limits of the two lists.                                 *)
(***************************************************************************)
TypeOK ==
    /\ clock \in Time
    /\ loaded \in BOOLEAN /\ markerMayExist \in BOOLEAN
    /\ records \in Seq(Record) /\ Len(records) <= MAX_RECORDS
    /\ gaps \in Gaps /\ Len(gaps.windows) <= MAX_DEGRADED_WINDOWS
    /\ degradedSince \in Time \cup {None}
    /\ file \in [records : Seq(Record), gaps : Gaps, damaged : BOOLEAN]
    /\ Len(file.records) <= MAX_RECORDS
    /\ Len(file.gaps.windows) <= MAX_DEGRADED_WINDOWS
    /\ marker \in Time \cup {None}
    /\ inFlight \subseteq Attempt /\ owed \subseteq Attempt
    /\ restarts \in 0..MaxRestarts /\ sends \in 0..MaxSends

(***************************************************************************)
(* Every accepted send is either still on record or its acceptance time    *)
(* lies in a period that the gaps name: before the eviction horizon,       *)
(* before a reset, or in a degraded window.  So "not-found" is never said  *)
(* of an accepted send: lookup answers "unknown-durability" instead.       *)
(***************************************************************************)
LossesAreDated ==
    loaded => \A a \in owed : Holds(records, a) \/ Dated(a.at, gaps)

(***************************************************************************)
(* The same, looking ahead: what a restart would find on disk accounts for *)
(* every accepted send and every attempt in flight.  Where only a marker   *)
(* does, it must be old enough; where only memory does (writes fail, and   *)
(* so did the marker's), the send is no older than the failure.            *)
(***************************************************************************)
DiskAccountsForLosses ==
    \A a \in owed \cup inFlight :
        \/ OnFile(a)
        \/ file.damaged
        \/ marker # None /\ marker <= a.at
        \/ loaded /\ degradedSince # None /\ degradedSince <= a.at

(***************************************************************************)
(* One nonce is accepted twice, perhaps with different content, only when  *)
(* the ledger knows that its history has gaps.                             *)
(***************************************************************************)
NonceAcceptedOnce ==
    loaded /\ gaps = EMPTY_GAPS =>
        \A a, b \in owed : a.nonce = b.nonce => a = b

(***************************************************************************)
(* evictPastCap gives up the record of an attempt that is still running    *)
(* only when no completed record could go instead: otherwise a retry of    *)
(* that nonce after the attempt would run a second time.                   *)
(***************************************************************************)
EvictionSparesPending ==
    [][\A a \in inFlight \cap inFlight' :
           (a.nonce \in Keys(records) /\ a.nonce \notin Keys(records'))
              => \A i \in DOMAIN records' : records'[i].status = "pending"
      ]_vars
=============================================================================
