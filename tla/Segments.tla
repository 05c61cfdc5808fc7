------------------------------ MODULE Segments ------------------------------
(***************************************************************************)
(* The two append-only logs kept beside a shard in numbered segment files: *)
(* the archived versions (pkg/c2db/history.go) and the transaction events  *)
(* (pkg/c2db/txnlog.go).                                                   *)
(*                                                                         *)
(* A file is a sequence of cells; a record of length n is n cells that     *)
(* name it and number its parts, which stands for its length field and its *)
(* checksum: a decoder accepts exactly a whole record.  A stop keeps the   *)
(* cells written before the last Sync and any prefix of the others.  A     *)
(* rotation syncs the segment it leaves, so only the last can be torn.     *)
(***************************************************************************)
EXTENDS Naturals, Sequences

CONSTANTS
    Logs,          \* the logs to explore, of "history" and "txlog"
    Keys, Ids,     \* keys and version identifiers of the archived records
    TombIds,       \* the identifiers of deletions
    Lengths,       \* lengths of records
    MaxSegment,    \* maxSegmentBytes
    MaxRecords, MaxStops, MaxFaults,    \* bounds
    Leftovers,     \* of each log, the cells a write that fails may leave in the file
    Stops          \* of each log, the stops to explore: "whole", "torn", "empty", "gone"

\* what the runs and the proofs assume of the constants
SegmentsAssumption ==
    /\ Logs \subseteq {"history", "txlog"} /\ TombIds \subseteq Ids
    /\ Ids \subseteq Nat \ {0} /\ Lengths \subseteq Nat \ {0} /\ MaxSegment \in Nat
    /\ MaxRecords \in Nat /\ MaxStops \in Nat /\ MaxFaults \in Nat
    /\ \A l \in Logs : Leftovers[l] \subseteq Nat
    /\ \A l \in Logs : Stops[l] \subseteq {"whole", "torn", "empty", "gone"}

VARIABLES
    log,       \* which of the two logs this is
    files,     \* the segments in the order of their numbers
    synced,    \* cells of the last segment that a stop keeps
    up,        \* "open", "down", or "refused" by an opening that failed
    cur,       \* curBytes
    locs,      \* History.index: the places of the records
    seq,       \* TxLog.seq
    made,      \* history: every record ever written, in order
    kept,      \* history: the records acknowledged that no stop took, by their
               \* numbers, which follow the order of the calls
    stops, faults

LogVars == <<log, files, synced, up, cur, locs, seq, made, kept, stops, faults>>

\* the segment in use
Current == files[Len(files)]

Cells(n, len) == [i \in 1 .. len |-> [rec |-> n, part |-> i, of |-> len]]

-----------------------------------------------------------------------------
(* Decoding.                                                               *)

\* DecodeHistoryRecord, DecodeTxnEvent at an offset
Decodes(f, off) ==
    /\ off < Len(f) /\ f[off + 1].part = 1
    /\ off + f[off + 1].of <= Len(f)
    /\ \A i \in 1 .. f[off + 1].of : f[off + i] = [f[off + 1] EXCEPT !.part = i]

\* The loop over a segment: the offsets of its records, and where it stopped.
Scan(f) ==
    LET from[off \in 0 .. Len(f)] ==
            IF ~Decodes(f, off) THEN [offs |-> {}, end |-> off]
            ELSE LET rest == from[off + f[off + 1].of]
                 IN  [offs |-> {off} \cup rest.offs, end |-> rest.end]
    IN  from[0]
Whole(f) == Scan(f).end = Len(f)

\* the places of the records of segment i
Places(i, f) == {[rec |-> f[off + 1].rec, seg |-> i, off |-> off, len |-> f[off + 1].of] : off \in Scan(f).offs}

\* ReadHistoryDir, ReadTxLogDir: the segments by their numbers, each from its start;
\* one segment that does not decode fails all
Readable == \A i \in DOMAIN files : Whole(files[i])
ReadDir == UNION {Places(i, files[i]) : i \in DOMAIN files}
ReadBefore(p, q) == p.seg < q.seg \/ (p.seg = q.seg /\ p.off < q.off)

-----------------------------------------------------------------------------
(* Appending.                                                              *)

\* The segment a record goes to: the last one, or a new one after a rotation
\* or when there is none (rotate, openSegment).
Rotates(len) == files = <<>> \/ (cur > 0 /\ cur + len > MaxSegment)
Opened(len) == IF Rotates(len) THEN Append(files, <<>>) ELSE files
SyncedIn(len) == IF Rotates(len) THEN 0 ELSE synced
CurIn(len) == IF Rotates(len) THEN 0 ELSE cur

Written(cells, len) ==
    LET fs == Opened(len) IN [fs EXCEPT ![Len(fs)] = @ \o cells]

\* History.Append
HistoryAppend(k, id, len) ==
    /\ log = "history" /\ up = "open" /\ Len(made) < MaxRecords
    /\ files' = Written(Cells(Len(made) + 1, len), len)
    /\ synced' = SyncedIn(len)
    /\ locs' = locs \cup {[rec |-> Len(made) + 1, seg |-> Len(files'), off |-> CurIn(len), len |-> len]}
    /\ cur' = CurIn(len) + len
    /\ made' = Append(made, [key |-> k, id |-> id, seq |-> 0])
    /\ kept' = kept \cup {Len(made) + 1}
    /\ UNCHANGED <<log, up, seq, stops, faults>>

\* HasTombstone: a deletion is archived once, whatever is replayed
Archive(k, id, len) ==
    /\ id \in TombIds => \A l \in locs : ~(made[l.rec].key = k /\ made[l.rec].id = id)
    /\ HistoryAppend(k, id, len)

\* TxLog.Emit
Emit(len) ==
    /\ log = "txlog" /\ up = "open" /\ Len(made) < MaxRecords
    /\ files' = Written(Cells(Len(made) + 1, len), len)
    /\ synced' = SyncedIn(len)
    /\ cur' = CurIn(len) + len
    /\ seq' = seq + 1
    /\ made' = Append(made, [key |-> 0, id |-> 0, seq |-> seq + 1])
    /\ kept' = kept \cup {Len(made) + 1}
    /\ UNCHANGED <<log, up, locs, stops, faults>>

\* A write that fails part of the way: the cells are in the file, curBytes
\* and the index do not know.
WriteFails(len, n) ==
    /\ up = "open" /\ faults < MaxFaults /\ Len(made) < MaxRecords
    /\ n \in Leftovers[log] /\ n < len
    /\ files' = Written(SubSeq(Cells(Len(made) + 1, len), 1, n), len)
    /\ synced' = SyncedIn(len) /\ cur' = CurIn(len)
    /\ seq' = IF log = "txlog" THEN seq + 1 ELSE seq
    /\ made' = Append(made, [key |-> 0, id |-> 0, seq |-> 0])
    /\ faults' = faults + 1
    /\ UNCHANGED <<log, up, locs, kept, stops>>

SyncLog ==
    /\ up = "open" /\ files # <<>> /\ synced < Len(Current)
    /\ synced' = Len(Current)
    /\ UNCHANGED <<log, files, up, cur, locs, seq, made, kept, stops, faults>>

CloseLog ==
    /\ up = "open" /\ stops < MaxStops
    /\ synced' = IF files = <<>> THEN 0 ELSE Len(Current)
    /\ up' = "down" /\ locs' = {} /\ cur' = 0 /\ seq' = 0
    /\ stops' = stops + 1
    /\ UNCHANGED <<log, files, made, kept, faults>>

-----------------------------------------------------------------------------
(* A stop, and the next opening.                                           *)

\* the last segment keeps n cells
KindOf(n) ==
    IF n = 0 THEN "empty"
    ELSE IF Whole(SubSeq(Current, 1, n)) THEN "whole" ELSE "torn"
Stopped(fs) ==
    /\ up = "open" /\ stops < MaxStops
    /\ files' = fs
    /\ kept' = {r \in kept : \E i \in DOMAIN fs : \E j \in DOMAIN fs[i] :
                               fs[i][j].rec = r /\ fs[i][j].part = fs[i][j].of}
    /\ up' = "down" /\ locs' = {} /\ cur' = 0 /\ seq' = 0
    /\ stops' = stops + 1
    /\ UNCHANGED <<log, made, faults>>
StopLog(n) ==
    /\ KindOf(n) \in Stops[log]
    /\ Stopped([files EXCEPT ![Len(files)] = SubSeq(@, 1, n)])
    /\ synced' = n

\* a segment whose creation did not reach the disk
StopGone ==
    /\ "gone" \in Stops[log] /\ files # <<>> /\ synced = 0
    /\ Stopped(SubSeq(files, 1, Len(files) - 1))
    /\ synced' = IF Len(files) = 1 THEN 0 ELSE Len(files[Len(files) - 1])

\* Mutant of Repaired: the torn end of the last segment stays.
RepairedNot(f) == f
\* buildIndex cuts the torn end of the last segment
Repaired(f) == SubSeq(f, 1, Scan(f).end)

\* OpenHistory, buildIndex
OpenHistory ==
    /\ log = "history" /\ up = "down"
    /\ IF \E i \in 1 .. Len(files) - 1 : ~Whole(files[i])
       THEN up' = "refused" /\ UNCHANGED <<files, synced, cur, locs>>
       ELSE /\ up' = "open"
            /\ files' = [i \in DOMAIN files |-> IF i = Len(files) THEN Repaired(files[i]) ELSE files[i]]
            /\ cur' = IF files = <<>> THEN 0 ELSE Len(files'[Len(files)])
            /\ synced' = IF synced < cur' THEN synced ELSE cur'
            /\ locs' = UNION {Places(i, files'[i]) : i \in DOMAIN files}
    /\ UNCHANGED <<log, seq, made, kept, stops, faults>>

\* Mutant of ResumedSeq: the numbers start again.
ResumedSeqZero(f) == 0
\* the last event of the last segment gives the next number, if all of the
\* segment decodes
ResumedSeq(f) == IF f # <<>> /\ Whole(f) THEN made[f[Len(f)].rec].seq ELSE 0

\* OpenTxLog
OpenTxLog ==
    /\ log = "txlog" /\ up = "down"
    /\ up' = "open"
    /\ cur' = IF files = <<>> THEN 0 ELSE Len(Current)
    /\ seq' = IF files = <<>> THEN 0 ELSE ResumedSeq(Current)
    /\ UNCHANGED <<log, files, synced, locs, made, kept, stops, faults>>

LogInit ==
    /\ log \in Logs
    /\ files = <<>> /\ synced = 0 /\ up = "open" /\ cur = 0 /\ locs = {} /\ seq = 0
    /\ made = <<>> /\ kept = {} /\ stops = 0 /\ faults = 0

LogNext ==
    \/ \E k \in Keys, id \in Ids, len \in Lengths : Archive(k, id, len)
    \/ \E len \in Lengths : Emit(len)
    \/ \E len \in Lengths : \E n \in Leftovers[log] : WriteFails(len, n)
    \/ SyncLog \/ CloseLog
    \/ files # <<>> /\ \E n \in synced .. Len(Current) : StopLog(n)
    \/ StopGone \/ OpenHistory \/ OpenTxLog

LogSpec == LogInit /\ [][LogNext]_LogVars

-----------------------------------------------------------------------------

\* the newest of the records rs that has key k and an identifier up to snap
NewestOf(rs, k, snap) ==
    LET at == {r \in rs : made[r].key = k /\ made[r].id <= snap}
    IN  {r \in at : \A q \in at : made[q].id <= made[r].id}

\* Resolve, readLoc: the record found, none when there is none, and "error"
\* when the cells at its place are not a record of that length
ReadLoc(l) ==
    LET f == files[l.seg]
    IN  IF Decodes(f, l.off) /\ f[l.off + 1].of = l.len THEN made[f[l.off + 1].rec] ELSE "error"
Resolve(k, snap) == {ReadLoc(l) : l \in {m \in locs : m.rec \in NewestOf({x.rec : x \in locs}, k, snap)}}

\* ResolveHistoryDir, on the records read from the disk
ResolveDir(k, snap) == {made[r] : r \in NewestOf({p.rec : p \in ReadDir}, k, snap)}

\* The types; a segment past its size has one record.
LogTypeOK ==
    /\ log \in Logs /\ up \in {"open", "down", "refused"}
    /\ seq \in 0 .. MaxRecords /\ Len(made) <= MaxRecords
    /\ files # <<>> => synced \in 0 .. Len(Current)
    /\ up = "open" /\ files # <<>> => cur = Len(Current)
    /\ \A i \in DOMAIN files : Len(files[i]) > MaxSegment => \A a, b \in Scan(files[i]).offs : a = b

\* A reader of the directory finds the records acknowledged that no stop took, in
\* the order of the calls.
ReadsBack ==
    /\ Readable
    /\ {p.rec : p \in ReadDir} = kept
    /\ \A p, q \in ReadDir : ReadBefore(p, q) => p.rec < q.rec

\* The archive serves exactly the versions that were archived and that no
\* stop took: by its index, and to a reader of the directory.  A torn end is
\* cut by the opening, so nothing written later is lost behind it, and no
\* opening is refused.
HistoryExact ==
    log = "history" =>
        /\ up # "refused"
        /\ up = "open" =>
              /\ ReadsBack
              /\ \A k \in Keys, snap \in Ids :
                    Resolve(k, snap) = {made[r] : r \in NewestOf(kept, k, snap)}
              /\ \A k \in Keys, snap \in Ids : ResolveDir(k, snap) = Resolve(k, snap)

\* The events are read back as they were emitted, and their numbers increase
\* over reopenings.
EventsExact ==
    log = "txlog" /\ up = "open" =>
        /\ ReadsBack
        /\ \A q, r \in kept : q < r => made[q].seq < made[r].seq
=============================================================================
