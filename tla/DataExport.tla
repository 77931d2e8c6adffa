------------------------------ MODULE DataExport -----------------------------
(***************************************************************************)
(* mongodb.rs and sensor_data.rs: a data export is a record in one         *)
(* collection and a CSV file in another, written chunk by chunk while      *)
(* sensor data keeps arriving, and possibly deleted meanwhile by a user or *)
(* by the clean-up. Every query is a step of its own. The rows of the file *)
(* are the times of the samples they show, per channel.                    *)
(***************************************************************************)
EXTENDS MatViews

CONSTANTS
  Channels, FirstChannel,     \* data_channels and the one at index 0
  Times,                      \* of the samples, and of the bounds of an export
  From, Until,
  EXPORT_CHUNK_DURATION, MIN_EXPORT_CHUNK_DURATION,
  LIMIT,                      \* 180 000 samples
  MaxExports, MaxExportInserts, MaxExportFaults

(* A range of time that is not empty. *)
ASSUME ExportAssumption ==
  /\ FirstChannel \in Channels /\ IsFiniteSet(Times) /\ Times \subseteq Nat
  /\ From \in Nat /\ Until \in Nat /\ From < Until
  /\ EXPORT_CHUNK_DURATION \in Nat \ {0} /\ MIN_EXPORT_CHUNK_DURATION \in Nat \ {0}
  /\ LIMIT \in Nat

VARIABLES
  samples,      \* per channel: the times of its samples
  record,       \* the DataExport document: "none" | a record
  exportFiles,        \* the closed files of the bucket, by id
  exports,      \* exports started; the file of the last one has this id
  xpc,          \* write_data_export
  cursor,       \* its locals: from, chunk_duration, channel, count, batch
  rows,         \* what has been written to the upload stream
  before,       \* history: the samples that were there when the export began
  deletion,          \* delete_data_export: the file id it read
  cut,          \* history: samples that arrived after the count made the find reach its limit
  erased,       \* history: a delete had begun before the file was entered in the record
  exportInserts, exportFaults

exportVars == <<samples, record, exportFiles, exports, xpc, cursor, rows, before, deletion, cut, erased,
                exportInserts, exportFaults>>

NoExportFile == 0

NoCursor == [from |-> 0, chunk_duration |-> 0, todo |-> {}, channel |-> FirstChannel, count |-> 0,
             batch |-> [c \in Channels |-> <<>>]]

ExportInit ==
  /\ samples \in {[c \in Channels |-> ts] : ts \in SUBSET Times}
  /\ record = [status |-> "none", file |-> NoExportFile] /\ exportFiles = {}
  /\ xpc = "idle" /\ cursor = NoCursor /\ rows = <<>> /\ before = {}
  /\ deletion = [at |-> "idle", file |-> NoExportFile] /\ erased = FALSE /\ cut = FALSE /\ exports = 0
  /\ exportInserts = 0 /\ exportFaults = 0

(* A device uploads samples of all channels; sensor data is the external input here. *)
Upload(t) ==
  /\ exportInserts < MaxExportInserts /\ exportInserts' = exportInserts + 1
  /\ samples' = [c \in Channels |-> samples[c] \cup {t}]
  /\ UNCHANGED <<exports, cut, record, exportFiles, xpc, cursor, rows, before, deletion, erased, exportFaults>>

(* create_data_export *)
CreateDataExport ==
  /\ xpc = "idle" /\ record.status = "none" /\ deletion.at = "idle" /\ ~erased
  /\ exports < MaxExports /\ exports' = exports + 1 /\ rows' = <<>> /\ cut' = FALSE
  /\ record' = [status |-> "InProgress", file |-> NoExportFile] /\ xpc' = "chunk"
  /\ cursor' = [NoCursor EXCEPT !.from = From, !.chunk_duration = EXPORT_CHUNK_DURATION]
  /\ before' = {t \in samples[FirstChannel] : t >= From /\ t <= Until}
  /\ UNCHANGED <<samples, exportFiles, deletion, erased,
                 exportInserts, exportFaults>>

ChunkUntil == IF cursor.from + cursor.chunk_duration < Until
              THEN cursor.from + cursor.chunk_duration ELSE Until

(* Mutant: every chunk includes the sample at its end. *)
InRangeInclusive(t) == t >= cursor.from /\ t <= ChunkUntil

(* chunk_range, inclusive only when it ends the export *)
InRange(t) ==
  t >= cursor.from /\ (t < ChunkUntil \/ (t = ChunkUntil /\ ChunkUntil = Until))

Matching(c) == {t \in samples[c] : InRange(t)}

(* write_data_export, the head of its loop, and export_chunk, which queries the channels *)
BeginChunk ==
  /\ xpc = "chunk" /\ cursor.from < Until
  /\ xpc' = "count" /\ cursor' = [cursor EXCEPT !.todo = Channels, !.channel = FirstChannel]
  /\ UNCHANGED <<exports, cut, samples, record, exportFiles, rows, before, deletion, erased,
                 exportInserts, exportFaults>>

(* get_sensor_data, its count_documents *)
CountDocuments ==
  /\ xpc = "count"
  /\ cursor' = [cursor EXCEPT !.count = Cardinality(Matching(cursor.channel))]
  /\ xpc' = "find"
  /\ UNCHANGED <<exports, cut, samples, record, exportFiles, rows, before, deletion, erased,
                 exportInserts, exportFaults>>

(* Mutant: the same chunk is tried again. *)
TooMuchDataAgain ==
  /\ xpc = "find" /\ cursor.count > LIMIT /\ cursor.chunk_duration > MIN_EXPORT_CHUNK_DURATION
  /\ xpc' = "chunk"
  /\ UNCHANGED <<exports, cut, samples, record, exportFiles, cursor, rows, before, deletion, erased,
                 exportInserts, exportFaults>>

(* TooMuchData: half the duration, the same place. *)
TooMuchData ==
  /\ xpc = "find" /\ cursor.count > LIMIT /\ cursor.chunk_duration > MIN_EXPORT_CHUNK_DURATION
  /\ xpc' = "chunk"
  /\ cursor' = [cursor EXCEPT !.chunk_duration =
                  IF @ \div 2 > MIN_EXPORT_CHUNK_DURATION THEN @ \div 2 ELSE MIN_EXPORT_CHUNK_DURATION]
  /\ UNCHANGED <<exports, cut, samples, record, exportFiles, rows, before, deletion, erased,
                 exportInserts, exportFaults>>

(* Too much data for the smallest chunk, or a query fails: the export is given up, its *)
(* file never closed, the caller sets the status.                                      *)
GiveUp ==
  /\ \/ xpc = "find" /\ cursor.count > LIMIT /\ cursor.chunk_duration <= MIN_EXPORT_CHUNK_DURATION
        /\ UNCHANGED exportFaults
     \/ xpc \in {"count", "find", "size"} /\ exportFaults < MaxExportFaults
        /\ exportFaults' = exportFaults + 1
  /\ xpc' = "idle" /\ cursor' = NoCursor /\ rows' = <<>>
  /\ record' = IF record.status = "none" THEN record ELSE [record EXCEPT !.status = "Error"]
  /\ UNCHANGED <<exports, cut, samples, exportFiles, before, deletion, erased, exportInserts>>

(* The times of a set, each once and in order; there is one such sequence. *)
InOrder(set) ==
  {s \in [1 .. Cardinality(set) -> set] :
     /\ \A i, j \in 1 .. Cardinality(set) : i < j => s[i] < s[j]
     /\ \A t \in set : \E i \in 1 .. Cardinality(set) : s[i] = t}

(* The find of get_sensor_data: sorted by time, at most LIMIT documents. *)
FindDocuments ==
  /\ xpc = "find" /\ cursor.count <= LIMIT
  /\ \E sorted \in InOrder(Matching(cursor.channel)) :
     LET found == SubSeq(sorted, 1, IF Len(sorted) < LIMIT THEN Len(sorted) ELSE LIMIT)
         left == cursor.todo \ {cursor.channel}
     IN  /\ cursor' = [cursor EXCEPT !.batch[cursor.channel] = found, !.todo = left,
                                     !.channel = IF left = {} THEN FirstChannel
                                                 ELSE CHOOSE c \in left : TRUE]
         /\ xpc' = IF left = {} THEN "write" ELSE "count"
         /\ cut' = (cut \/ Len(sorted) > LIMIT)
  /\ UNCHANGED <<exports, samples, record, exportFiles, rows, before, deletion, erased,
                 exportInserts, exportFaults>>

(* as_csv: a row per sample of the first channel; the others are taken by index. *)
AsCsv(batch) ==
  [i \in 1..Len(batch[FirstChannel]) |->
     [c \in Channels |-> IF i <= Len(batch[c]) THEN batch[c][i] ELSE "NaN"]]

WriteChunk ==
  /\ xpc = "write" /\ xpc' = "chunk"
  /\ rows' = rows \o AsCsv(cursor.batch)
  /\ cursor' = [cursor EXCEPT !.from = ChunkUntil]
  /\ UNCHANGED <<exports, cut, samples, record, exportFiles, before, deletion, erased,
                 exportInserts, exportFaults>>

(* The end of the loop: upload_stream.close, *)
CloseUpload ==
  /\ xpc = "chunk" /\ cursor.from >= Until /\ xpc' = "size"
  /\ exportFiles' = exportFiles \cup {exports}
  /\ UNCHANGED <<exports, cut, samples, record, cursor, rows, before, deletion, erased,
                 exportInserts, exportFaults>>

(* then the file's id and size are entered in the record, if that is still there. *)
EnterFile ==
  /\ xpc = "size" /\ xpc' = "idle"
  /\ record' = IF record.status = "none" THEN record ELSE [status |-> "Success", file |-> exports]
  /\ erased' = (erased \/ record.status = "none" \/ deletion.at # "idle")
  /\ UNCHANGED <<exports, cut, samples, exportFiles, cursor, rows, before, deletion, exportInserts, exportFaults>>

(* delete_data_export, by a user or by cleanup_data_exports: the record is read, *)
GetDataExport ==
  /\ deletion.at = "idle" /\ record.status # "none"
  /\ deletion' = [at |-> IF record.file = NoExportFile THEN "record" ELSE "file", file |-> record.file]
  /\ UNCHANGED <<exports, cut, samples, record, exportFiles, xpc, cursor, rows, before, erased,
                 exportInserts, exportFaults>>

(* its file deleted, *)
DeleteExportFile ==
  /\ deletion.at = "file" /\ deletion' = [deletion EXCEPT !.at = "record"]
  /\ exportFiles' = exportFiles \ {deletion.file}
  /\ UNCHANGED <<exports, cut, samples, record, xpc, cursor, rows, before, erased,
                 exportInserts, exportFaults>>

(* Mutant: the record goes first. *)
DeleteRecordFirst ==
  /\ deletion.at \in {"file", "record"} /\ deletion' = [at |-> "idle", file |-> NoExportFile]
  /\ record' = [status |-> "none", file |-> NoExportFile]
  /\ UNCHANGED <<exports, cut, samples, exportFiles, xpc, cursor, rows, before, erased,
                 exportInserts, exportFaults>>

(* then the record. *)
DeleteRecord ==
  /\ deletion.at = "record" /\ deletion' = [at |-> "idle", file |-> NoExportFile]
  /\ record' = [status |-> "none", file |-> NoExportFile]
  /\ UNCHANGED <<exports, cut, samples, exportFiles, xpc, cursor, rows, before, erased,
                 exportInserts, exportFaults>>

ExportStep == BeginChunk \/ CountDocuments \/ TooMuchData \/ FindDocuments \/ WriteChunk
              \/ CloseUpload \/ EnterFile \/ GiveUp
ExportNext ==
  \/ ExportStep \/ CreateDataExport
  \/ GetDataExport \/ DeleteExportFile \/ DeleteRecord
  \/ \E t \in Times : Upload(t)

ExportSpec == ExportInit /\ [][ExportNext]_exportVars /\ WF_exportVars(ExportStep)

-----------------------------------------------------------------------------

(* write_data_export: the samples of the first channel that were stored when the export   *)
(* began appear in the finished file, each in one row and in order, however the chunks    *)
(* were cut and whatever was uploaded meanwhile, unless uploads between a count and its  *)
(* find made the find reach its limit.                                                    *)
ExportHasAll ==
  (xpc = "size" /\ ~cut) =>
    LET times == [i \in 1..Len(rows) |-> rows[i][FirstChannel]]
    IN  /\ before \subseteq {times[i] : i \in 1..Len(rows)}
        /\ \A i \in 1..(Len(rows) - 1) : times[i] < times[i + 1]

(* delete_data_export removes the file and then the record: a finished file without a  *)
(* record never remains, unless the export was deleted or given up while its file was  *)
(* being written.                                                                      *)
NoFileLeftBehind ==
  (deletion.at = "idle" /\ ~erased /\ exportFaults = 0 /\ xpc # "size") =>
    \A f \in exportFiles : record.status # "none" /\ record.file = f

(* The stored series of the server: a closed bucket of a view holds every point of its range,  *)
(* one job at a time works on a data set, an export holds what was in the database when it     *)
(* began, and no file is left without its record.                                              *)
SeriesAreComplete ==
  ClosedBucketsComplete /\ OneJobPerDataSet /\ ExportHasAll /\ NoFileLeftBehind

(* Again and again (liveness): the loop of write_data_export ends, although TooMuchData *)
(* repeats a chunk.                                                                     *)
ExportEnded == xpc = "idle"

=============================================================================
