--------------------------- MODULE ModemDownload -----------------------------
(***************************************************************************)
(* drivers/quectel.rs, the file download: a file is fetched with HTTP      *)
(* range requests in slices that the modem stores in a temporary file, and *)
(* is read out in chunks. Every AT command may fail; a request that failed *)
(* may still report its result later.                                      *)
(*                                                                         *)
(* A byte of the file is its position. The storage, the HTTP client and    *)
(* the server are external: they do what the comments of the driver say.   *)
(***************************************************************************)
EXTENDS Integers, Sequences

CONSTANTS
  FileLens,           \* lengths of the files that may be downloaded
  DOWNLOAD_SLICE_LEN,
  ChunkSize,          \* what the caller asks for
  SLICE_ATTEMPTS,
  MaxDownloads,       \* bound on the downloads
  MaxDownFaults       \* bound on the commands that fail

ASSUME DownAssumption ==
  /\ FileLens \subseteq Nat /\ DOWNLOAD_SLICE_LEN \in Nat \ {0} /\ ChunkSize \in Nat \ {0}
  /\ SLICE_ATTEMPTS \in Nat \ {0} /\ MaxDownloads \in Nat /\ MaxDownFaults \in Nat

VARIABLES
  fileLen,      \* of the file that the server has
  download,     \* slice_offset, slice_len, slice_read, complete; on: is it Some
  tmp,          \* TMP_FILE in the modem: the positions that it holds
  tmpExists,
  tmpHandle,    \* file_handle: NoHandle, or the position in the open file
  urcs,         \* +QHTTPGET reports that wait: <<code, length>>
  late,         \* reports of failed requests that have not come yet
  dpc,          \* what the driver does
  fetchFor,     \* who called fetch_slice_with_retry: "open", "next" or "again"
  offset,       \* argument of fetch_slice
  slice,        \* slice_len that was reported
  attempt,      \* of fetch_slice_with_retry
  readAttempt,  \* of read_slice_with_retry
  saved,        \* slice_read to restore after the slice was fetched again
  chunk,        \* bytes that read_download_chunk has collected
  delivered,    \* history: chunks that the caller got
  ended,        \* what the caller was told: "no", "EndOfFile" or "ReadError"
  stale,        \* history: this download began with a successful report of an earlier one unread
  downloads, dfaults

slices == <<download, tmp, tmpExists, tmpHandle>>
reports == <<urcs, late>>
fetching == <<fetchFor, offset, slice, attempt>>
caller == <<fileLen, delivered, ended, stale, downloads>>
downVars == <<slices, reports, dpc, fetching, readAttempt, saved, chunk, caller, dfaults>>

NoHandle == -1

Positions(from, n) == [i \in 1 .. n |-> from + i - 1]

Smaller(a, b) == IF a < b THEN a ELSE b

NoDownload == [on |-> FALSE, offset |-> 0, len |-> 0, read |-> 0, complete |-> FALSE]

DownInit ==
  /\ fileLen \in FileLens
  /\ download = NoDownload /\ tmp = << >> /\ tmpExists = FALSE /\ tmpHandle = NoHandle
  /\ urcs = << >> /\ late = 0
  /\ dpc = "idle" /\ fetchFor = "open" /\ offset = 0 /\ slice = 0 /\ attempt = 1
  /\ readAttempt = 1 /\ saved = 0 /\ chunk = << >>
  /\ delivered = << >> /\ ended = "no" /\ stale = FALSE
  /\ downloads = 0 /\ dfaults = 0

Fault(isFault) ==
  /\ isFault => dfaults < MaxDownFaults
  /\ dfaults' = IF isFault THEN dfaults + 1 ELSE dfaults

(* close_file, then delete_file; both may fail and are not retried here. The handle *)
(* is forgotten in any case.                                                        *)
DiscardSliceFile ==
  /\ tmpHandle' = NoHandle
  /\ \E fails \in BOOLEAN :
       /\ Fault(fails)
       /\ tmpExists' = (tmpExists /\ fails)
       /\ tmp' = IF fails THEN tmp ELSE << >>

(* finish_download, for the result that the caller gets. *)
FinishDownload(result) ==
  /\ IF download.on THEN DiscardSliceFile ELSE UNCHANGED <<tmp, tmpExists, tmpHandle, dfaults>>
  /\ download' = NoDownload
  /\ ended' = result /\ dpc' = "idle" /\ chunk' = << >>

Fetch(at, for) == dpc' = "get" /\ offset' = at /\ fetchFor' = for /\ attempt' = 1 /\ slice' = 0

(* download_file: an old file is deleted, which may fail, the HTTP context is set up and *)
(* the first slice is requested. The server may have another file by now, and the        *)
(* reports of earlier requests are not looked at.                                        *)
DownloadFile ==
  /\ dpc = "idle" /\ downloads < MaxDownloads
  /\ downloads' = downloads + 1 /\ delivered' = << >> /\ chunk' = << >>
  /\ fileLen' \in FileLens
  /\ stale' = \E i \in DOMAIN urcs : urcs[i][1] # 500
  /\ tmpHandle' = NoHandle
  /\ \E kept, fails \in BOOLEAN :
       /\ Fault(kept \/ fails)
       /\ tmpExists' = (tmpExists /\ kept) /\ tmp' = IF kept THEN tmp ELSE << >>
       /\ IF fails
            THEN /\ download' = NoDownload /\ ended' = "ReadError" /\ dpc' = "idle"
                 /\ UNCHANGED fetching
            ELSE /\ download' = [NoDownload EXCEPT !.on = TRUE] /\ ended' = "no"
                 /\ Fetch(0, "open")
  /\ UNCHANGED <<reports, readAttempt, saved>>

(* What the server sends for the requested range. *)
RangeLen == IF offset < fileLen THEN Smaller(DOWNLOAD_SLICE_LEN, fileLen - offset) ELSE 0

(* fetch_slice, the request: it is answered, or it fails and the modem reports the *)
(* failure of the request later.                                                   *)
SendGet ==
  /\ dpc = "get"
  /\ \/ /\ dpc' = "result"
        /\ urcs' = Append(urcs, <<IF RangeLen > 0 THEN 206 ELSE 416, RangeLen>>)
        /\ UNCHANGED <<late, dfaults>>
     \/ /\ Fault(TRUE) /\ dpc' = "result" /\ urcs' = Append(urcs, <<500, 0>>)
        /\ UNCHANGED late
     \/ /\ Fault(TRUE) /\ dpc' = "fetchFailed" /\ late' \in {late, late + 1}
        /\ UNCHANGED urcs
  /\ UNCHANGED <<slices, fetching, readAttempt, saved, chunk, caller>>

(* The report of a request that was given up comes in. *)
LateReport ==
  /\ late > 0
  /\ late' = late - 1 /\ urcs' = Append(urcs, <<500, 0>>)
  /\ UNCHANGED <<slices, dpc, fetching, readAttempt, saved, chunk, caller, dfaults>>

(* await_urc(HTTPGet): the next report, whosever it is. *)
AwaitGet ==
  /\ dpc = "result" /\ urcs # << >>
  /\ urcs' = Tail(urcs)
  /\ slice' = Head(urcs)[2]
  /\ dpc' = IF Head(urcs)[1] = 500 THEN "fetchFailed"
            ELSE IF Head(urcs)[2] = 0 THEN "fetched" ELSE "store"
  /\ UNCHANGED <<slices, late, fetchFor, offset, attempt, readAttempt, saved, chunk, caller, dfaults>>

(* ReadFile: the modem stores what it received, unless a file of that name is left. *)
StoreSlice ==
  /\ dpc = "store"
  /\ LET canStore == ~tmpExists /\ RangeLen > 0
     IN  \/ /\ canStore /\ dpc' = "fetched"
            /\ tmpExists' = TRUE /\ tmp' = Positions(offset, RangeLen)
            /\ UNCHANGED dfaults
         \/ /\ Fault(canStore) /\ dpc' = "fetchFailed"
            /\ \/ UNCHANGED <<tmp, tmpExists>>
               \/ \E n \in 0 .. RangeLen :
                    canStore /\ tmpExists' = TRUE /\ tmp' = Positions(offset, n)
  /\ UNCHANGED <<download, tmpHandle, reports, fetching, readAttempt, saved, chunk, caller>>

(* Mutant: the slice is taken for the last one when it is full. *)
FetchedFull ==
  /\ dpc = "fetched"
  /\ download' = [download EXCEPT !.offset = offset, !.len = slice,
                    !.read = IF fetchFor = "again" THEN saved ELSE 0,
                    !.complete = slice <= DOWNLOAD_SLICE_LEN]
  /\ dpc' = "chunk"
  /\ UNCHANGED <<tmp, tmpExists, tmpHandle, reports, fetching, readAttempt, saved, chunk,
                 caller, dfaults>>

(* fetch_slice succeeds; a slice that was fetched again is read on from where it was. *)
Fetched ==
  /\ dpc = "fetched"
  /\ download' = [download EXCEPT !.offset = offset, !.len = slice,
                    !.read = IF fetchFor = "again" THEN saved ELSE 0,
                    !.complete = slice < DOWNLOAD_SLICE_LEN]
  /\ dpc' = IF fetchFor = "again" THEN "read" ELSE "chunk"
  /\ UNCHANGED <<tmp, tmpExists, tmpHandle, reports, fetching, readAttempt, saved, chunk,
                 caller, dfaults>>

(* Mutant: the report of the cancelled request is left in the queue. *)
RetryUncancelled ==
  /\ dpc = "fetchFailed" /\ attempt < SLICE_ATTEMPTS
  /\ UNCHANGED reports
  /\ DiscardSliceFile
  /\ attempt' = attempt + 1 /\ dpc' = "get"
  /\ UNCHANGED <<download, fetchFor, offset, slice, readAttempt, saved, chunk, caller>>

(* fetch_slice_with_retry after an error: cancel_http_request takes the report of the *)
(* cancelled request, which "normally follows at once", and discards what was stored. *)
RetryFetch ==
  /\ dpc = "fetchFailed" /\ attempt < SLICE_ATTEMPTS
  /\ \/ urcs # << >> /\ urcs' = Tail(urcs) /\ UNCHANGED late
     \/ urcs = << >> /\ late > 0 /\ late' = late - 1 /\ UNCHANGED urcs
     \/ urcs = << >> /\ late = 0 /\ UNCHANGED reports
  /\ DiscardSliceFile
  /\ attempt' = attempt + 1 /\ dpc' = "get"
  /\ UNCHANGED <<download, fetchFor, offset, slice, readAttempt, saved, chunk, caller>>

GiveUpFetch ==
  /\ dpc = "fetchFailed" /\ attempt = SLICE_ATTEMPTS
  /\ FinishDownload("ReadError")
  /\ UNCHANGED <<reports, fetching, readAttempt, saved, fileLen, delivered, stale, downloads>>

Remaining == download.len - download.read

(* Mutant: a short slice does not end the file. *)
ReadDownloadChunkForever ==
  /\ dpc = "chunk" /\ Len(chunk) < ChunkSize
  /\ IF Remaining = 0
       THEN DiscardSliceFile /\ Fetch(download.offset + download.len, "next")
       ELSE dpc' = "read" /\ UNCHANGED <<tmp, tmpExists, tmpHandle, fetching, dfaults>>
  /\ readAttempt' = 1
  /\ UNCHANGED <<download, reports, saved, chunk, caller>>

(* read_download_chunk: the chunk is full or the file ends, the next slice is fetched, *)
(* or more is read from this one.                                                      *)
ReadDownloadChunk ==
  /\ dpc = "chunk" /\ Len(chunk) < ChunkSize /\ ~(Remaining = 0 /\ download.complete)
  /\ IF Remaining = 0
       THEN DiscardSliceFile /\ Fetch(download.offset + download.len, "next")
       ELSE dpc' = "read" /\ UNCHANGED <<tmp, tmpExists, tmpHandle, fetching, dfaults>>
  /\ readAttempt' = 1
  /\ UNCHANGED <<download, reports, saved, chunk, caller>>

(* Mutant: a chunk ends where its slice ends. *)
DeliverSliceEnd ==
  /\ dpc = "chunk"
  /\ Len(chunk) = ChunkSize \/ (Remaining = 0 /\ (download.complete \/ chunk # << >>))
  /\ IF chunk = << >>
       THEN FinishDownload("EndOfFile") /\ UNCHANGED delivered
       ELSE /\ delivered' = Append(delivered, chunk) /\ chunk' = << >>
            /\ UNCHANGED <<slices, dpc, ended, dfaults>>
  /\ UNCHANGED <<reports, fetching, readAttempt, saved, fileLen, stale, downloads>>

DeliverChunk ==
  /\ dpc = "chunk"
  /\ Len(chunk) = ChunkSize \/ (Remaining = 0 /\ download.complete)
  /\ IF chunk = << >>
       THEN FinishDownload("EndOfFile") /\ UNCHANGED delivered
       ELSE /\ delivered' = Append(delivered, chunk) /\ chunk' = << >>
            /\ UNCHANGED <<slices, dpc, ended, dfaults>>
  /\ UNCHANGED <<reports, fetching, readAttempt, saved, fileLen, stale, downloads>>

Position == IF tmpHandle = NoHandle THEN download.read ELSE tmpHandle

(* Mutant: the file is read from the start after it was opened again. *)
ReadSliceUnseeked ==
  /\ dpc = "read"
  /\ \/ \E n \in 1 .. Smaller(ChunkSize - Len(chunk), Remaining) :
          LET from == IF tmpHandle = NoHandle THEN 0 ELSE tmpHandle
          IN  /\ from + n <= Len(tmp)
              /\ chunk' = chunk \o SubSeq(tmp, from + 1, from + n)
              /\ tmpHandle' = from + n
              /\ download' = [download EXCEPT !.read = download.read + n]
              /\ dpc' = "chunk" /\ UNCHANGED dfaults
     \/ /\ Fault(TRUE) /\ dpc' = "readFailed"
        /\ tmpHandle' \in {NoHandle, 0}
        /\ UNCHANGED <<download, chunk>>
  /\ UNCHANGED <<tmp, tmpExists, reports, fetching, readAttempt, saved, caller>>

(* read_slice: opened and positioned when it is not open; a command may fail at any *)
(* point, and leaves the modem's position wherever it is.                           *)
ReadSlice ==
  /\ dpc = "read"
  /\ \/ \E n \in 1 .. Smaller(ChunkSize - Len(chunk), Remaining) :
          /\ Position + n <= Len(tmp)
          /\ chunk' = chunk \o SubSeq(tmp, Position + 1, Position + n)
          /\ tmpHandle' = Position + n
          /\ download' = [download EXCEPT !.read = download.read + n]
          /\ dpc' = "chunk" /\ UNCHANGED dfaults
     \/ /\ Fault(Position < Len(tmp)) /\ dpc' = "readFailed"
        /\ tmpHandle' \in {NoHandle, 0, Position} \cup {Smaller(Position + 1, Len(tmp))}
        /\ UNCHANGED <<download, chunk>>
  /\ UNCHANGED <<tmp, tmpExists, reports, fetching, readAttempt, saved, caller>>

(* read_slice_with_retry after an error: close the file; from the second time on the *)
(* slice is fetched again; after the last attempt the download fails.                *)
RetryRead ==
  /\ dpc = "readFailed" /\ readAttempt < SLICE_ATTEMPTS
  /\ readAttempt' = readAttempt + 1
  /\ IF readAttempt = 1
       THEN tmpHandle' = NoHandle /\ dpc' = "read" /\ UNCHANGED <<tmp, tmpExists, fetching, saved, dfaults>>
       ELSE DiscardSliceFile /\ Fetch(download.offset, "again") /\ saved' = download.read
  /\ UNCHANGED <<download, reports, chunk, caller>>

GiveUpRead ==
  /\ dpc = "readFailed" /\ readAttempt = SLICE_ATTEMPTS
  /\ FinishDownload("ReadError")
  /\ UNCHANGED <<reports, fetching, readAttempt, saved, fileLen, delivered, stale, downloads>>

(* Between two downloads the network task takes the reports that come in. *)
IgnoreReport ==
  /\ dpc = "idle" /\ urcs # << >>
  /\ urcs' = Tail(urcs)
  /\ UNCHANGED <<slices, late, dpc, fetching, readAttempt, saved, chunk, caller, dfaults>>

DownStep ==
  \/ SendGet \/ AwaitGet \/ StoreSlice \/ Fetched \/ RetryFetch \/ GiveUpFetch
  \/ ReadDownloadChunk \/ DeliverChunk \/ ReadSlice \/ RetryRead \/ GiveUpRead

DownNext == DownloadFile \/ DownStep \/ LateReport \/ IgnoreReport

DownSpec == DownInit /\ [][DownNext]_downVars /\ WF_downVars(DownStep) /\ WF_downVars(LateReport)

-----------------------------------------------------------------------------

(* The number of bytes that the caller got. *)
Got == IF delivered = << >> THEN 0
       ELSE (Len(delivered) - 1) * ChunkSize + Len(delivered[Len(delivered)])

(* read_file_chunk: whatever failed and was fetched or read again, the caller gets the *)
(* bytes of the file in order, none twice and none left out: each chunk, which the     *)
(* caller numbers, holds the bytes that follow those of the chunks before it.          *)
FileInOrder ==
  \A i \in 1 .. Len(delivered) :
    delivered[i] = Positions((i - 1) * ChunkSize, Len(delivered[i]))

(* "the caller relies on every chunk but the last one having the requested size", also *)
(* when a chunk was filled from two slices or from several reads.                      *)
ChunksFilled == \A i \in 1 .. Len(delivered) - 1 : Len(delivered[i]) = ChunkSize

(* fetch_slice, "a short slice means the server had nothing more to give": the end of *)
(* the file is reported when the whole file was delivered and not before, even when   *)
(* a report of an earlier request is taken for the answer, unless the report of a     *)
(* request that succeeded is left of a download that was given up.                    *)
EndIsTheEnd == ended = "EndOfFile" /\ ~stale => Got = fileLen

(* cancel_http_request, "consumed here; otherwise the next GET would take it as its own *)
(* result". It is not called after the last attempt, and a later download may end early *)
(* by such a report.                                                                    *)
EndIsAlwaysTheEnd == ended = "EndOfFile" => Got = fileLen

(* Again and again (liveness): every download ends, with the whole file or an error. *)
DownloadEnded == dpc = "idle"

=============================================================================
