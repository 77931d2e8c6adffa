----------------------------- MODULE BootLoader ------------------------------
(***************************************************************************)
(* bootloader.rs and meta/firmware.rs: the installed image in the internal *)
(* flash is validated at every start, and replaced by the candidate in the *)
(* file store of the external flash when that is valid and not older.      *)
(* Power may fail at any time.                                             *)
(*                                                                         *)
(* Memory is a sequence of cells: a cell of a header is a part of its      *)
(* fields, other cells are code. A hash is the sequence that was hashed, a *)
(* signature the hash that the release key signed.                         *)
(***************************************************************************)
EXTENDS Integers, Sequences

CONSTANTS
  BINARY_SIZE,      \* cells of a header
  CHUNK_SIZE,       \* cells of a fragment of the firmware file
  RegionSize,       \* cells of the application region
  Builds,           \* images that were built: level, version, dev, body
  ThisDevice,       \* device type
  MaxFaults,        \* bound on the reads and writes that fail
  MaxCrashes        \* bound on the power failures

ASSUME BootAssumption ==
  /\ BINARY_SIZE \in Nat \ {0} /\ CHUNK_SIZE \in Nat \ {0} /\ RegionSize \in Nat
  /\ BINARY_SIZE <= RegionSize
  /\ \A b \in Builds :
       /\ b.level \in 0 .. 2 /\ b.version \in Nat /\ b.body \in Seq(STRING)
       /\ BINARY_SIZE + Len(b.body) <= RegionSize

VARIABLES
  internal,         \* application region
  ext,              \* fragments of the firmware file: a chunk, or Missing
  min_security,     \* installed_min_security
  bpc,              \* what the boot loader does
  frag,             \* next fragment to validate or to copy
  val,              \* validator of the candidate
  faults, crashes,
  newest            \* history: highest version that was started

bootVars == <<internal, ext, min_security, bpc, frag, val, faults, crashes, newest>>

NoHeader == [level |-> 0, version |-> 0, dev |-> ThisDevice, length |-> 0, tag |-> << >>]

Code(c) == [part |-> 0, hdr |-> NoHeader, code |-> c]
Erased == Code("ff")
Missing == <<Code("missing")>>

-----------------------------------------------------------------------------
(* Headers: security level 0 None, 1 IntegrityOnly, 2 Signed.               *)

AuthFields(hdr) == <<hdr.version, hdr.dev>>

HeaderCells(hdr) == [i \in 1 .. BINARY_SIZE |-> [part |-> i, hdr |-> hdr, code |-> "header"]]

(* An image as the build leaves it, with the hash or the signature that sign adds. *)
Body(b) == [i \in 1 .. Len(b.body) |-> Code(b.body[i])]

Header(b) ==
  [level |-> b.level, version |-> b.version, dev |-> b.dev,
   length |-> IF b.level = 0 THEN 0 ELSE BINARY_SIZE + Len(b.body),
   tag |-> IF b.level = 0 THEN << >> ELSE <<<<b.version, b.dev>>>> \o Body(b)]

Image(b) == HeaderCells(Header(b)) \o Body(b)

Images == {Image(b) : b \in Builds}

(* What else may be stored as a candidate: the code was replaced after it was signed, *)
(* the length is shorter than the header, or there is no header.                      *)
ShortHeader(b) == [Header(b) EXCEPT !.length = BINARY_SIZE - 1]

Damaged ==
  LET signed == {b \in Builds : b.level = 2}
  IN  {HeaderCells(Header(b)) \o [i \in 1 .. Len(b.body) |-> Code("damaged")] : b \in signed}
      \cup {HeaderCells(ShortHeader(b)) : b \in signed}
      \cup {[i \in 1 .. BINARY_SIZE |-> Code("damaged")]}

(* try_from_bytes: the magic and the fields are in their places; a length is recorded *)
(* at every level above None.                                                         *)
TryFromBytes(cells) ==
  IF /\ Len(cells) >= BINARY_SIZE
     /\ \A i \in 1 .. BINARY_SIZE : cells[i].part = i /\ cells[i].hdr = cells[1].hdr
     /\ cells[1].hdr.level > 0 => cells[1].hdr.length > 0
    THEN [ok |-> TRUE, hdr |-> cells[1].hdr]
    ELSE [ok |-> FALSE, hdr |-> NoHeader]

-----------------------------------------------------------------------------
(* Validator                                                                *)

NewValidator == [st |-> "Init", buf |-> << >>, n |-> 0, hdr |-> NoHeader, hash |-> << >>]

Least(a, b) == IF a < b THEN a ELSE b

(* update in state Init: collect the header. n_bytes restarts at the cells of this *)
(* slice that belonged to the header.                                              *)
CollectHeader(v, cells) ==
  LET k == Least(BINARY_SIZE - v.n, Len(cells))
      buf == v.buf \o SubSeq(cells, 1, k)
      parsed == TryFromBytes(buf)
  IN  IF k < BINARY_SIZE - v.n
        THEN [v EXCEPT !.buf = buf, !.n = v.n + k]
        ELSE [st |-> IF parsed.ok THEN "NeedMoreData" ELSE "Fail", buf |-> << >>,
              n |-> k, hdr |-> parsed.hdr, hash |-> << >>]

(* Mutant: the fields of the header are not hashed. *)
HashDataOnly(v, cells) ==
  LET k == Least(v.hdr.length - v.n, Len(cells))
  IN  IF v.hdr.level = 0 THEN [v EXCEPT !.st = "Complete"]
      ELSE IF v.n > v.hdr.length THEN [v EXCEPT !.st = "Fail"]
      ELSE [v EXCEPT !.n = v.n + k, !.hash = v.hash \o SubSeq(cells, 1, k),
                     !.st = IF k = v.hdr.length - v.n THEN "Complete" ELSE "NeedMoreData"]

(* update in state NeedMoreData: hash the authenticated fields once, then the data. *)
HashData(v, cells) ==
  LET k == Least(v.hdr.length - v.n, Len(cells))
      fields == IF v.n = BINARY_SIZE THEN <<AuthFields(v.hdr)>> ELSE << >>
  IN  IF v.hdr.level = 0 THEN [v EXCEPT !.st = "Complete"]
      ELSE IF v.n > v.hdr.length THEN [v EXCEPT !.st = "Fail"]
      ELSE [v EXCEPT !.n = v.n + k, !.hash = v.hash \o fields \o SubSeq(cells, 1, k),
                     !.st = IF k = v.hdr.length - v.n THEN "Complete" ELSE "NeedMoreData"]

(* update: the loop goes on with what the header left of the slice. *)
Update(v, cells) ==
  LET k == Least(BINARY_SIZE - v.n, Len(cells))
      w == CollectHeader(v, cells)
  IN  CASE v.st = "Init" ->
             IF w.st = "NeedMoreData" /\ k > 0 /\ k < Len(cells)
               THEN HashData(w, SubSeq(cells, k + 1, Len(cells)))
               ELSE w
        [] v.st = "NeedMoreData" -> HashData(v, cells)
        [] OTHER -> v

(* validate_update of the validator: verify with minVersion 0, allow_update_from *)
(* with the version of the existing application.                                 *)
Allowed(v, level, minVersion) ==
  /\ v.st = "Complete"
  /\ v.hdr.dev = ThisDevice
  /\ v.hdr.level >= level
  /\ v.hdr.version >= minVersion
  /\ v.hdr.level = 0 \/ v.hdr.tag = v.hash

ValidateExisting == Update(NewValidator, internal)

(* The header of the candidate, when the first fragment can be read. *)
NewHeader(readable) ==
  IF readable /\ ext[1] # Missing THEN TryFromBytes(ext[1]) ELSE [ok |-> FALSE, hdr |-> NoHeader]

(* The fragments of an image, as the running application stores them; the store is *)
(* left with the first n when the download is interrupted.                         *)
Fragments(img, n) ==
  LET count == (RegionSize + CHUNK_SIZE - 1) \div CHUNK_SIZE
      cells(f) == SubSeq(img, (f - 1) * CHUNK_SIZE + 1, Least(f * CHUNK_SIZE, Len(img)))
  IN  [f \in 1 .. count |-> IF f > n \/ cells(f) = << >> THEN Missing ELSE cells(f)]

Installed(img) == img \o [i \in 1 .. RegionSize - Len(img) |-> Erased]

(* A device leaves the factory with an image that it may start, or with a candidate. *)
BootInit ==
  /\ min_security \in {0, 2}
  /\ \/ \E img \in Images :
          /\ img[1].hdr.level >= min_security /\ img[1].hdr.dev = ThisDevice
          /\ internal = Installed(img)
          /\ ext = Fragments(img, 0)
     \/ \E img \in Images :
          /\ img[1].hdr.level = 2 /\ img[1].hdr.dev = ThisDevice
          /\ internal = Installed(<< >>)
          /\ ext = Fragments(img, RegionSize)
  /\ bpc = "boot" /\ frag = 0 /\ val = NewValidator
  /\ faults = 0 /\ crashes = 0 /\ newest = 0

StartApplication(cells) ==
  /\ bpc' = "running"
  /\ newest' = IF cells[1].hdr.version > newest THEN cells[1].hdr.version ELSE newest

(* A read of the external flash that fails. *)
Faulty(isFault) ==
  /\ isFault => faults < MaxFaults
  /\ faults' = IF isFault THEN faults + 1 ELSE faults

(* validate_update: the installed image is validated, and left alone when the header *)
(* of the candidate is the same.                                                     *)
Boot ==
  /\ bpc = "boot"
  /\ \E fault \in BOOLEAN, old \in {ValidateExisting} :
       /\ Faulty(fault)
       /\ IF /\ Allowed(old, min_security, 0)
             /\ NewHeader(~fault).ok /\ NewHeader(~fault).hdr = old.hdr
            THEN StartApplication(internal) ELSE bpc' = "validate" /\ UNCHANGED newest
  /\ frag' = 0 /\ val' = NewValidator
  /\ UNCHANGED <<internal, ext, min_security, crashes>>

(* validate_new_firmware: it ends when the validator needs no more, with the last *)
(* fragment, and at a fragment that cannot be read.                               *)
ValidateFragment ==
  /\ bpc = "validate" /\ frag < Len(ext)
  /\ \E fault \in BOOLEAN, w \in {Update(val, ext[frag + 1])} :
       /\ Faulty(fault)
       /\ IF fault \/ ext[frag + 1] = Missing THEN val' = val /\ frag' = Len(ext)
          ELSE val' = w /\ frag' = IF w.st \in {"Complete", "Fail"} THEN Len(ext) ELSE frag + 1
  /\ UNCHANGED <<internal, ext, min_security, bpc, crashes, newest>>

(* Mutant: the version of the installed image is not compared. *)
DecideAny ==
  /\ bpc = "validate" /\ frag = Len(ext)
  /\ frag' = 0 /\ val' = NewValidator
  /\ IF Allowed(val, 2, 0) THEN bpc' = "erase" /\ UNCHANGED newest
     ELSE IF Allowed(ValidateExisting, min_security, 0) THEN StartApplication(internal)
     ELSE bpc' = "bricked" /\ UNCHANGED newest
  /\ UNCHANGED <<internal, ext, min_security, faults, crashes>>

(* validate_update: UpToDate and UpdateRejected start the installed image, ShouldUpdate *)
(* replaces it, and without a valid image the device is Bricked.                        *)
Decide ==
  /\ bpc = "validate" /\ frag = Len(ext)
  /\ frag' = 0 /\ val' = NewValidator
  /\ \E old \in {ValidateExisting} :
       LET valid == Allowed(old, min_security, 0)
           same == val.st = "Complete" /\ old.st = "Complete" /\ val.hash = old.hash
           update == Allowed(val, 2, IF valid THEN old.hdr.version ELSE 0)
       IN  \/ valid /\ (same \/ ~update) /\ StartApplication(internal)
           \/ update /\ ~(valid /\ same) /\ bpc' = "erase" /\ UNCHANGED newest
           \/ ~valid /\ ~update /\ bpc' = "bricked" /\ UNCHANGED newest
  /\ UNCHANGED <<internal, ext, min_security, faults, crashes>>

(* apply_update: erase_application, cell by cell as far as power lasts. *)
EraseApplication ==
  /\ bpc = "erase"
  /\ \E n \in 0 .. RegionSize :
       /\ n < RegionSize => crashes < MaxCrashes
       /\ internal' = [i \in 1 .. RegionSize |-> IF i <= n THEN Erased ELSE internal[i]]
       /\ IF n < RegionSize THEN bpc' = "boot" /\ crashes' = crashes + 1
          ELSE bpc' = "copy" /\ UNCHANGED crashes
  /\ frag' = 0
  /\ UNCHANGED <<val, ext, min_security, faults, newest>>

(* How much of the region the writer has written: up to its last cell that is not erased. *)
Written(n) ==
  /\ \A i \in n + 1 .. RegionSize : internal[i] = Erased
  /\ n > 0 => internal[n] # Erased

(* The next fragment is appended; one that cannot be read is skipped. An error of *)
(* the writer ends the update.                                                    *)
CopyFragment ==
  /\ bpc = "copy" /\ frag < Len(ext)
  /\ \E chunk \in {ext[frag + 1]}, pos \in {n \in 0 .. RegionSize : Written(n)} :
       \/ /\ chunk # Missing /\ pos + Len(chunk) <= RegionSize
          /\ internal' = [i \in 1 .. RegionSize |->
                            IF i \in pos + 1 .. pos + Len(chunk)
                              THEN chunk[i - pos] ELSE internal[i]]
          /\ frag' = frag + 1 /\ UNCHANGED <<bpc, faults>>
       \/ /\ Faulty(chunk # Missing)
          /\ frag' = frag + 1 /\ UNCHANGED <<internal, bpc>>
       \/ /\ chunk # Missing /\ Faulty(pos + Len(chunk) <= RegionSize)
          /\ bpc' = "failed" /\ frag' = 0 /\ UNCHANGED internal
  /\ UNCHANGED <<val, ext, min_security, crashes, newest>>

(* Mutant: what was written is not read back. *)
VerifyNothing ==
  /\ bpc = "copy" /\ frag = Len(ext)
  /\ frag' = 0 /\ UNCHANGED internal
  /\ StartApplication(internal)
  /\ UNCHANGED <<val, ext, min_security, faults, crashes>>

(* finalize, and verify what is in the internal flash. *)
VerifyUpdate ==
  /\ bpc = "copy" /\ frag = Len(ext)
  /\ frag' = 0 /\ UNCHANGED internal
  /\ IF Allowed(ValidateExisting, 2, 0) THEN StartApplication(internal) ELSE bpc' = "failed" /\ UNCHANGED newest
  /\ UNCHANGED <<val, ext, min_security, faults, crashes>>

(* The caller starts again after an error; so does whoever finds a device that does *)
(* not start.                                                                       *)
Retry ==
  /\ bpc \in {"failed", "bricked"}
  /\ bpc' = "boot"
  /\ UNCHANGED <<internal, val, ext, min_security, frag, faults, crashes, newest>>

PowerLoss ==
  /\ bpc # "boot" /\ crashes < MaxCrashes
  /\ bpc' = "boot" /\ frag' = 0 /\ val' = NewValidator /\ crashes' = crashes + 1
  /\ UNCHANGED <<internal, ext, min_security, faults, newest>>

(* The application stores a candidate, completely or as far as the download went, *)
(* and restarts into the boot loader.                                             *)
Download ==
  /\ bpc = "running"
  /\ \E img \in Images \cup Damaged, n \in 0 .. Len(ext) : ext' = Fragments(img, n)
  /\ bpc' = "boot"
  /\ UNCHANGED <<internal, val, min_security, frag, faults, crashes, newest>>

BootStep ==
  \/ Boot \/ ValidateFragment \/ Decide
  \/ EraseApplication \/ CopyFragment \/ VerifyUpdate \/ Retry
BootNext == BootStep \/ PowerLoss \/ Download

BootSpec == BootInit /\ [][BootNext]_bootVars /\ WF_bootVars(BootStep)

-----------------------------------------------------------------------------

(* "installed_min_security is the lowest security level at which the image in       *)
(* internal flash may boot": the application that runs is a whole image of a build, *)
(* for this device and with that level, whatever was interrupted before.            *)
RunsWholeImage ==
  bpc = "running" =>
    \E img \in Images :
      /\ img[1].hdr.level >= min_security /\ img[1].hdr.dev = ThisDevice
      /\ img[1].hdr.level > 0 => SubSeq(internal, 1, Len(img)) = img
      /\ internal[1] = img[1]

(* "bootloader verifies new firmware has N >= old firmware": a version that has run *)
(* is never followed by an older one, not even when the update that replaced it was *)
(* interrupted and there was no installed version left to compare with.             *)
NoDowngrade == bpc = "running" => internal[1].hdr.version >= newest

(* bootloader.rs and firmware.rs: what runs is a whole image that was signed for this *)
(* device, and never an older version than one that ran before.                       *)
BootIsSafe == RunsWholeImage /\ NoDowngrade

(* Again and again (liveness): apply_update erases the only image that runs,    *)
(* and the device nevertheless gets back to an application after every          *)
(* interrupted download, interrupted update and failed read.                    *)
RunsAgain == bpc = "running"

(* update: "it can be passed in successive slices": a device does not find itself *)
(* bricked while a whole signed image for it is stored in readable slices.         *)
SlicesDoNotMatter ==
  bpc = "bricked" /\ faults = 0 =>
    \A img \in Images : img[1].hdr.level = 2 /\ img[1].hdr.dev = ThisDevice =>
                         ext # Fragments(img, RegionSize)

=============================================================================
