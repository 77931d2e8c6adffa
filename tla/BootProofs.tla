------------------------------ MODULE BootProofs ------------------------------
(***************************************************************************)
(* The boot loader for every set of builds, every size of the header, of a *)
(* fragment and of the region, and any number of faults and power cuts;    *)
(* and the statistics of its resets for every set of limits.               *)
(***************************************************************************)
EXTENDS BootLoader, BootStats, FiniteSetTheorems, SequenceTheorems, TLAPS

-----------------------------------------------------------------------------
(* The inductive invariant.                                                 *)

(* Headers only come from builds, or are damaged ones of signed builds: a   *)
(* signature cannot be made up. Everything else is code.                    *)
Headers == {Header(b) : b \in Builds} \cup {ShortHeader(b) : b \in {b \in Builds : b.level = 2}}

(* (The literals are named because the provers do not know them as strings.) *)
Codes == STRING \cup {"ff", "missing", "damaged"}
CodeCells == [part : {0}, hdr : {NoHeader}, code : Codes]
FlashCells == CodeCells \cup [part : 1 .. BINARY_SIZE, hdr : Headers, code : {"header"}]

(* The headers of which a part is stored in the fragments of the candidate. *)
ExtHeader(h) == \E f \in DOMAIN ext : \E j \in DOMAIN ext[f] : ext[f][j].part # 0 /\ ext[f][j].hdr = h

(* The installed image may be started. *)
Valid == Allowed(ValidateExisting, min_security, 0)

BootTypeOK ==
  /\ internal \in Seq(FlashCells) /\ Len(internal) = RegionSize
  /\ ext \in Seq(Seq(FlashCells))
  /\ min_security \in {0, 2}
  /\ bpc \in {"boot", "validate", "erase", "copy", "running", "failed", "bricked"}
  /\ frag \in Nat
  /\ newest \in Nat

(* A candidate is stored as one file: its fragments do not mix two headers. *)
OneCandidate == \A h, g \in Headers : ExtHeader(h) /\ ExtHeader(g) => h = g

(* The validator has collected cells of the candidate, and its header is    *)
(* the one of the candidate.                                                *)
ValidatorFollows ==
  bpc = "validate" =>
    /\ DOMAIN val = {"st", "buf", "n", "hdr", "hash"}
    /\ val.n \in Nat /\ val.buf \in Seq(FlashCells)
    /\ val.st = "Init" => val.n <= BINARY_SIZE
    /\ \A j \in DOMAIN val.buf : val.buf[j].part # 0 => ExtHeader(val.buf[j].hdr)
    /\ val.st \in {"NeedMoreData", "Complete"} => val.hdr \in Headers /\ ExtHeader(val.hdr)

(* What could be started is not older than what was: the installed image,   *)
(* and the candidate as soon as there is no installed image to compare it   *)
(* with, because that is invalid or about to be replaced.                   *)
InstalledIsNew == Valid => internal[1].hdr.version >= newest

CandidateIsNew ==
  ~ Valid \/ bpc \in {"erase", "copy"} => \A h \in Headers : ExtHeader(h) => h.version >= newest

CopyIsNew ==
  bpc = "copy" => \A i \in 1 .. RegionSize : internal[i].part # 0 => internal[i].hdr.version >= newest

RunningIsValid == bpc = "running" => Valid

BootInv ==
  /\ BootTypeOK
  /\ OneCandidate
  /\ ValidatorFollows
  /\ InstalledIsNew
  /\ CandidateIsNew
  /\ CopyIsNew
  /\ RunningIsValid

-----------------------------------------------------------------------------
(* Headers, images and fragments.                                           *)

(* The fields of a header. *)
LEMMA HeaderFields ==
  ASSUME NEW h \in Headers
  PROVE  /\ h.level \in 0 .. 2 /\ h.version \in Nat /\ h.length \in Int
         /\ \/ \E b \in Builds : h = Header(b)
            \/ h.level = 2 /\ h.length = BINARY_SIZE - 1
<1> USE BootAssumption
<1>1. CASE \E b \in Builds : h = Header(b)
  <2>1. PICK b \in Builds : h = Header(b)
    BY <1>1
  <2>2. b.level \in 0 .. 2 /\ b.version \in Nat /\ Len(b.body) \in Nat
    OBVIOUS
  <2>3. h.level = b.level /\ h.version = b.version
        /\ h.length = IF b.level = 0 THEN 0 ELSE BINARY_SIZE + Len(b.body)
    BY <2>1 DEF Header
  <2>4. QED
    BY <2>1, <2>2, <2>3
<1>2. CASE \E b \in {b \in Builds : b.level = 2} : h = ShortHeader(b)
  <2>1. PICK b \in Builds : b.level = 2 /\ h = ShortHeader(b)
    BY <1>2
  <2>2. h.level = b.level /\ h.version = b.version /\ h.length = BINARY_SIZE - 1
    BY <2>1 DEF ShortHeader, Header
  <2>3. QED
    BY <2>1, <2>2
<1>3. QED
  BY <1>1, <1>2 DEF Headers

(* A cell with a part is a cell of a header. *)
LEMMA HeaderCell ==
  ASSUME NEW c \in FlashCells
  PROVE  /\ c.part \in Nat
         /\ c.part # 0 => /\ c.part \in 1 .. BINARY_SIZE /\ c.hdr \in Headers
                         /\ c = [part |-> c.part, hdr |-> c.hdr, code |-> "header"]
BY BootAssumption DEF FlashCells, CodeCells

(* Code is a cell without a part. *)
LEMMA CodeCell ==
  ASSUME NEW x \in Codes
  PROVE  Code(x) \in CodeCells /\ Code(x) \in FlashCells /\ Code(x).part = 0
BY DEF Code, FlashCells, CodeCells

(* The code that is in no build: of erased, missing and damaged cells. *)
LEMMA OtherCode ==
  \A x \in {"ff", "missing", "damaged"} :
    Code(x) \in CodeCells /\ Code(x) \in FlashCells /\ Code(x).part = 0
BY CodeCell DEF Codes

(* The cells of a header are in their places. *)
LEMMA HeaderCellsType ==
  ASSUME NEW h \in Headers
  PROVE  /\ HeaderCells(h) \in Seq(FlashCells) /\ Len(HeaderCells(h)) = BINARY_SIZE
         /\ \A i \in 1 .. BINARY_SIZE :
              HeaderCells(h)[i] = [part |-> i, hdr |-> h, code |-> "header"]
<1>1. \A i \in 1 .. BINARY_SIZE : [part |-> i, hdr |-> h, code |-> "header"] \in FlashCells
  BY DEF FlashCells
<1>2. QED
  BY <1>1, BootAssumption DEF HeaderCells

(* A file that the application may store: cells of at most one header. *)
Candidate(img, h) ==
  /\ img \in Seq(FlashCells)
  /\ \A i \in 1 .. Len(img) : img[i].part # 0 => img[i].hdr = h

(* A header and code after it are such a file. *)
LEMMA HeaderAndCode ==
  ASSUME NEW h \in Headers, NEW code \in Seq(CodeCells)
  PROVE  /\ Candidate(HeaderCells(h) \o code, h)
         /\ Len(HeaderCells(h) \o code) = BINARY_SIZE + Len(code)
         /\ \A i \in 1 .. BINARY_SIZE :
              (HeaderCells(h) \o code)[i] = [part |-> i, hdr |-> h, code |-> "header"]
         /\ \A i \in 1 .. Len(code) : (HeaderCells(h) \o code)[BINARY_SIZE + i] = code[i]
<1> DEFINE hd == HeaderCells(h)
           img == hd \o code
<1>1. /\ hd \in Seq(FlashCells) /\ Len(hd) = BINARY_SIZE
      /\ \A i \in 1 .. BINARY_SIZE : hd[i] = [part |-> i, hdr |-> h, code |-> "header"]
  BY HeaderCellsType
<1>2. code \in Seq(FlashCells)
  BY DEF FlashCells
<1> HIDE DEF hd
<1>3. /\ img \in Seq(FlashCells) /\ Len(img) = BINARY_SIZE + Len(code)
      /\ \A i \in 1 .. Len(img) : img[i] = IF i <= BINARY_SIZE THEN hd[i] ELSE code[i - BINARY_SIZE]
  BY SMTT(30), <1>1, <1>2, BootAssumption, ConcatProperties
<1> HIDE DEF img
<1>4. \A i \in 1 .. BINARY_SIZE : img[i] = [part |-> i, hdr |-> h, code |-> "header"]
  BY <1>1, <1>3, BootAssumption
<1>5. \A i \in 1 .. Len(code) : img[BINARY_SIZE + i] = code[i]
  BY <1>3, BootAssumption
<1>6. ASSUME NEW i \in 1 .. Len(img), img[i].part # 0
      PROVE  img[i].hdr = h
  <2>1. CASE i <= BINARY_SIZE
    <3>1. i \in 1 .. BINARY_SIZE
      BY <2>1, <1>3, BootAssumption
    <3>2. img[i] = [part |-> i, hdr |-> h, code |-> "header"]
      BY <3>1, <1>4
    <3>3. QED
      BY <3>2
  <2>2. CASE i > BINARY_SIZE
    <3>1. i - BINARY_SIZE \in 1 .. Len(code)
      BY <2>2, <1>3, BootAssumption
    <3>2. img[i] = code[i - BINARY_SIZE] /\ code[i - BINARY_SIZE] \in CodeCells
      BY <2>2, <3>1, <1>3, BootAssumption
    <3>3. QED
      BY <3>2, <1>6 DEF CodeCells
  <2>3. QED
    BY <2>1, <2>2, BootAssumption
<1>7. QED
  BY <1>3, <1>4, <1>5, <1>6 DEF Candidate, img, hd

(* An image is its header and its code, and fits the region. *)
LEMMA ImageType ==
  ASSUME NEW b \in Builds
  PROVE  /\ Body(b) \in Seq(CodeCells) /\ Len(Body(b)) = Len(b.body) /\ Len(b.body) \in Nat
         /\ Header(b) \in Headers
         /\ Candidate(Image(b), Header(b))
         /\ Len(Image(b)) = BINARY_SIZE + Len(b.body) /\ Len(Image(b)) <= RegionSize
         /\ \A i \in 1 .. BINARY_SIZE :
              Image(b)[i] = [part |-> i, hdr |-> Header(b), code |-> "header"]
         /\ \A i \in 1 .. Len(b.body) : Image(b)[BINARY_SIZE + i] = Body(b)[i]
<1>1. b.body \in Seq(STRING) /\ Len(b.body) \in Nat /\ BINARY_SIZE + Len(b.body) <= RegionSize
  BY BootAssumption
<1>2. \A i \in 1 .. Len(b.body) : Code(b.body[i]) \in CodeCells
  <2> TAKE i \in 1 .. Len(b.body)
  <2>1. b.body[i] \in Codes
    BY <1>1 DEF Codes
  <2>2. QED
    BY <2>1, CodeCell
<1>3. Body(b) \in Seq(CodeCells) /\ Len(Body(b)) = Len(b.body)
  BY <1>1, <1>2 DEF Body
<1>4. Header(b) \in Headers
  BY DEF Headers
<1>5. QED
  BY ZenonT(30), <1>1, <1>3, <1>4, HeaderAndCode DEF Image

(* A damaged file is one of them, too. *)
LEMMA StoredIsCandidate ==
  ASSUME NEW img \in Images \cup Damaged
  PROVE  \E h : Candidate(img, h)
<1>1. CASE img \in Images
  BY <1>1, ImageType DEF Images
<1>2. CASE \E b \in {b \in Builds : b.level = 2} :
             img = HeaderCells(Header(b)) \o [i \in 1 .. Len(b.body) |-> Code("damaged")]
  <2>1. PICK b \in Builds :
          img = HeaderCells(Header(b)) \o [i \in 1 .. Len(b.body) |-> Code("damaged")]
    BY <1>2
  <2> DEFINE code == [i \in 1 .. Len(b.body) |-> Code("damaged")]
  <2>2. Len(b.body) \in Nat /\ Code("damaged") \in CodeCells
    BY BootAssumption, OtherCode
  <2>3. code \in Seq(CodeCells)
    BY <2>2
  <2> HIDE DEF code
  <2>4. Header(b) \in Headers /\ img = HeaderCells(Header(b)) \o code
    BY <2>1 DEF Headers, code
  <2>5. QED
    BY <2>3, <2>4, HeaderAndCode
<1>3. CASE \E b \in {b \in Builds : b.level = 2} : img = HeaderCells(ShortHeader(b))
  <2>1. PICK h \in Headers : img = HeaderCells(h)
    BY <1>3 DEF Headers
  <2>2. img \in Seq(FlashCells) /\ Len(img) = BINARY_SIZE
        /\ \A i \in 1 .. BINARY_SIZE : img[i] = [part |-> i, hdr |-> h, code |-> "header"]
    BY <2>1, HeaderCellsType
  <2>3. QED
    BY SMTT(30), <2>2 DEF Candidate
<1>4. CASE img = [i \in 1 .. BINARY_SIZE |-> Code("damaged")]
  <2>1. img \in Seq(FlashCells) /\ Len(img) = BINARY_SIZE
        /\ \A i \in 1 .. BINARY_SIZE : img[i] = Code("damaged")
    BY <1>4, OtherCode, BootAssumption
  <2>2. QED
    BY <2>1, OtherCode DEF Candidate
<1>5. QED
  BY <1>1, <1>2, <1>3, <1>4 DEF Damaged

(* A slice of a file has the cells of the file. *)
LEMMA SliceOf ==
  ASSUME NEW img \in Seq(FlashCells), NEW m \in Nat \ {0}, NEW n \in Int, n <= Len(img)
  PROVE  /\ SubSeq(img, m, n) \in Seq(FlashCells)
         /\ Len(SubSeq(img, m, n)) = IF m <= n THEN n - m + 1 ELSE 0
         /\ \A i \in 1 .. Len(SubSeq(img, m, n)) :
              SubSeq(img, m, n)[i] = img[m + i - 1] /\ m + i - 1 \in 1 .. Len(img)
<1>1. \A i \in m .. n : img[i] \in FlashCells
  OBVIOUS
<1>2. /\ SubSeq(img, m, n) \in Seq(FlashCells)
      /\ Len(SubSeq(img, m, n)) = IF m <= n THEN n - m + 1 ELSE 0
      /\ \A i \in 1 .. n - m + 1 : SubSeq(img, m, n)[i] = img[m + i - 1]
  BY <1>1, SubSeqProperties
<1>3. QED
  BY SMTT(30), <1>2

(* The fragments of a file are its slices: they hold cells of that file. *)
LEMMA FragmentsOf ==
  ASSUME NEW img, NEW h, Candidate(img, h), NEW n
  PROVE  /\ Fragments(img, n) \in Seq(Seq(FlashCells))
         /\ \A f \in DOMAIN Fragments(img, n) : \A j \in DOMAIN Fragments(img, n)[f] :
              Fragments(img, n)[f][j].part # 0 => Fragments(img, n)[f][j].hdr = h
<1> DEFINE count == (RegionSize + CHUNK_SIZE - 1) \div CHUNK_SIZE
           cells(f) == SubSeq(img, (f - 1) * CHUNK_SIZE + 1, Least(f * CHUNK_SIZE, Len(img)))
           piece(f) == IF f > n \/ cells(f) = << >> THEN Missing ELSE cells(f)
<1>1. count \in Nat
  BY BootAssumption
<1>2. ASSUME NEW f \in 1 .. count
      PROVE  /\ piece(f) \in Seq(FlashCells)
             /\ \A j \in DOMAIN piece(f) : piece(f)[j].part # 0 => piece(f)[j].hdr = h
  <2> DEFINE m == (f - 1) * CHUNK_SIZE + 1
             e == Least(f * CHUNK_SIZE, Len(img))
  <2>1. m \in Nat \ {0} /\ f * CHUNK_SIZE \in Nat
    BY <1>1, BootAssumption
  <2>2. img \in Seq(FlashCells) /\ Len(img) \in Nat
    BY DEF Candidate
  <2>3. e \in Int /\ e <= Len(img)
    BY <2>1, <2>2 DEF Least
  <2> HIDE DEF m, e
  <2>4. /\ SubSeq(img, m, e) \in Seq(FlashCells)
        /\ \A i \in 1 .. Len(SubSeq(img, m, e)) :
             SubSeq(img, m, e)[i] = img[m + i - 1] /\ m + i - 1 \in 1 .. Len(img)
    BY <2>1, <2>2, <2>3, SliceOf
  <2> DEFINE s == SubSeq(img, m, e)
  <2> HIDE DEF s
  <2>5. \A i \in DOMAIN s : s[i].part # 0 => s[i].hdr = h
    <3>1. DOMAIN s = 1 .. Len(s)
      BY <2>4 DEF s
    <3>2. \A i \in 1 .. Len(s) : s[i] = img[m + i - 1] /\ m + i - 1 \in 1 .. Len(img)
      BY <2>4 DEF s
    <3>3. QED
      BY <3>1, <3>2 DEF Candidate
  <2>6. /\ Missing \in Seq(FlashCells)
        /\ \A j \in DOMAIN Missing : Missing[j].part = 0
    BY OtherCode DEF Missing
  <2>7. cells(f) = s /\ s \in Seq(FlashCells)
    BY <2>4 DEF m, e, s
  <2> HIDE DEF cells
  <2>8. QED
    BY <2>5, <2>6, <2>7
<1>3. Fragments(img, n) = [f \in 1 .. count |-> piece(f)]
  BY DEF Fragments
<1> HIDE DEF piece, count
<1>4. QED
  BY <1>1, <1>2, <1>3

-----------------------------------------------------------------------------
(* The validator.                                                           *)

(* A header that was parsed is in the first cell. *)
LEMMA ParsedHeader ==
  ASSUME NEW cells \in Seq(FlashCells), TryFromBytes(cells).ok
  PROVE  /\ Len(cells) >= BINARY_SIZE
         /\ \A i \in 1 .. BINARY_SIZE : cells[i].part = i /\ cells[i].hdr = cells[1].hdr
         /\ TryFromBytes(cells).hdr = cells[1].hdr
         /\ cells[1].part = 1 /\ cells[1].hdr \in Headers
         /\ cells[1].hdr.level > 0 => cells[1].hdr.length > 0
<1>1. /\ Len(cells) >= BINARY_SIZE
      /\ \A i \in 1 .. BINARY_SIZE : cells[i].part = i /\ cells[i].hdr = cells[1].hdr
      /\ cells[1].hdr.level > 0 => cells[1].hdr.length > 0
      /\ TryFromBytes(cells).hdr = cells[1].hdr
  BY DEF TryFromBytes
<1>2. 1 \in 1 .. BINARY_SIZE /\ cells[1] \in FlashCells /\ cells[1].part = 1
  BY <1>1, BootAssumption
<1>3. QED
  BY <1>1, <1>2, HeaderCell

(* A validator that has seen cells with the headers Hs only. *)
ValidatorOf(v, Hs) ==
  /\ DOMAIN v = {"st", "buf", "n", "hdr", "hash"}
  /\ v.n \in Nat /\ v.buf \in Seq(FlashCells)
  /\ v.st = "Init" => v.n <= BINARY_SIZE
  /\ \A j \in DOMAIN v.buf : v.buf[j].part # 0 => v.buf[j].hdr \in Hs
  /\ v.st \in {"NeedMoreData", "Complete"} => v.hdr \in Headers /\ v.hdr \in Hs

(* Hashing keeps the header. *)
LEMMA HashKeeps ==
  ASSUME NEW v, NEW Hs, ValidatorOf(v, Hs), v.st = "NeedMoreData", NEW cells \in Seq(FlashCells)
  PROVE  ValidatorOf(HashData(v, cells), Hs)
<1> DEFINE k == Least(v.hdr.length - v.n, Len(cells))
           hash == v.hash \o (IF v.n = BINARY_SIZE THEN <<AuthFields(v.hdr)>> ELSE << >>)
                   \o SubSeq(cells, 1, k)
<1>1. /\ DOMAIN v = {"st", "buf", "n", "hdr", "hash"} /\ v.n \in Nat /\ v.buf \in Seq(FlashCells)
      /\ \A j \in DOMAIN v.buf : v.buf[j].part # 0 => v.buf[j].hdr \in Hs
      /\ v.hdr \in Headers /\ v.hdr \in Hs
  BY DEF ValidatorOf
<1>2. v.hdr.length \in Int /\ Len(cells) \in Nat
  BY <1>1, HeaderFields
<1>3. HashData(v, cells) =
        IF v.hdr.level = 0 THEN [v EXCEPT !.st = "Complete"]
        ELSE IF v.n > v.hdr.length THEN [v EXCEPT !.st = "Fail"]
        ELSE [v EXCEPT !.n = v.n + k, !.hash = hash,
                       !.st = IF k = v.hdr.length - v.n THEN "Complete" ELSE "NeedMoreData"]
  BY DEF HashData
<1>4. v.n <= v.hdr.length => v.n + k \in Nat
  BY <1>1, <1>2 DEF Least
<1> HIDE DEF k, hash
<1>5. CASE v.hdr.level = 0
  BY <1>1, <1>3, <1>5 DEF ValidatorOf
<1>6. CASE v.hdr.level # 0 /\ v.n > v.hdr.length
  BY <1>1, <1>3, <1>6 DEF ValidatorOf
<1>7. CASE v.hdr.level # 0 /\ ~ (v.n > v.hdr.length)
  <2>1. v.n + k \in Nat
    BY <1>1, <1>2, <1>4, <1>7
  <2>2. QED
    BY <1>1, <1>3, <1>7, <2>1 DEF ValidatorOf
<1>8. QED
  BY <1>5, <1>6, <1>7

(* update collects the header from cells of the candidate, in as many       *)
(* slices as it takes, and then hashes.                                     *)
LEMMA UpdateKeeps ==
  ASSUME NEW v, NEW Hs, ValidatorOf(v, Hs), NEW cells \in Seq(FlashCells),
         \A j \in DOMAIN cells : cells[j].part # 0 => cells[j].hdr \in Hs
  PROVE  ValidatorOf(Update(v, cells), Hs)
<1> DEFINE k == Least(BINARY_SIZE - v.n, Len(cells))
           buf == v.buf \o SubSeq(cells, 1, k)
           parsed == TryFromBytes(buf)
           w == CollectHeader(v, cells)
<1>1. CASE v.st = "Init"
  <2>1. /\ DOMAIN v = {"st", "buf", "n", "hdr", "hash"}
        /\ v.n \in Nat /\ v.n <= BINARY_SIZE /\ v.buf \in Seq(FlashCells)
        /\ \A j \in DOMAIN v.buf : v.buf[j].part # 0 => v.buf[j].hdr \in Hs
    BY <1>1 DEF ValidatorOf
  <2>2. k \in Nat /\ k <= Len(cells) /\ k <= BINARY_SIZE - v.n
    BY <2>1, BootAssumption DEF Least
  <2> HIDE DEF k
  <2> DEFINE s == SubSeq(cells, 1, k)
  <2>3. /\ s \in Seq(FlashCells) /\ Len(s) = k
        /\ \A i \in 1 .. k : s[i] = cells[i]
    <3>1. /\ s \in Seq(FlashCells) /\ Len(s) = IF 1 <= k THEN k - 1 + 1 ELSE 0
          /\ \A i \in 1 .. Len(s) : s[i] = cells[1 + i - 1] /\ 1 + i - 1 \in 1 .. Len(cells)
      BY <2>2, SliceOf
    <3> HIDE DEF s
    <3>2. Len(s) = k
      BY <3>1, <2>2
    <3>3. \A i \in 1 .. k : 1 + i - 1 = i
      BY <2>2
    <3>4. QED
      BY <3>1, <3>2, <3>3
  <2> HIDE DEF s
  <2>4. /\ buf \in Seq(FlashCells) /\ Len(buf) = Len(v.buf) + k
        /\ \A i \in 1 .. Len(v.buf) + k :
             buf[i] = IF i <= Len(v.buf) THEN v.buf[i] ELSE s[i - Len(v.buf)]
    <3>1. buf = v.buf \o s
      BY DEF s
    <3> HIDE DEF buf
    <3>2. QED
      BY <3>1, <2>1, <2>3, ConcatProperties
  <2> HIDE DEF buf
  <2>5. ASSUME NEW j \in DOMAIN buf, buf[j].part # 0
        PROVE  buf[j].hdr \in Hs
    <3>1. j \in 1 .. Len(v.buf) + k /\ Len(v.buf) \in Nat
      BY <2>1, <2>4
    <3>2. CASE j <= Len(v.buf)
      BY <3>1, <3>2, <2>1, <2>4, <2>5
    <3>3. CASE j > Len(v.buf)
      <4>1. j - Len(v.buf) \in 1 .. k /\ j - Len(v.buf) \in DOMAIN cells
        BY <3>1, <3>3, <2>2
      <4>2. buf[j] = cells[j - Len(v.buf)]
        BY <3>1, <3>3, <4>1, <2>3, <2>4
      <4>3. QED
        BY <4>1, <4>2, <2>5
    <3>4. QED
      BY <3>1, <3>2, <3>3
  <2>6. w = IF k < BINARY_SIZE - v.n
              THEN [v EXCEPT !.buf = buf, !.n = v.n + k]
              ELSE [st |-> IF parsed.ok THEN "NeedMoreData" ELSE "Fail", buf |-> << >>,
                    n |-> k, hdr |-> parsed.hdr, hash |-> << >>]
    BY DEF CollectHeader, k, buf
  <2>7. parsed.ok => parsed.hdr \in Headers /\ parsed.hdr \in Hs
    <3> SUFFICES ASSUME parsed.ok
                 PROVE  parsed.hdr \in Headers /\ parsed.hdr \in Hs
      OBVIOUS
    <3>1. parsed.hdr = buf[1].hdr /\ buf[1].part = 1 /\ buf[1].hdr \in Headers
          /\ Len(buf) >= BINARY_SIZE
      BY <2>4, ParsedHeader
    <3>2. 1 \in DOMAIN buf
      BY <3>1, <2>4, BootAssumption
    <3>3. QED
      BY <3>1, <3>2, <2>5
  <2> HIDE DEF parsed
  <2>8. ValidatorOf(w, Hs)
    <3> HIDE DEF w
    <3>1. CASE k < BINARY_SIZE - v.n
      BY <3>1, <2>1, <2>2, <2>4, <2>5, <2>6, <1>1, BootAssumption DEF ValidatorOf
    <3>2. CASE ~ (k < BINARY_SIZE - v.n)
      <4>1. << >> \in Seq(FlashCells) /\ DOMAIN << >> = {}
        OBVIOUS
      <4>2. QED
        BY <3>2, <4>1, <2>2, <2>6, <2>7 DEF ValidatorOf
    <3>3. QED
      BY <3>1, <3>2
  <2>9. Update(v, cells) = IF w.st = "NeedMoreData" /\ k > 0 /\ k < Len(cells)
                             THEN HashData(w, SubSeq(cells, k + 1, Len(cells))) ELSE w
    BY <1>1 DEF Update, k
  <2> HIDE DEF w
  <2>10. SubSeq(cells, k + 1, Len(cells)) \in Seq(FlashCells)
    BY <2>2, SliceOf
  <2>11. QED
    BY <2>8, <2>9, <2>10, HashKeeps
<1>2. CASE v.st = "NeedMoreData"
  <2>1. Update(v, cells) = HashData(v, cells)
    BY <1>2 DEF Update
  <2>2. QED
    BY <1>2, <2>1, HashKeeps
<1>3. CASE v.st \notin {"Init", "NeedMoreData"}
  BY <1>3 DEF Update
<1>4. QED
  BY <1>1, <1>2, <1>3

(* The installed image is validated in one slice: one that may be started   *)
(* has its header in place, and its hash is that of the code after it.      *)
LEMMA ExistingIsHashed ==
  ASSUME NEW mem \in Seq(FlashCells), Len(mem) = RegionSize,
         NEW level, NEW version, Allowed(Update(NewValidator, mem), level, version)
  PROVE  LET h == mem[1].hdr
         IN  /\ \A i \in 1 .. BINARY_SIZE : mem[i].part = i /\ mem[i].hdr = h
             /\ mem[1].part = 1 /\ h \in Headers
             /\ Update(NewValidator, mem).hdr = h /\ Update(NewValidator, mem).st = "Complete"
             /\ h.dev = ThisDevice /\ h.level >= level /\ h.version >= version
             /\ h.level > 0 =>
                  /\ h.length >= BINARY_SIZE /\ h.length <= RegionSize
                  /\ h.tag = << >> \o <<AuthFields(h)>> \o SubSeq(SubSeq(mem, BINARY_SIZE + 1, RegionSize),
                                                        1, h.length - BINARY_SIZE)
<1> DEFINE buf == << >> \o SubSeq(mem, 1, BINARY_SIZE)
           parsed == TryFromBytes(buf)
           rest == SubSeq(mem, BINARY_SIZE + 1, RegionSize)
           w == CollectHeader(NewValidator, mem)
           h == mem[1].hdr
<1> USE BootAssumption
<1>1. Least(BINARY_SIZE - 0, Len(mem)) = BINARY_SIZE
  BY DEF Least
<1>2. w = [st |-> IF parsed.ok THEN "NeedMoreData" ELSE "Fail", buf |-> << >>,
           n |-> BINARY_SIZE, hdr |-> parsed.hdr, hash |-> << >>]
  BY <1>1 DEF CollectHeader, NewValidator
<1>3. Update(NewValidator, mem) = IF w.st = "NeedMoreData" /\ BINARY_SIZE < RegionSize
                           THEN HashData(w, rest) ELSE w
  <2> HIDE DEF w
  <2>1. NewValidator.st = "Init" /\ NewValidator.n = 0
    BY DEF NewValidator
  <2>2. Update(NewValidator, mem) =
          IF w.st = "NeedMoreData" /\ BINARY_SIZE > 0 /\ BINARY_SIZE < Len(mem)
            THEN HashData(w, SubSeq(mem, BINARY_SIZE + 1, Len(mem))) ELSE w
    BY <1>1, <2>1 DEF Update, w
  <2>3. QED
    BY <2>2
<1> HIDE DEF w, parsed
<1>4. Update(NewValidator, mem).st = "Complete"
  BY DEF Allowed
<1>5. parsed.ok /\ BINARY_SIZE < RegionSize /\ Update(NewValidator, mem) = HashData(w, rest)
      /\ w.st = "NeedMoreData" /\ w.n = BINARY_SIZE /\ w.hdr = parsed.hdr /\ w.hash = << >>
  BY <1>2, <1>3, <1>4
<1>6. /\ buf \in Seq(FlashCells)
      /\ \A i \in 1 .. BINARY_SIZE : buf[i] = mem[i]
  <2> DEFINE s == SubSeq(mem, 1, BINARY_SIZE)
  <2>1. /\ s \in Seq(FlashCells) /\ Len(s) = IF 1 <= BINARY_SIZE THEN BINARY_SIZE - 1 + 1 ELSE 0
        /\ \A i \in 1 .. Len(s) : s[i] = mem[1 + i - 1] /\ 1 + i - 1 \in 1 .. Len(mem)
    BY SliceOf
  <2> HIDE DEF s
  <2>2. Len(s) = BINARY_SIZE /\ \A i \in 1 .. BINARY_SIZE : 1 + i - 1 = i
    BY <2>1
  <2>3. buf = s
    BY <2>1, ConcatEmptySeq DEF s
  <2>4. QED
    BY <2>1, <2>2, <2>3
<1> HIDE DEF buf
<1>7. /\ \A i \in 1 .. BINARY_SIZE : mem[i].part = i /\ mem[i].hdr = h
      /\ mem[1].part = 1 /\ h \in Headers /\ parsed.hdr = h
      /\ h.level > 0 => h.length > 0
  <2>1. /\ \A i \in 1 .. BINARY_SIZE : buf[i].part = i /\ buf[i].hdr = buf[1].hdr
        /\ parsed.hdr = buf[1].hdr /\ buf[1].part = 1 /\ buf[1].hdr \in Headers
        /\ buf[1].hdr.level > 0 => buf[1].hdr.length > 0
    BY <1>5, <1>6, ParsedHeader DEF parsed
  <2>2. buf[1] = mem[1]
    BY <1>6
  <2>3. QED
    BY <2>1, <2>2, <1>6
<1>8. h.level \in 0 .. 2 /\ h.length \in Int
  BY <1>7, HeaderFields
<1>9. rest \in Seq(FlashCells) /\ Len(rest) = RegionSize - BINARY_SIZE
  <2>1. BINARY_SIZE + 1 \in Nat \ {0} /\ RegionSize \in Int /\ RegionSize <= Len(mem)
    OBVIOUS
  <2>2. /\ rest \in Seq(FlashCells)
        /\ Len(rest) = IF BINARY_SIZE + 1 <= RegionSize THEN RegionSize - (BINARY_SIZE + 1) + 1 ELSE 0
    BY <2>1, SliceOf
  <2>3. QED
    BY <2>2, <1>5
<1> HIDE DEF rest
<1> DEFINE k == Least(h.length - BINARY_SIZE, Len(rest))
           hash == << >> \o <<AuthFields(h)>> \o SubSeq(rest, 1, k)
<1>10. BINARY_SIZE = w.n /\ h = w.hdr /\ << >> = w.hash
  BY <1>5, <1>7
<1>11. HashData(w, rest) =
         IF h.level = 0 THEN [w EXCEPT !.st = "Complete"]
         ELSE IF BINARY_SIZE > h.length THEN [w EXCEPT !.st = "Fail"]
         ELSE [w EXCEPT !.n = BINARY_SIZE + k, !.hash = hash,
                        !.st = IF k = h.length - BINARY_SIZE THEN "Complete" ELSE "NeedMoreData"]
  BY <1>10 DEF HashData, k, hash
<1>12. DOMAIN w = {"st", "buf", "n", "hdr", "hash"}
  BY <1>2
<1>13. k = h.length - BINARY_SIZE => k <= RegionSize - BINARY_SIZE
  BY <1>8, <1>9 DEF Least
<1> HIDE DEF k, hash
<1>14. Update(NewValidator, mem).hdr = h
  BY <1>5, <1>7, <1>11, <1>12
<1>15. h.level > 0 => /\ h.length >= BINARY_SIZE /\ k = h.length - BINARY_SIZE
                      /\ Update(NewValidator, mem).hash = hash
  BY <1>4, <1>5, <1>8, <1>11, <1>12
<1>16. /\ h.dev = ThisDevice /\ h.level >= level /\ h.version >= version
       /\ h.level = 0 \/ h.tag = Update(NewValidator, mem).hash
  BY <1>14 DEF Allowed
<1>17. ASSUME h.level > 0
       PROVE  /\ h.length >= BINARY_SIZE /\ h.length <= RegionSize
              /\ h.tag = << >> \o <<AuthFields(h)>>
                          \o SubSeq(SubSeq(mem, BINARY_SIZE + 1, RegionSize),
                                    1, h.length - BINARY_SIZE)
  <2>1. h.length >= BINARY_SIZE /\ k = h.length - BINARY_SIZE /\ h.length <= RegionSize
    BY <1>8, <1>13, <1>15, <1>17
  <2>2. h.tag = hash
    BY <1>15, <1>16, <1>17
  <2>3. QED
    BY <2>1, <2>2 DEF hash, rest
<1> HIDE DEF h
<1>18. QED
  BY <1>4, <1>7, <1>14, <1>16, <1>17 DEF h

(* What is hashed after the fields of the header can be told from the hash. *)
LEMMA SameCode ==
  ASSUME NEW a, NEW c, NEW s \in Seq(FlashCells), NEW r \in Seq(FlashCells),
         <<a>> \o s = << >> \o <<c>> \o r
  PROVE  s = r
<1> DEFINE S == FlashCells \cup {a, c}
<1>1. s \in Seq(S) /\ r \in Seq(S) /\ <<a>> \in Seq(S) /\ <<c>> \in Seq(S)
  <2>1. FlashCells \subseteq S /\ a \in S /\ c \in S
    OBVIOUS
  <2> HIDE DEF S
  <2>2. QED
    BY <2>1
<1> HIDE DEF S
<1>2. << >> \o <<c>> = <<c>>
  BY <1>1, ConcatEmptySeq
<1>3. /\ Len(<<a>> \o s) = 1 + Len(s)
      /\ \A i \in 1 .. 1 + Len(s) : (<<a>> \o s)[i] = IF i <= 1 THEN <<a>>[i] ELSE s[i - 1]
  <2>1. Len(<<a>>) = 1
    OBVIOUS
  <2>2. QED
    BY <1>1, <2>1, ConcatProperties
<1>4. /\ Len(<<c>> \o r) = 1 + Len(r)
      /\ \A i \in 1 .. 1 + Len(r) : (<<c>> \o r)[i] = IF i <= 1 THEN <<c>>[i] ELSE r[i - 1]
  <2>1. Len(<<c>>) = 1
    OBVIOUS
  <2>2. QED
    BY <1>1, <2>1, ConcatProperties
<1> DEFINE x == <<a>> \o s
           y == <<c>> \o r
<1>5. x = y
  BY <1>2
<1>6. Len(s) = Len(r) /\ Len(s) \in Nat
  BY <1>3, <1>4, <1>5
<1> HIDE DEF x, y
<1>7. ASSUME NEW i \in 1 .. Len(s)
      PROVE  s[i] = r[i]
  <2>1. 1 + i \in 1 .. 1 + Len(s) /\ ~ (1 + i <= 1) /\ 1 + i - 1 = i
    BY <1>6
  <2>2. x[1 + i] = s[i]
    BY <2>1, <1>3 DEF x
  <2>3. y[1 + i] = r[i]
    BY <2>1, <1>4, <1>6 DEF y
  <2>4. QED
    BY <2>2, <2>3, <1>5
<1>8. QED
  BY <1>6, <1>7, SeqEqual

(* An installed image that may be started is a whole image of a build for   *)
(* this device and with the level that is required.                         *)
LEMMA ValidIsWhole ==
  ASSUME NEW mem \in Seq(FlashCells), Len(mem) = RegionSize,
         NEW level, NEW version, Allowed(Update(NewValidator, mem), level, version)
  PROVE  \E img \in Images :
           /\ img[1].hdr.level >= level /\ img[1].hdr.dev = ThisDevice
           /\ img[1].hdr.level > 0 => SubSeq(mem, 1, Len(img)) = img
           /\ mem[1] = img[1]
<1> DEFINE h == mem[1].hdr
           rest == SubSeq(mem, BINARY_SIZE + 1, RegionSize)
           code == SubSeq(rest, 1, h.length - BINARY_SIZE)
<1> USE BootAssumption
<1>1. /\ \A i \in 1 .. BINARY_SIZE : mem[i].part = i /\ mem[i].hdr = h
      /\ mem[1].part = 1 /\ h \in Headers
      /\ h.dev = ThisDevice /\ h.level >= level
      /\ h.level > 0 => /\ h.length >= BINARY_SIZE /\ h.length <= RegionSize
                       /\ h.tag = << >> \o <<AuthFields(h)>> \o code
  BY ExistingIsHashed
<1>2. /\ h.level \in 0 .. 2 /\ h.length \in Int
      /\ \/ \E b \in Builds : h = Header(b)
         \/ h.level = 2 /\ h.length = BINARY_SIZE - 1
  BY <1>1, HeaderFields
<1>3. PICK b \in Builds : h = Header(b)
  <2>1. ~ (h.level = 2 /\ h.length = BINARY_SIZE - 1)
    BY <1>1, <1>2
  <2>2. QED
    BY <1>2, <2>1
<1> DEFINE img == Image(b)
<1>4. /\ Body(b) \in Seq(CodeCells) /\ Len(Body(b)) = Len(b.body) /\ Len(b.body) \in Nat
      /\ img \in Seq(FlashCells)
      /\ Len(img) = BINARY_SIZE + Len(b.body) /\ Len(img) <= RegionSize
      /\ \A i \in 1 .. BINARY_SIZE : img[i] = [part |-> i, hdr |-> h, code |-> "header"]
      /\ \A i \in 1 .. Len(b.body) : img[BINARY_SIZE + i] = Body(b)[i]
  BY <1>3, ImageType DEF Candidate
<1>5. \A i \in 1 .. BINARY_SIZE : mem[i] = [part |-> i, hdr |-> h, code |-> "header"]
  <2> TAKE i \in 1 .. BINARY_SIZE
  <2>1. mem[i] \in FlashCells /\ mem[i].part = i /\ mem[i].hdr = h
    BY <1>1
  <2>2. mem[i] = [part |-> mem[i].part, hdr |-> mem[i].hdr, code |-> "header"]
    BY <2>1, HeaderCell
  <2>3. QED
    BY <2>1, <2>2
<1> HIDE DEF img, h
<1>6. mem[1] = img[1] /\ img[1].hdr = h
  <2>1. 1 \in 1 .. BINARY_SIZE
    OBVIOUS
  <2>2. img[1] = [part |-> 1, hdr |-> h, code |-> "header"]
    BY <2>1, <1>4
  <2>3. mem[1] = [part |-> 1, hdr |-> h, code |-> "header"]
    BY <2>1, <1>5
  <2>4. QED
    BY <2>2, <2>3
<1>7. ASSUME h.level > 0
      PROVE  SubSeq(mem, 1, Len(img)) = img
  <2>1. /\ h.length = BINARY_SIZE + Len(b.body)
        /\ h.tag = <<<<b.version, b.dev>>>> \o Body(b)
    <3>1. b.level # 0
      BY <1>3, <1>7 DEF Header
    <3>2. QED
      BY <1>3, <3>1 DEF Header
  <2>2. /\ rest \in Seq(FlashCells) /\ Len(rest) = RegionSize - BINARY_SIZE
        /\ \A i \in 1 .. Len(rest) : rest[i] = mem[BINARY_SIZE + i]
    <3>1. BINARY_SIZE + 1 \in Nat \ {0} /\ RegionSize \in Int /\ RegionSize <= Len(mem)
      OBVIOUS
    <3>2. /\ rest \in Seq(FlashCells)
          /\ Len(rest) = IF BINARY_SIZE + 1 <= RegionSize THEN RegionSize - (BINARY_SIZE + 1) + 1 ELSE 0
          /\ \A i \in 1 .. Len(rest) : rest[i] = mem[BINARY_SIZE + 1 + i - 1]
      BY <3>1, SliceOf
    <3> HIDE DEF rest
    <3>3. Len(rest) = RegionSize - BINARY_SIZE
      BY <3>2
    <3>4. \A i \in 1 .. Len(rest) : BINARY_SIZE + 1 + i - 1 = BINARY_SIZE + i
      BY <3>3
    <3>5. QED
      BY <3>2, <3>3, <3>4
  <2> HIDE DEF rest
  <2>3. /\ code \in Seq(FlashCells) /\ Len(code) = Len(b.body)
        /\ \A i \in 1 .. Len(b.body) : code[i] = mem[BINARY_SIZE + i]
    <3> DEFINE n == Len(b.body)
    <3>1. n \in Int /\ h.length - BINARY_SIZE = n /\ n <= Len(rest) /\ rest \in Seq(FlashCells)
      BY <2>1, <2>2, <1>4
    <3>2. code = SubSeq(rest, 1, n)
      BY <3>1
    <3> HIDE DEF n, code
    <3>3. /\ SubSeq(rest, 1, n) \in Seq(FlashCells)
          /\ Len(SubSeq(rest, 1, n)) = IF 1 <= n THEN n - 1 + 1 ELSE 0
          /\ \A i \in 1 .. Len(SubSeq(rest, 1, n)) :
               SubSeq(rest, 1, n)[i] = rest[1 + i - 1] /\ 1 + i - 1 \in 1 .. Len(rest)
      BY <3>1, SliceOf
    <3>4. /\ code \in Seq(FlashCells)
          /\ Len(code) = IF 1 <= n THEN n - 1 + 1 ELSE 0
          /\ \A i \in 1 .. Len(code) : code[i] = rest[1 + i - 1] /\ 1 + i - 1 \in 1 .. Len(rest)
      BY <3>2, <3>3
    <3>5. Len(code) = Len(b.body)
      BY <3>4, <1>4 DEF n
    <3>6. \A i \in 1 .. Len(b.body) : 1 + i - 1 = i
      BY <1>4
    <3>7. QED
      BY <2>2, <3>4, <3>5, <3>6
  <2>4. Body(b) \in Seq(FlashCells)
    BY <1>4 DEF FlashCells
  <2>5. Body(b) = code
    <3>1. <<<<b.version, b.dev>>>> \o Body(b) = << >> \o <<AuthFields(h)>> \o code
      BY <1>1, <1>7, <2>1 DEF h
    <3> HIDE DEF code
    <3>2. QED
      BY <3>1, <2>3, <2>4, SameCode
  <2> HIDE DEF code
  <2> DEFINE s == SubSeq(mem, 1, Len(img))
  <2>6. s \in Seq(FlashCells) /\ Len(s) = Len(img) /\ \A i \in 1 .. Len(img) : s[i] = mem[i]
    <3>1. Len(img) \in Nat /\ Len(img) <= Len(mem) /\ Len(img) >= 1
      BY <1>4
    <3>2. /\ s \in Seq(FlashCells) /\ Len(s) = IF 1 <= Len(img) THEN Len(img) - 1 + 1 ELSE 0
          /\ \A i \in 1 .. Len(s) : s[i] = mem[1 + i - 1]
      BY <3>1, SliceOf
    <3> HIDE DEF s
    <3>3. Len(s) = Len(img) /\ \A i \in 1 .. Len(img) : 1 + i - 1 = i
      BY <3>1, <3>2
    <3>4. QED
      BY <3>2, <3>3
  <2> HIDE DEF s
  <2>7. ASSUME NEW i \in 1 .. Len(img)
        PROVE  mem[i] = img[i]
    <3>1. CASE i \in 1 .. BINARY_SIZE
      BY <3>1, <1>4, <1>5
    <3>2. CASE i \notin 1 .. BINARY_SIZE
      <4>1. i - BINARY_SIZE \in 1 .. Len(b.body) /\ BINARY_SIZE + (i - BINARY_SIZE) = i
        BY <3>2, <1>4
      <4>2. img[i] = Body(b)[i - BINARY_SIZE]
        BY <4>1, <1>4
      <4>3. mem[i] = code[i - BINARY_SIZE]
        BY <4>1, <2>3
      <4>4. QED
        BY <4>2, <4>3, <2>5
    <3>3. QED
      BY <3>1, <3>2
  <2>8. s = img
    BY <2>6, <2>7, <1>4, SeqEqual
  <2>9. QED
    BY <2>8 DEF s
<1>8. img \in Images
  BY DEF Images, img
<1>9. QED
  BY <1>1, <1>6, <1>7, <1>8 DEF h

-----------------------------------------------------------------------------
(* The steps.                                                               *)

(* The headers of the candidate. *)
ExtHeaders == {h \in Headers : ExtHeader(h)}

(* The validator of the invariant follows the headers of the candidate. *)
LEMMA Follows ==
  /\ ValidatorFollows <=> (bpc = "validate" => ValidatorOf(val, ExtHeaders))
  /\ ValidatorFollows' <=> (bpc' = "validate" => ValidatorOf(val, ExtHeaders)')
<1>1. \A v : v \in Seq(FlashCells) => \A j \in DOMAIN v : v[j].part # 0 => v[j].hdr \in Headers
  <2> TAKE v
  <2> HAVE v \in Seq(FlashCells)
  <2> TAKE j \in DOMAIN v
  <2>1. v[j] \in FlashCells
    OBVIOUS
  <2>2. QED
    BY <2>1, HeaderCell
<1>2. QED
  BY <1>1 DEF ValidatorFollows, ValidatorOf, ExtHeaders

(* The validator starts with nothing. *)
LEMMA FreshValidator == \A Hs : ValidatorOf(NewValidator, Hs)
<1>1. << >> \in Seq(FlashCells) /\ DOMAIN << >> = {}
  OBVIOUS
<1>2. QED
  BY <1>1, BootAssumption DEF NewValidator, ValidatorOf

(* An update to the same memory leaves validity and the headers alone. *)
LEMMA SameMemory ==
  /\ UNCHANGED <<internal, min_security>> => (Valid' <=> Valid)
  /\ UNCHANGED ext => (\A h : ExtHeader(h)' <=> ExtHeader(h))
  /\ UNCHANGED ext => ExtHeaders' = ExtHeaders
BY DEF Valid, ValidateExisting, ExtHeader, ExtHeaders

(* An image that may be started begins with a header, as every step leaves it. *)
LEMMA ValidHasHeader ==
  ASSUME NEW mem \in Seq(FlashCells), Len(mem) = RegionSize, NEW level,
         Allowed(Update(NewValidator, mem), level, 0)
  PROVE  /\ mem[1].part = 1 /\ mem[1].hdr \in Headers /\ mem[1].hdr.version \in Nat
         /\ Update(NewValidator, mem).hdr = mem[1].hdr
BY ExistingIsHashed, HeaderFields

(* A step that changes no memory and starts nothing new. *)
LEMMA QuietStep ==
  ASSUME BootInv, UNCHANGED <<internal, ext, min_security, newest>>, frag' \in Nat,
         bpc' \in {"boot", "validate", "erase", "failed", "bricked"},
         bpc' = "validate" => ValidatorOf(val, ExtHeaders)',
         bpc' = "erase" => \A h \in Headers : ExtHeader(h) => h.version >= newest
  PROVE  BootInv'
<1>1. BootTypeOK'
  BY DEF BootInv, BootTypeOK
<1>2. OneCandidate'
  BY SameMemory DEF BootInv, OneCandidate
<1>3. ValidatorFollows'
  BY Follows
<1>4. InstalledIsNew' /\ CandidateIsNew'
  BY SameMemory DEF BootInv, InstalledIsNew, CandidateIsNew
<1>5. CopyIsNew' /\ RunningIsValid'
  BY DEF CopyIsNew, RunningIsValid
<1>6. QED
  BY <1>1, <1>2, <1>3, <1>4, <1>5 DEF BootInv

(* The installed image is started. *)
LEMMA StartStep ==
  ASSUME BootInv, Valid, StartApplication(internal), UNCHANGED <<internal, ext, min_security>>,
         frag' \in Nat
  PROVE  BootInv'
<1>1. bpc' = "running" /\ newest' = IF internal[1].hdr.version > newest
                                     THEN internal[1].hdr.version ELSE newest
  BY DEF StartApplication
<1>2. internal[1].hdr.version \in Nat /\ internal[1].hdr.version >= newest /\ newest \in Nat
  BY ValidHasHeader DEF BootInv, BootTypeOK, InstalledIsNew, Valid, ValidateExisting
<1>3. newest' = internal[1].hdr.version
  BY <1>1, <1>2
<1>4. BootTypeOK' /\ OneCandidate'
  BY <1>1, <1>2, <1>3, SameMemory DEF BootInv, BootTypeOK, OneCandidate
<1>5. Valid'
  BY SameMemory
<1>6. ValidatorFollows' /\ CopyIsNew' /\ RunningIsValid' /\ CandidateIsNew'
  BY <1>1, <1>5 DEF ValidatorFollows, CopyIsNew, RunningIsValid, CandidateIsNew
<1>7. InstalledIsNew'
  BY <1>2, <1>3 DEF InstalledIsNew
<1>8. QED
  BY <1>4, <1>6, <1>7 DEF BootInv

(* validate_update begins: the installed image is started or the candidate  *)
(* is validated.                                                            *)
LEMMA BootKept ==
  ASSUME BootInv, Boot
  PROVE  BootInv'
<1>1. PICK fault \in BOOLEAN, old \in {ValidateExisting} :
        IF /\ Allowed(old, min_security, 0)
           /\ NewHeader(~fault).ok /\ NewHeader(~fault).hdr = old.hdr
          THEN StartApplication(internal) ELSE bpc' = "validate" /\ UNCHANGED newest
  BY DEF Boot
<1>2. frag' = 0 /\ val' = NewValidator /\ UNCHANGED <<internal, ext, min_security>>
  BY DEF Boot
<1>3. CASE Valid /\ StartApplication(internal)
  BY <1>2, <1>3, StartStep
<1>4. CASE bpc' = "validate" /\ UNCHANGED newest
  <2>1. ValidatorOf(val, ExtHeaders)'
    BY <1>2, FreshValidator
  <2>2. QED
    BY <1>2, <1>4, <2>1, QuietStep
<1>5. QED
  BY <1>1, <1>3, <1>4 DEF Valid

(* The next slice of the candidate is validated. *)
LEMMA ValidateFragmentKept ==
  ASSUME BootInv, ValidateFragment
  PROVE  BootInv'
<1>1. /\ bpc = "validate" /\ bpc' = "validate" /\ frag \in Nat /\ frag < Len(ext)
      /\ ext \in Seq(Seq(FlashCells)) /\ Len(ext) \in Nat
      /\ UNCHANGED <<internal, ext, min_security, newest>>
  BY DEF ValidateFragment, BootInv, BootTypeOK
<1>2. frag + 1 \in DOMAIN ext /\ ext[frag + 1] \in Seq(FlashCells)
  BY <1>1
<1>3. \A j \in DOMAIN ext[frag + 1] :
        ext[frag + 1][j].part # 0 => ext[frag + 1][j].hdr \in ExtHeaders
  <2> TAKE j \in DOMAIN ext[frag + 1]
  <2> HAVE ext[frag + 1][j].part # 0
  <2>1. ext[frag + 1][j] \in FlashCells
    BY <1>2
  <2>2. ext[frag + 1][j].hdr \in Headers
    BY <2>1, HeaderCell
  <2>3. QED
    BY <2>2, <1>2 DEF ExtHeaders, ExtHeader
<1>4. ValidatorOf(val, ExtHeaders)
  BY <1>1, Follows DEF BootInv
<1>5. ValidatorOf(Update(val, ext[frag + 1]), ExtHeaders)
  BY <1>2, <1>3, <1>4, UpdateKeeps
<1>6. /\ val' = val \/ val' = Update(val, ext[frag + 1])
      /\ frag' \in Nat
  BY <1>1 DEF ValidateFragment
<1>7. ValidatorOf(val, ExtHeaders)'
  BY <1>1, <1>4, <1>5, <1>6, SameMemory
<1>8. QED
  BY <1>1, <1>6, <1>7, QuietStep

(* An update is decided on: the candidate is not older than the image that  *)
(* it replaces, or there was none to compare with and the candidate is the  *)
(* one that was decided on before.                                          *)
LEMMA DecideKept ==
  ASSUME BootInv, Decide
  PROVE  BootInv'
<1> DEFINE old == ValidateExisting
           update == Allowed(val, 2, IF Valid THEN old.hdr.version ELSE 0)
<1>1. /\ bpc = "validate" /\ frag' = 0
      /\ UNCHANGED <<internal, ext, min_security>>
      /\ \/ Valid /\ StartApplication(internal)
         \/ update /\ bpc' = "erase" /\ UNCHANGED newest
         \/ bpc' = "bricked" /\ UNCHANGED newest
  BY DEF Decide, Valid
<1>2. CASE Valid /\ StartApplication(internal)
  BY <1>1, <1>2, StartStep
<1>3. CASE bpc' = "bricked" /\ UNCHANGED newest
  BY <1>1, <1>3, QuietStep
<1>4. CASE update /\ bpc' = "erase" /\ UNCHANGED newest
  <2>1. ASSUME NEW h \in Headers, ExtHeader(h)
        PROVE  h.version >= newest
    <3>1. CASE ~ Valid
      BY <2>1, <3>1 DEF BootInv, CandidateIsNew
    <3>2. CASE Valid
      <4>1. val.st = "Complete" /\ val.hdr.version >= old.hdr.version
        BY <1>4, <3>2 DEF Allowed
      <4>2. val.hdr \in Headers /\ ExtHeader(val.hdr)
        BY <1>1, <4>1 DEF BootInv, ValidatorFollows
      <4>3. h = val.hdr
        BY <2>1, <4>2 DEF BootInv, OneCandidate
      <4>4. old.hdr = internal[1].hdr /\ internal[1].hdr.version \in Nat
        BY <3>2, ValidHasHeader DEF BootInv, BootTypeOK, Valid, ValidateExisting
      <4>5. internal[1].hdr.version >= newest /\ newest \in Nat
        BY <3>2 DEF BootInv, BootTypeOK, InstalledIsNew
      <4>6. h.version \in Nat
        BY HeaderFields
      <4>7. QED
        BY <4>1, <4>3, <4>4, <4>5, <4>6
    <3>3. QED
      BY <3>1, <3>2
  <2>2. QED
    BY <1>1, <1>4, <2>1, QuietStep
<1>5. QED
  BY <1>1, <1>2, <1>3, <1>4

(* Erasing from the front: an image that lost its first cell is invalid, and *)
(* the candidate that replaces it is known to be new.                        *)
LEMMA EraseKept ==
  ASSUME BootInv, EraseApplication
  PROVE  BootInv'
<1> USE BootAssumption
<1>1. PICK n \in 0 .. RegionSize :
        /\ internal' = [i \in 1 .. RegionSize |-> IF i <= n THEN Erased ELSE internal[i]]
        /\ IF n < RegionSize THEN bpc' = "boot" ELSE bpc' = "copy"
  BY DEF EraseApplication
<1>2. /\ bpc = "erase" /\ frag' = 0 /\ UNCHANGED <<ext, min_security, newest>>
      /\ internal \in Seq(FlashCells) /\ Len(internal) = RegionSize
  BY DEF EraseApplication, BootInv, BootTypeOK
<1>3. Erased \in FlashCells /\ Erased.part = 0
  BY OtherCode DEF Erased
<1>4. internal' \in Seq(FlashCells) /\ Len(internal') = RegionSize
  <2>1. \A i \in 1 .. RegionSize : (IF i <= n THEN Erased ELSE internal[i]) \in FlashCells
    BY <1>2, <1>3
  <2>2. QED
    BY <1>1, <2>1
<1>5. BootTypeOK' /\ OneCandidate'
  <2>1. BootTypeOK'
    BY <1>1, <1>2, <1>4 DEF BootInv, BootTypeOK
  <2>2. OneCandidate'
    BY <1>2, SameMemory DEF BootInv, OneCandidate
  <2>3. QED
    BY <2>1, <2>2
<1>6. ValidatorFollows' /\ RunningIsValid'
  BY <1>1 DEF ValidatorFollows, RunningIsValid
<1>7. CandidateIsNew'
  BY <1>2, SameMemory DEF BootInv, CandidateIsNew
<1>8. CopyIsNew'
  <2>1. bpc' = "copy" => n = RegionSize
    BY <1>1
  <2>2. bpc' = "copy" => \A i \in 1 .. RegionSize : internal'[i] = Erased
    BY <1>1, <2>1
  <2>3. QED
    BY <2>2, <1>3 DEF CopyIsNew
<1>9. InstalledIsNew'
  <2>1. CASE n = 0
    <3>1. \A i \in 1 .. RegionSize : internal'[i] = internal[i]
      BY <1>1, <2>1
    <3>2. internal' = internal
      BY <1>2, <1>4, <3>1, SeqEqual
    <3>3. QED
      BY <1>2, <3>2, SameMemory DEF BootInv, InstalledIsNew
  <2>2. CASE n > 0
    <3>1. internal'[1].part = 0
      BY <1>1, <1>3, <2>2
    <3>2. ~ Valid'
      BY <1>4, <3>1, ValidHasHeader DEF Valid, ValidateExisting
    <3>3. QED
      BY <3>2 DEF InstalledIsNew
  <2>3. QED
    BY <2>1, <2>2
<1>10. QED
  BY <1>5, <1>6, <1>7, <1>8, <1>9 DEF BootInv

(* Copying: what is in the region comes from the candidate, also when       *)
(* fragments are skipped and when the copy is interrupted.                  *)
LEMMA CopyKept ==
  ASSUME BootInv, CopyFragment
  PROVE  BootInv'
<1> USE BootAssumption
<1> DEFINE chunk == ext[frag + 1]
<1>1. /\ bpc = "copy" /\ frag < Len(ext) /\ UNCHANGED <<ext, min_security, newest>>
      /\ internal \in Seq(FlashCells) /\ Len(internal) = RegionSize
      /\ frag \in Nat /\ ext \in Seq(Seq(FlashCells)) /\ newest \in Nat
  BY DEF CopyFragment, BootInv, BootTypeOK
<1>2. frag + 1 \in DOMAIN ext /\ chunk \in Seq(FlashCells)
  BY <1>1
<1>3. PICK pos \in 0 .. RegionSize :
        \/ /\ pos + Len(chunk) <= RegionSize
           /\ internal' = [i \in 1 .. RegionSize |->
                             IF i \in pos + 1 .. pos + Len(chunk)
                               THEN chunk[i - pos] ELSE internal[i]]
           /\ frag' = frag + 1 /\ bpc' = bpc
        \/ frag' = frag + 1 /\ UNCHANGED <<internal, bpc>>
        \/ bpc' = "failed" /\ frag' = 0 /\ UNCHANGED internal
  BY DEF CopyFragment
<1>4. CASE bpc' = "failed" /\ frag' = 0 /\ UNCHANGED internal
  BY <1>1, <1>4, QuietStep
<1>5. \A h \in Headers : ExtHeader(h) => h.version >= newest
  BY <1>1 DEF BootInv, CandidateIsNew
<1>6. \A j \in DOMAIN chunk : chunk[j].part # 0 => chunk[j].hdr.version >= newest
  <2> TAKE j \in DOMAIN chunk
  <2> HAVE chunk[j].part # 0
  <2>1. chunk[j] \in FlashCells
    BY <1>2
  <2>2. chunk[j].hdr \in Headers
    BY <2>1, HeaderCell
  <2>3. ExtHeader(chunk[j].hdr)
    BY <1>2 DEF ExtHeader
  <2>4. QED
    BY <1>5, <2>2, <2>3
<1>7. \A i \in 1 .. RegionSize : internal[i].part # 0 => internal[i].hdr.version >= newest
  BY <1>1 DEF BootInv, CopyIsNew
<1>8. CASE frag' = frag + 1 /\ bpc' = "copy" /\ internal' \in Seq(FlashCells) /\ Len(internal') = RegionSize
           /\ \A i \in 1 .. RegionSize : internal'[i].part # 0 => internal'[i].hdr.version >= newest
  <2>1. BootTypeOK' /\ OneCandidate'
    <3>1. BootTypeOK'
      BY <1>1, <1>8 DEF BootInv, BootTypeOK
    <3>2. OneCandidate'
      BY <1>1, SameMemory DEF BootInv, OneCandidate
    <3>3. QED
      BY <3>1, <3>2
  <2>2. ValidatorFollows' /\ RunningIsValid' /\ CopyIsNew'
    BY <1>1, <1>8 DEF ValidatorFollows, RunningIsValid, CopyIsNew
  <2>3. CandidateIsNew'
    BY <1>1, <1>5, SameMemory DEF CandidateIsNew
  <2>4. InstalledIsNew'
    <3>1. Valid' => internal'[1].part = 1
      BY <1>8, ValidHasHeader DEF Valid, ValidateExisting
    <3>2. 1 \in 1 .. RegionSize /\ newest' = newest
      BY <1>1
    <3>3. internal'[1].part = 1 => internal'[1].hdr.version >= newest'
      BY <1>8, <3>2
    <3>4. QED
      BY <3>1, <3>3 DEF InstalledIsNew
  <2>5. QED
    BY <2>1, <2>2, <2>3, <2>4 DEF BootInv
<1>9. CASE frag' = frag + 1 /\ UNCHANGED <<internal, bpc>>
  BY <1>1, <1>7, <1>8, <1>9
<1>10. CASE /\ internal' = [i \in 1 .. RegionSize |->
                             IF i \in pos + 1 .. pos + Len(chunk)
                               THEN chunk[i - pos] ELSE internal[i]]
            /\ frag' = frag + 1 /\ bpc' = bpc
  <2> HIDE DEF chunk
  <2>1. ASSUME NEW i \in 1 .. RegionSize, i \in pos + 1 .. pos + Len(chunk)
        PROVE  i - pos \in DOMAIN chunk /\ chunk[i - pos] \in FlashCells
    BY <1>2, <2>1
  <2>2. ASSUME NEW i \in 1 .. RegionSize
        PROVE  /\ internal'[i] \in FlashCells
               /\ internal'[i].part # 0 => internal'[i].hdr.version >= newest
    <3>1. CASE i \in pos + 1 .. pos + Len(chunk)
      BY <1>6, <1>10, <2>1, <3>1
    <3>2. CASE i \notin pos + 1 .. pos + Len(chunk)
      BY <1>1, <1>7, <1>10, <3>2
    <3>3. QED
      BY <3>1, <3>2
  <2>3. internal' \in Seq(FlashCells) /\ Len(internal') = RegionSize
    BY <1>10, <2>2
  <2>4. QED
    BY <1>1, <1>8, <1>10, <2>2, <2>3
<1>11. QED
  BY <1>3, <1>4, <1>9, <1>10

(* What was copied is verified before it is started. *)
LEMMA VerifyKept ==
  ASSUME BootInv, VerifyUpdate
  PROVE  BootInv'
<1>1. /\ frag' = 0 /\ UNCHANGED <<internal, ext, min_security>>
      /\ IF Allowed(ValidateExisting, 2, 0) THEN StartApplication(internal)
         ELSE bpc' = "failed" /\ UNCHANGED newest
  BY DEF VerifyUpdate
<1>2. CASE Allowed(ValidateExisting, 2, 0)
  <2>1. internal \in Seq(FlashCells) /\ Len(internal) = RegionSize /\ min_security \in {0, 2}
    BY DEF BootInv, BootTypeOK
  <2>2. ValidateExisting.hdr.level \in 0 .. 2
    BY <1>2, <2>1, ValidHasHeader, HeaderFields DEF ValidateExisting
  <2>3. Valid
    BY <1>2, <2>1, <2>2 DEF Valid, Allowed
  <2>4. QED
    BY <1>1, <1>2, <2>3, StartStep
<1>3. CASE ~ Allowed(ValidateExisting, 2, 0)
  BY <1>1, <1>3, QuietStep
<1>4. QED
  BY <1>2, <1>3

(* The application stores a new candidate. It is valid itself, so that the  *)
(* candidate will be compared with it.                                      *)
LEMMA DownloadKept ==
  ASSUME BootInv, Download
  PROVE  BootInv'
<1>1. /\ bpc = "running" /\ bpc' = "boot"
      /\ UNCHANGED <<internal, val, min_security, frag, newest>>
  BY DEF Download
<1>2. PICK img, n : img \in Images \cup Damaged /\ ext' = Fragments(img, n)
  BY DEF Download
<1>3. PICK h : Candidate(img, h)
  BY <1>2, StoredIsCandidate
<1>4. /\ ext' \in Seq(Seq(FlashCells))
      /\ \A f \in DOMAIN ext' : \A j \in DOMAIN ext'[f] : ext'[f][j].part # 0 => ext'[f][j].hdr = h
  BY <1>2, <1>3, FragmentsOf
<1>5. OneCandidate'
  BY <1>4 DEF OneCandidate, ExtHeader
<1>6. BootTypeOK'
  BY <1>1, <1>4 DEF BootInv, BootTypeOK
<1>7. Valid /\ Valid'
  BY <1>1, SameMemory DEF BootInv, RunningIsValid
<1>8. ValidatorFollows' /\ RunningIsValid' /\ CopyIsNew' /\ CandidateIsNew' /\ InstalledIsNew'
  BY <1>1, <1>7 DEF BootInv, ValidatorFollows, RunningIsValid, CopyIsNew, CandidateIsNew, InstalledIsNew
<1>9. QED
  BY <1>5, <1>6, <1>8 DEF BootInv

(* The region with an image in it. *)
LEMMA InstalledType ==
  ASSUME NEW img \in Seq(FlashCells), Len(img) <= RegionSize
  PROVE  Installed(img) \in Seq(FlashCells) /\ Len(Installed(img)) = RegionSize
<1> DEFINE pad == [i \in 1 .. RegionSize - Len(img) |-> Erased]
<1>1. RegionSize - Len(img) \in Nat /\ Erased \in FlashCells
  BY BootAssumption, OtherCode DEF Erased
<1>2. pad \in Seq(FlashCells) /\ Len(pad) = RegionSize - Len(img)
  BY <1>1
<1>3. Installed(img) = img \o pad
  BY DEF Installed
<1> HIDE DEF pad
<1>4. QED
  BY <1>2, <1>3, ConcatProperties, BootAssumption

(* A device as it leaves the factory. *)
LEMMA InitKept ==
  ASSUME BootInit
  PROVE  BootInv
<1>1. bpc = "boot" /\ frag = 0 /\ newest = 0 /\ min_security \in {0, 2}
  BY DEF BootInit
<1>2. PICK img, inst, n :
        /\ img \in Images
        /\ internal = Installed(inst) /\ inst \in {img, << >>}
        /\ ext = Fragments(img, n)
  BY DEF BootInit
<1>3. PICK h : Candidate(img, h)
  BY <1>2, StoredIsCandidate
<1>4. /\ ext \in Seq(Seq(FlashCells))
      /\ \A f \in DOMAIN ext : \A j \in DOMAIN ext[f] : ext[f][j].part # 0 => ext[f][j].hdr = h
  BY <1>2, <1>3, FragmentsOf
<1>5. inst \in Seq(FlashCells) /\ Len(inst) <= RegionSize
  <2>1. img \in Seq(FlashCells) /\ Len(img) <= RegionSize
    BY <1>2, ImageType DEF Images, Candidate
  <2>2. << >> \in Seq(FlashCells) /\ Len(<< >>) <= RegionSize
    BY BootAssumption
  <2>3. QED
    BY <1>2, <2>1, <2>2
<1>6. internal \in Seq(FlashCells) /\ Len(internal) = RegionSize
  BY <1>2, <1>5, InstalledType
<1>7. BootTypeOK
  BY <1>1, <1>4, <1>6 DEF BootTypeOK
<1>8. OneCandidate
  BY <1>4 DEF OneCandidate, ExtHeader
<1>9. ValidatorFollows /\ CopyIsNew /\ RunningIsValid
  BY <1>1 DEF ValidatorFollows, CopyIsNew, RunningIsValid
<1>10. InstalledIsNew
  BY <1>1, <1>6, ValidHasHeader DEF InstalledIsNew, Valid, ValidateExisting
<1>11. CandidateIsNew
  BY <1>1, HeaderFields DEF CandidateIsNew
<1>12. QED
  BY <1>7, <1>8, <1>9, <1>10, <1>11 DEF BootInv

(* Every step keeps the invariant, power cuts at any place included. *)
LEMMA BootStepKept ==
  ASSUME BootInv, [BootNext]_bootVars
  PROVE  BootInv'
<1>1. CASE Retry
  <2>1. /\ bpc' = "boot" /\ UNCHANGED <<internal, ext, min_security, frag, newest>>
    BY <1>1 DEF Retry
  <2>2. frag' \in Nat
    BY <2>1 DEF BootInv, BootTypeOK
  <2>3. QED
    BY <2>1, <2>2, QuietStep
<1>2. CASE PowerLoss
  BY <1>2, QuietStep DEF PowerLoss
<1>3. CASE UNCHANGED bootVars
  BY <1>3, SameMemory
     DEF bootVars, BootInv, BootTypeOK, OneCandidate, ValidatorFollows, InstalledIsNew,
         CandidateIsNew, CopyIsNew, RunningIsValid
<1>4. QED
  BY <1>1, <1>2, <1>3, BootKept, ValidateFragmentKept, DecideKept, EraseKept, CopyKept,
     VerifyKept, DownloadKept
     DEF BootNext, BootStep

(* The boot loader is safe for every set of builds, every size and any      *)
(* number of failed reads, failed writes and power cuts: what it starts is  *)
(* a whole image of a build for this device, at the level that is required, *)
(* and never an older version than one that ran before, not even when the   *)
(* update was interrupted after the old image was erased.                   *)
THEOREM BootsSafely == BootSpec => []BootIsSafe
<1>1. BootInit => BootInv
  BY InitKept
<1>2. BootInv /\ [BootNext]_bootVars => BootInv'
  BY BootStepKept
<1>3. BootInv => BootIsSafe
  <2> SUFFICES ASSUME BootInv, bpc = "running"
               PROVE  BootIsSafe
    BY DEF BootIsSafe, RunsWholeImage, NoDowngrade
  <2>1. /\ internal \in Seq(FlashCells) /\ Len(internal) = RegionSize
        /\ Allowed(Update(NewValidator, internal), min_security, 0)
        /\ internal[1].hdr.version >= newest
    BY DEF BootInv, BootTypeOK, RunningIsValid, InstalledIsNew, Valid, ValidateExisting
  <2>2. RunsWholeImage
    BY <2>1, ValidIsWhole DEF RunsWholeImage
  <2>3. QED
    BY <2>1, <2>2 DEF BootIsSafe, NoDowngrade
<1>4. QED
  BY <1>1, <1>2, <1>3, PTL DEF BootSpec

-----------------------------------------------------------------------------
(* boot_stats.rs *)

(* The types of the registers and of the two histories. *)
StatTypeOK ==
  /\ regs \in [Cells -> [count : Nat, flag : BOOLEAN]]
  /\ booting \in {"up", "reset", "counting"} /\ fallback \in Fallbacks
  /\ owed \in [Causes -> Nat] /\ streak \in [Reasons -> Nat]

(* A flag that is set is a cause that still has to be reported. *)
FlagsAreOwed == \A c \in Causes : regs[c].flag => owed[c] >= 1

(* Both uptime registers have lost their magic: the next boot starts all counters anew. *)
AllLost == booting = "reset" /\ ~regs["total"].flag /\ ~regs["current"].flag

(* A counter is never behind the reports of its reason; the counter of boots is one *)
(* ahead while a boot is being counted.                                             *)
CountersKeepUp ==
  \/ AllLost
  \/ /\ \A c \in Causes : streak[c] <= regs[c].count
     /\ \A f \in Fallbacks : streak[f] + (IF booting = "counting" THEN 1 ELSE 0) <= regs["boot"].count

StatInv == StatTypeOK /\ FlagsAreOwed /\ CountersKeepUp /\ LoopIsNoticed

LEMMA ZeroStat ==
  /\ Zero \in [Cells -> [count : Nat, flag : BOOLEAN]]
  /\ \A c \in Causes : ~Zero[c].flag /\ Zero[c].count = 0
  /\ Zero["boot"].count = 0 /\ Zero["total"].flag /\ Zero["current"].flag
  /\ NoStreak \in [Reasons -> Nat] /\ \A r \in Reasons : NoStreak[r] = 0
<1>1. \A c \in Cells : Zero[c].count = 0 /\ (Zero[c].flag <=> c \in {"total", "current"})
  BY DEF Zero
<1>2. Zero \in [Cells -> [count : Nat, flag : BOOLEAN]]
  BY DEF Zero
<1>3. NoStreak \in [Reasons -> Nat] /\ \A r \in Reasons : NoStreak[r] = 0
  BY DEF NoStreak
<1>4. \A c \in Causes : ~Zero[c].flag /\ Zero[c].count = 0
  BY <1>1 DEF Cells, Causes
<1>5. Zero["boot"].count = 0 /\ Zero["total"].flag /\ Zero["current"].flag
  BY <1>1 DEF Cells
<1>6. QED BY <1>2, <1>3, <1>4, <1>5

LEMMA SaturateStat ==
  ASSUME NEW n \in Nat
  PROVE  /\ Saturate(n) \in Nat /\ Saturate(n) <= n
         /\ Saturate(n) >= n \/ \A r \in Reasons : LoopLimit[r] < Saturate(n)
BY StatAssumption DEF Saturate

LEMMA StatInitKept == StatInit => StatInv
BY ZeroStat, StatAssumption DEF StatInit, StatInv, StatTypeOK, FlagsAreOwed, CountersKeepUp, LoopIsNoticed, Fallbacks, Cells, Causes, Reasons

LEMMA CountUptimeKept == StatInv /\ CountUptime => StatInv'
<1> SUFFICES ASSUME StatInv, CountUptime PROVE StatInv'
  OBVIOUS
<1> USE DEF StatInv, StatTypeOK
<1>1. Saturate(regs["current"].count + 1) \in Nat
  BY SaturateStat DEF Cells
<1>2. /\ regs' \in [Cells -> [count : Nat, flag : BOOLEAN]]
      /\ \A c \in Causes \cup {"boot"} : regs'[c] = regs[c]
  BY <1>1 DEF CountUptime, IncrementBy, Cells, Causes
<1>3. QED
  BY <1>2 DEF CountUptime, FlagsAreOwed, CountersKeepUp, LoopIsNoticed, AllLost, Cells, Causes

LEMMA ResetKept == ASSUME NEW cs \in SUBSET Causes, NEW other \in Fallbacks
                   PROVE  StatInv /\ Reset(cs, other) => StatInv'
<1> SUFFICES ASSUME StatInv, Reset(cs, other) PROVE StatInv'
  OBVIOUS
<1> USE DEF StatInv, StatTypeOK
<1>1. /\ regs' \in [Cells -> [count : Nat, flag : BOOLEAN]]
      /\ \A c \in Cells : regs'[c].count = regs[c].count
      /\ \A c \in Cells : regs'[c].flag => regs[c].flag \/ c \in cs
      /\ \A c \in {"total", "current"} : regs'[c].flag = regs[c].flag
  BY DEF Reset, SetFlag, Cells, Causes
<1>2. /\ owed' \in [Causes -> Nat]
      /\ \A c \in Causes : owed'[c] >= owed[c] /\ (c \in cs => owed'[c] >= 1)
  BY DEF Reset
<1>3. FlagsAreOwed'
  BY <1>1, <1>2 DEF FlagsAreOwed, Cells
<1>4. CountersKeepUp'
  <2>1. CASE AllLost
    BY <2>1, <1>1 DEF Reset, CountersKeepUp, AllLost
  <2>2. CASE ~AllLost
    BY <2>2, <1>1 DEF Reset, CountersKeepUp, Cells, Fallbacks, Reasons
  <2>3. QED BY <2>1, <2>2
<1>5. QED
  BY <1>1, <1>2, <1>3, <1>4 DEF Reset, LoopIsNoticed

LEMMA LoseKept == ASSUME NEW cs \in {Cells, {"current"}, {"total"}}
                  PROVE  StatInv /\ LoseRegisters(cs) => StatInv'
<1> SUFFICES ASSUME StatInv, LoseRegisters(cs) PROVE StatInv'
  OBVIOUS
<1> USE DEF StatInv, StatTypeOK
<1>1. /\ regs' \in [Cells -> [count : Nat, flag : BOOLEAN]]
      /\ \A c \in Cells : regs'[c] = IF c \in cs THEN [count |-> 0, flag |-> FALSE] ELSE regs[c]
  BY DEF LoseRegisters
<1>2. FlagsAreOwed'
  BY <1>1 DEF FlagsAreOwed, LoseRegisters, Cells
<1>3. CountersKeepUp'
  <2>1. CASE cs = Cells
    BY <2>1, <1>1 DEF LoseRegisters, CountersKeepUp, AllLost, Cells
  <2>2. CASE cs # Cells
    <3>1. \A c \in Causes \cup {"boot"} : regs'[c] = regs[c]
      BY <2>2, <1>1 DEF Cells, Causes
    <3>2. AllLost => AllLost'
      BY <2>2, <1>1 DEF AllLost, LoseRegisters, Cells
    <3>3. QED
      BY <3>1, <3>2 DEF LoseRegisters, CountersKeepUp
  <2>3. QED BY <2>1, <2>2
<1>4. QED
  BY <1>1, <1>2, <1>3 DEF LoseRegisters, LoopIsNoticed

LEMMA AddUptimeKept == StatInv /\ AddUptime => StatInv'
<1> SUFFICES ASSUME StatInv, AddUptime PROVE StatInv'
  OBVIOUS
<1> USE DEF StatInv, StatTypeOK
<1> DEFINE corrupt == {c \in {"total", "current"} : ~regs[c].flag}
           many == Cardinality(corrupt) > 1
           valid == IF many THEN Zero
                    ELSE [c \in Cells |-> IF c \in corrupt THEN [count |-> 0, flag |-> TRUE]
                                          ELSE regs[c]]
           summed == IncrementBy(valid, "total", valid["current"].count)
           reset == [summed EXCEPT !["current"].count = 0]
<1>1. /\ regs' = IncrementBy(reset, "boot", 1)
      /\ streak' = IF many THEN NoStreak ELSE streak
      /\ booting = "reset" /\ booting' = "counting"
      /\ UNCHANGED <<fallback, reported, owed, boots, losses>>
  BY DEF AddUptime
<1>2. AllLost => many
  <2> SUFFICES ASSUME AllLost PROVE many
    OBVIOUS
  <2>1. corrupt = {"total", "current"}
    BY DEF AllLost
  <2>2. Cardinality({"total", "current"}) = 2
    <3>1. IsFiniteSet({"total"}) /\ Cardinality({"total"}) = 1
      BY FS_Singleton
    <3>2. Cardinality({"total"} \cup {"current"}) = Cardinality({"total"}) + 1
      BY <3>1, FS_AddElement
    <3>3. {"total"} \cup {"current"} = {"total", "current"}
      OBVIOUS
    <3>4. QED BY <3>1, <3>2, <3>3
  <2>3. Cardinality(corrupt) = 2
    BY <2>1, <2>2, Zenon
  <2> HIDE DEF corrupt
  <2>4. QED BY <2>3
<1>3. /\ valid \in [Cells -> [count : Nat, flag : BOOLEAN]]
      /\ \A c \in Causes : valid[c].flag => regs[c].flag
      /\ ~many => \A c \in Causes \cup {"boot"} : valid[c] = regs[c]
      /\ many => \A c \in Causes : valid[c].count = 0
  <2>1. CASE many
    BY <2>1, ZeroStat
  <2>2. CASE ~many
    BY <2>2 DEF Cells, Causes
  <2>3. QED BY <2>1, <2>2
<1> HIDE DEF many, valid, corrupt
<1>4. /\ reset \in [Cells -> [count : Nat, flag : BOOLEAN]]
      /\ \A c \in Causes \cup {"boot"} : reset[c] = valid[c]
  <2>1. Saturate(valid["total"].count + valid["current"].count) \in Nat
    BY <1>3, SaturateStat DEF Cells
  <2>2. /\ summed \in [Cells -> [count : Nat, flag : BOOLEAN]]
        /\ \A c \in Causes \cup {"boot"} : summed[c] = valid[c]
    BY <1>3, <2>1 DEF IncrementBy, Cells, Causes
  <2>3. QED
    BY <2>2 DEF Cells, Causes
<1> HIDE DEF reset
<1>5. /\ regs' \in [Cells -> [count : Nat, flag : BOOLEAN]]
      /\ \A c \in Causes : regs'[c] = reset[c]
      /\ regs'["boot"].count = Saturate(reset["boot"].count + 1)
  <2>1. Saturate(reset["boot"].count + 1) \in Nat
    BY <1>4, SaturateStat DEF Cells
  <2>2. QED
    BY <1>1, <1>4, <2>1 DEF IncrementBy, Cells, Causes
<1>6. /\ streak' \in [Reasons -> Nat]
      /\ \A r \in Reasons : streak'[r] <= LoopLimit[r] /\ streak'[r] <= streak[r]
      /\ many => \A r \in Reasons : streak'[r] = 0
  BY <1>1, ZeroStat, StatAssumption DEF LoopIsNoticed
<1>7. \A f \in Fallbacks : streak'[f] + 1 <= regs'["boot"].count
  <2> SUFFICES ASSUME NEW f \in Fallbacks PROVE streak'[f] + 1 <= regs'["boot"].count
    OBVIOUS
  <2>1. f \in Reasons /\ streak'[f] \in Nat /\ LoopLimit[f] \in Nat
    BY <1>6, StatAssumption DEF Reasons
  <2>2. reset["boot"].count \in Nat /\ streak'[f] <= reset["boot"].count
    <3>1. reset["boot"].count \in Nat
      BY <1>4 DEF Cells
    <3>2. CASE many
      BY <3>1, <3>2, <2>1, <1>6
    <3>3. CASE ~many
      BY <3>1, <3>3, <2>1, <1>1, <1>2, <1>3, <1>4, <1>6 DEF CountersKeepUp, Fallbacks
    <3>4. QED BY <3>2, <3>3
  <2>3. QED
    BY <2>1, <2>2, <1>5, <1>6, SaturateStat
<1>8. \A c \in Causes : streak'[c] <= regs'[c].count
  <2> SUFFICES ASSUME NEW c \in Causes PROVE streak'[c] <= regs'[c].count
    OBVIOUS
  <2>1. CASE many
    BY <2>1, <1>3, <1>4, <1>5, <1>6 DEF Reasons, Cells
  <2>2. CASE ~many
    BY <2>2, <1>1, <1>2, <1>3, <1>4, <1>5 DEF CountersKeepUp
  <2>3. QED BY <2>1, <2>2
<1>9. FlagsAreOwed'
  BY <1>1, <1>3, <1>4, <1>5 DEF FlagsAreOwed
<1>10. CountersKeepUp'
  BY <1>1, <1>7, <1>8 DEF CountersKeepUp
<1>11. QED
  BY <1>1, <1>5, <1>6, <1>9, <1>10 DEF LoopIsNoticed

LEMMA CountBootKept == StatInv /\ CountBoot => StatInv'
<1> SUFFICES ASSUME StatInv, CountBoot PROVE StatInv'
  OBVIOUS
<1> USE DEF StatInv, StatTypeOK
<1> DEFINE reason == BootReason({c \in Causes : regs[c].flag})
           over == regs["total"].count >= INTERVAL
           counted == Counted(regs, reason)
           loop == ~over /\ TooOften(counted, reason)
<1>1. /\ booting = "counting" /\ booting' = "up" /\ UNCHANGED fallback
      /\ regs' = IF over \/ loop THEN Zero ELSE counted
      /\ streak' = IF over \/ loop THEN NoStreak ELSE [streak EXCEPT ![reason] = @ + 1]
      /\ owed' = [c \in Causes |-> IF c = reason THEN owed[c] - 1 ELSE owed[c]]
  BY DEF CountBoot
<1>2. reason \in Reasons /\ (reason \in Causes => regs[reason].flag)
  BY DEF BootReason, Causes, Fallbacks, Reasons
<1> HIDE DEF reason
<1>3. /\ counted \in [Cells -> [count : Nat, flag : BOOLEAN]]
      /\ \A c \in Cells \ {reason} : counted[c] = regs[c]
      /\ reason \in Causes => ~counted[reason].flag
           /\ counted[reason].count = Saturate(regs[reason].count + 1)
  <2>1. CASE reason \in Causes
    <3>1. Saturate(regs[reason].count + 1) \in Nat
      BY <2>1, SaturateStat DEF Cells
    <3>2. QED
      BY <2>1, <3>1 DEF Counted, Cells
  <2>2. CASE reason \notin Causes
    BY <2>2 DEF Counted
  <2>3. QED BY <2>1, <2>2
<1> HIDE DEF counted
<1>4. owed' \in [Causes -> Nat] /\ \A c \in Causes : c # reason => owed'[c] = owed[c]
  BY <1>1, <1>2 DEF FlagsAreOwed
<1>5. CASE over \/ loop
  <2>1. regs' = Zero /\ streak' = NoStreak
    BY <1>1, <1>5
  <2> HIDE DEF over, loop
  <2>2. QED
    BY <2>1, <1>1, <1>4, ZeroStat, StatAssumption DEF FlagsAreOwed, CountersKeepUp, LoopIsNoticed, Fallbacks, Reasons
<1>6. CASE ~(over \/ loop)
  <2>1. /\ regs' = counted /\ streak' = [streak EXCEPT ![reason] = @ + 1]
        /\ ~TooOften(counted, reason)
    BY <1>1, <1>6
  <2> HIDE DEF over, loop
  <2>2. FlagsAreOwed'
    BY <2>1, <1>3, <1>4 DEF FlagsAreOwed, Cells
  <2>3. /\ \A c \in Causes : streak[c] <= regs[c].count
        /\ \A f \in Fallbacks : streak[f] + 1 <= regs["boot"].count
    BY <1>1 DEF CountersKeepUp, AllLost
  <2>4. streak' \in [Reasons -> Nat]
    BY <2>1, <1>2
  <2>5. CASE reason \in Causes
    <3>1. Saturate(regs[reason].count + 1) >= streak[reason] + 1
      BY <2>3, <2>5, SaturateStat, StatAssumption DEF LoopIsNoticed, Cells, Reasons
    <3>2. counted[reason].count <= LoopLimit[reason]
      BY <2>1, <2>5, <1>3, StatAssumption DEF TooOften, Cells, Reasons
    <3>3. streak'[reason] <= counted[reason].count /\ streak'[reason] <= LoopLimit[reason]
      BY <3>1, <3>2, <2>1, <2>5, <1>3, StatAssumption DEF Cells, Reasons
    <3>4. CountersKeepUp'
      BY <3>3, <2>1, <2>3, <2>5, <1>1, <1>3 DEF CountersKeepUp, Cells, Causes, Fallbacks, Reasons
    <3>5. LoopIsNoticed'
      BY <3>3, <2>1 DEF LoopIsNoticed
    <3>6. QED
      BY <3>4, <3>5, <2>1, <2>2, <2>4, <1>1, <1>3, <1>4
  <2>6. CASE reason \notin Causes
    <3>1. reason \in Fallbacks /\ regs["boot"].count <= LoopLimit[reason] /\ counted["boot"] = regs["boot"]
      BY <2>1, <2>6, <1>2, <1>3, StatAssumption DEF TooOften, Cells, Fallbacks, Reasons
    <3>2. CountersKeepUp'
      BY <3>1, <2>1, <2>3, <2>6, <1>1, <1>3 DEF CountersKeepUp, Cells, Causes, Fallbacks, Reasons
    <3>3. LoopIsNoticed'
      BY <3>1, <2>1, <2>3, StatAssumption DEF LoopIsNoticed, Cells, Reasons
    <3>4. QED
      BY <3>2, <3>3, <2>1, <2>2, <2>4, <1>1, <1>3, <1>4
  <2>7. QED BY <2>5, <2>6
<1>7. QED BY <1>5, <1>6

(* boot_stats.rs, with resets for any cause, registers that lose their contents, and boots    *)
(* cut off between two registers: no cause is reported more often than it happened, and no    *)
(* reason is reported more often than its limit before a boot loop is reported or the         *)
(* interval has passed.                                                                       *)
THEOREM BootsCountedRight == StatSpec => []BootsAreCounted
<1>1. StatInv /\ [StatNext]_statVars => StatInv'
  <2> SUFFICES ASSUME StatInv, [StatNext]_statVars PROVE StatInv'
    OBVIOUS
  <2>1. ASSUME NEW other \in Fallbacks,
               NEW cs \in {{}, {"por"}, {"wdt"}, {"panic"}, {"fault", "panic"}, {"wdt", "por"}},
               Reset(cs, other)
        PROVE  StatInv'
    <3>1. cs \in SUBSET Causes
      BY DEF Causes
    <3>2. QED
      BY <2>1, <3>1, ResetKept
  <2>2. CASE UNCHANGED statVars
    BY <2>2 DEF statVars, StatInv, StatTypeOK, FlagsAreOwed, CountersKeepUp, LoopIsNoticed, AllLost
  <2>3. QED
    BY <2>1, <2>2, CountUptimeKept, AddUptimeKept, CountBootKept, LoseKept DEF StatNext
<1>2. StatInv => BootsAreCounted
  BY DEF StatInv, StatTypeOK, BootsAreCounted, ReportedHappened
<1>3. QED
  BY <1>1, <1>2, StatInitKept, PTL DEF StatSpec
=============================================================================
