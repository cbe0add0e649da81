-------------------------- MODULE KeyStorageProof --------------------------
(***************************************************************************)
(* psa_its_set() is atomic: no failure of the C library and no end of the  *)
(* process leaves a partly written file, for any contents.  Persistent     *)
(* keys are saved and destroyed atomically: the calls of                   *)
(* psa_crypto_storage.c build on the files and their invariant.            *)
(***************************************************************************)
EXTENDS KeyStorage, SequenceTheorems, TLAPS

-----------------------------------------------------------------------------
(* The files.                                                              *)

\* Headers and files are sequences of cells.
LEMMA FileIsSeq ==
  ASSUME NEW data \in Contents, NEW flags \in {0, WRITE_ONCE}
  PROVE  /\ Header(data, flags) \in Seq(Nat)
         /\ FileOf(data, flags) \in Seq(Nat)
         /\ <<>> \o Header(data, flags) = Header(data, flags)
<1>1. data \in Seq(Nat)
  BY ItsFileAssumption
<1>2. Header(data, flags) \in Seq(Nat)
  BY <1>1 DEF Header, PSA_ITS_MAGIC, WRITE_ONCE
<1> QED
  BY <1>1, <1>2 DEF FileOf

\* The invariant holds whatever files are there at the start.
LEMMA ItsInitial == Init => ItsInv
  BY ItsFileAssumption DEF Init, ItsInv, TypeOK, TempFollows, FilesWhole, Steps

-----------------------------------------------------------------------------
(* The steps of psa_its_set().                                             *)

\* A new call has its arguments, and no file changes.
LEMMA SetStartInv ==
  ASSUME ItsInv, NEW u \in Uids, NEW data \in Contents,
         NEW flags \in {0, WRITE_ONCE}, SetStart(u, data, flags)
  PROVE  ItsInv'
  BY DEF ItsInv, TypeOK, TempFollows, FilesWhole, Whole, Steps, SetStart

\* A fresh temporary file is empty.
LEMMA SetOpenInv ==
  ASSUME ItsInv, SetOpen
  PROVE  ItsInv'
  BY DEF ItsInv, TypeOK, TempFollows, FilesWhole, Whole, Steps, SetOpen, Tries

\* Writing cells keeps the types; with success the next step sees them all.
LEMMA WriteTypes ==
  ASSUME ItsInv, temp \in Seq(Nat), NEW cells \in Seq(Nat),
         NEW next \in {"data", "close"}, at \in {"header", "data"},
         Write(cells, next)
  PROVE  TypeOK' /\ FilesWhole'
<1>1. temp' \in Seq(Nat)
  <2>1. CASE temp' = temp \o cells
    BY <2>1
  <2>2. CASE \E n \in 0 .. Len(cells) - 1 : temp' = temp \o SubSeq(cells, 1, n)
    <3> PICK n \in 0 .. Len(cells) - 1 : temp' = temp \o SubSeq(cells, 1, n)
      BY <2>2
    <3>1. SubSeq(cells, 1, n) \in Seq(Nat)
      OBVIOUS
    <3> QED
      BY <3>1
  <2> QED
    BY <2>1, <2>2 DEF Write
<1>2. at' \in {"data", "close"} /\ job' = job /\ files' = files
  BY DEF Write
<1>3. status' \in {status, "INSUFFICIENT_STORAGE"}
  BY DEF Write
<1> QED
  BY <1>1, <1>2, <1>3 DEF ItsInv, TypeOK, FilesWhole, Whole, Steps

\* After the header the temporary file holds the header.
LEMMA SetHeaderInv ==
  ASSUME ItsInv, SetHeader
  PROVE  ItsInv'
<1>1. /\ job.data \in Contents
      /\ job.flags \in {0, WRITE_ONCE}
      /\ temp = <<>>
      /\ status = "SUCCESS"
  BY DEF ItsInv, TypeOK, TempFollows, SetHeader
<1>2. /\ Header(job.data, job.flags) \in Seq(Nat)
      /\ <<>> \o Header(job.data, job.flags) = Header(job.data, job.flags)
  BY <1>1, FileIsSeq
<1>3. TypeOK' /\ FilesWhole'
  BY <1>1, <1>2, WriteTypes DEF SetHeader
<1>4. TempFollows'
  BY <1>1, <1>2 DEF TempFollows, SetHeader, Write, Header
<1> QED
  BY <1>3, <1>4 DEF ItsInv

\* After the data it holds the whole file, or the status is an error.
LEMMA SetDataInv ==
  ASSUME ItsInv, SetData
  PROVE  ItsInv'
<1>1. /\ job.data \in Contents
      /\ job.data \in Seq(Nat)
      /\ job.flags \in {0, WRITE_ONCE}
      /\ temp = Header(job.data, job.flags)
      /\ status = "SUCCESS"
  BY ItsFileAssumption DEF ItsInv, TypeOK, TempFollows, SetData
<1>2. temp \in Seq(Nat)
  BY <1>1, FileIsSeq
<1>3. TypeOK' /\ FilesWhole'
  BY <1>1, <1>2, WriteTypes DEF SetData
<1>4. TempFollows'
  BY <1>1 DEF TempFollows, SetData, Write, FileOf, Header
<1> QED
  BY <1>3, <1>4 DEF ItsInv

\* Only a file written without error is renamed.
LEMMA SetCloseInv ==
  ASSUME ItsInv, SetClose
  PROVE  ItsInv'
  BY DEF ItsInv, TypeOK, TempFollows, FilesWhole, Whole, Steps, SetClose, Tries,
         Closed

\* The rename puts a whole file under the identifier.
LEMMA SetRenameInv ==
  ASSUME ItsInv, SetRename
  PROVE  ItsInv'
<1>1. /\ job.uid \in Uids
      /\ job.data \in Contents
      /\ job.flags \in {0, WRITE_ONCE}
      /\ temp = FileOf(job.data, job.flags)
      /\ status = "SUCCESS"
      /\ files \in [Uids -> Seq(Nat) \cup {Absent}]
  BY DEF ItsInv, TypeOK, TempFollows, SetRename
<1>2. temp \in Seq(Nat) /\ Whole(temp)
  BY <1>1, FileIsSeq DEF Whole
<1>3. PICK ok \in BOOLEAN :
        /\ files' = IF ok THEN [files EXCEPT ![job.uid] = temp] ELSE files
        /\ temp' = IF ok THEN Absent ELSE temp
        /\ status' = Renamed(ok)
  BY DEF SetRename, Tries
<1>4. TypeOK'
  BY <1>1, <1>2, <1>3 DEF ItsInv, TypeOK, Steps, SetRename, Renamed
<1>5. FilesWhole'
  <2> SUFFICES ASSUME NEW u \in Uids
               PROVE  files'[u] = Absent \/ files'[u] \in Foreign \/ Whole(files'[u])
    BY DEF FilesWhole, Whole
  <2>1. files'[u] \in {files[u], temp}
    BY <1>1, <1>3
  <2> QED
    BY <2>1, <1>2 DEF ItsInv, FilesWhole
<1>6. TempFollows'
  BY <1>1, <1>3 DEF TempFollows, SetRename, Renamed, FileOf, Header
<1> QED
  BY <1>4, <1>5, <1>6 DEF ItsInv

\* Removing the temporary file disturbs nothing.
LEMMA SetUnlinkInv ==
  ASSUME ItsInv, SetUnlink
  PROVE  ItsInv'
  BY DEF ItsInv, TypeOK, TempFollows, FilesWhole, Whole, Steps, SetUnlink, Tries

\* Returning leaves the files alone.
LEMMA SetReturnInv ==
  ASSUME ItsInv, SetReturn
  PROVE  ItsInv'
  BY DEF ItsInv, TypeOK, TempFollows, FilesWhole, Whole, Steps, SetReturn

\* A removed file is absent.
LEMMA RemoveInv ==
  ASSUME ItsInv, NEW u \in Uids, Remove(u)
  PROVE  ItsInv'
<1>1. files' \in {files, [files EXCEPT ![u] = Absent]}
  BY DEF Remove, psa_its_remove
<1>2. status' \in {"DOES_NOT_EXIST", "STORAGE_FAILURE", "SUCCESS"}
  BY DEF Remove, psa_its_remove
<1> QED
  BY <1>1, <1>2 DEF ItsInv, TypeOK, TempFollows, FilesWhole, Whole, Steps, Remove

\* A new process starts with the files of the old one.
LEMMA RestartInv ==
  ASSUME ItsInv, Restart
  PROVE  ItsInv'
  BY DEF ItsInv, TypeOK, TempFollows, FilesWhole, Whole, Steps, Restart

-----------------------------------------------------------------------------

\* The progress of psa_its_set() is reflected in the temporary file, for any
\* failures of the C library and any number of restarts.
THEOREM ItsInductive == Spec => []ItsInv
<1>1. ItsInv /\ [Next]_itsVars => ItsInv'
  <2> SUFFICES ASSUME ItsInv, [Next]_itsVars PROVE ItsInv'
    OBVIOUS
  <2>1. CASE UNCHANGED itsVars
    BY <2>1 DEF itsVars, ItsInv, TypeOK, TempFollows, FilesWhole, Whole, Steps
  <2>2. CASE SetStep
    BY <2>2, SetOpenInv, SetHeaderInv, SetDataInv, SetCloseInv, SetRenameInv,
       SetUnlinkInv DEF SetStep
  <2>3. CASE Next /\ ~SetStep
    BY <2>3, SetStartInv, SetReturnInv, RemoveInv, RestartInv DEF Next
  <2> QED
    BY <2>1, <2>2, <2>3
<1> QED
  BY <1>1, ItsInitial, PTL DEF Spec

\* A file under an identifier is always a whole one that was passed to
\* psa_its_set(), or was there before.
THEOREM ItsAtomic == Spec => []FilesWhole
<1>1. ItsInv => FilesWhole
  BY DEF ItsInv
<1> QED
  BY <1>1, ItsInductive, PTL

\* A psa_its_set() that returns success has put the data in its file, and has
\* left no temporary copy of it.
THEOREM ItsCommits == Spec => []SuccessCommits
<1>1. ItsInv => SuccessCommits
  BY DEF ItsInv, TempFollows, SuccessCommits
<1> QED
  BY <1>1, ItsInductive, PTL

-----------------------------------------------------------------------------
(* The keys.                                                               *)

\* The steps of psa_its_set() stay inside the call, with its arguments; only
\* the rename changes a file, and it is the file of the call.
LEMMA SetStepFrame ==
  ASSUME ItsInv, SetStep
  PROVE  /\ at # "idle" /\ at' # "idle"
         /\ job' = job
         /\ at # "rename" => files' = files
         /\ at = "rename" => \A k \in Uids : k # job.uid => files'[k] = files[k]
         /\ at' \in {"header", "data", "close", "rename"} =>
              at \in {"open", "header", "data", "close"}
  BY DEF ItsInv, TypeOK, SetStep, SetOpen, SetHeader, SetData, SetClose, SetRename,
         SetUnlink, Write, Closed

\* They keep the invariant of the files.
LEMMA SetStepInv ==
  ASSUME ItsInv, SetStep
  PROVE  ItsInv'
  BY SetOpenInv, SetHeaderInv, SetDataInv, SetCloseInv, SetRenameInv, SetUnlinkInv
     DEF SetStep

\* psa_its_remove() removes the one file, or changes nothing and fails.
LEMMA RemoveOutcome ==
  ASSUME ItsInv, NEW u \in Uids, NEW r \in psa_its_remove(u)
  PROVE  /\ r.disk = files \/ r.disk = [files EXCEPT ![u] = Absent]
         /\ r.status = "SUCCESS" => r.disk[u] = Absent
<1>1. files \in [Uids -> Seq(Nat) \cup {Absent}]
  BY DEF ItsInv, TypeOK
<1>2. \/ r = [disk |-> files, status |-> "DOES_NOT_EXIST"]
      \/ r = [disk |-> files, status |-> "STORAGE_FAILURE"]
      \/ r = [disk |-> [files EXCEPT ![u] = Absent], status |-> "SUCCESS"]
  <2>1. PICK opened \in Tries("fopen_rb"), removed \in Tries("remove") :
          r = IF ~opened \/ files[u] = Absent
              THEN [disk |-> files, status |-> "DOES_NOT_EXIST"]
              ELSE IF ~removed THEN [disk |-> files, status |-> "STORAGE_FAILURE"]
              ELSE [disk |-> [files EXCEPT ![u] = Absent], status |-> "SUCCESS"]
    BY DEF psa_its_remove
  <2> QED
    BY <2>1, Zenon
<1>3. CASE r = [disk |-> files, status |-> "DOES_NOT_EXIST"]
  BY <1>3
<1>4. CASE r = [disk |-> files, status |-> "STORAGE_FAILURE"]
  BY <1>4
<1>5. CASE r = [disk |-> [files EXCEPT ![u] = Absent], status |-> "SUCCESS"]
  BY <1>1, <1>5
<1> QED
  BY <1>2, <1>3, <1>4, <1>5, Zenon

\* A call that ends with a file removed, or none, keeps the invariant.
LEMMA EndInv ==
  ASSUME ItsInv, NEW u \in Uids,
         files' = files \/ files' = [files EXCEPT ![u] = Absent],
         at' = "idle", temp' = temp, status' = status
  PROVE  ItsInv'
  BY DEF ItsInv, TypeOK, TempFollows, FilesWhole, Whole, Steps

\* Nothing about the files changes.
LEMMA SameFiles ==
  ASSUME ItsInv, UNCHANGED itsVars
  PROVE  ItsInv'
  BY DEF itsVars, ItsInv, TypeOK, TempFollows, FilesWhole, Whole, Steps

-----------------------------------------------------------------------------
(* What is in a key file, and what is made of it.                          *)

\* The formatted contents are numbers, nine of them before the material.
LEMMA FormatShape ==
  ASSUME NEW data \in Seq(Nat), NEW attr \in AttributeType
  PROVE  LET c == psa_format_key_data_for_storage(data, attr) IN
         /\ c \in Seq(Nat) /\ Len(c) = 9 + Len(data)
         /\ c[9] = Len(data)
  BY DEF psa_format_key_data_for_storage, AttributeType, PSA_KEY_STORAGE_MAGIC

\* Nine numbers as a sequence.
LEMMA NineCells ==
  ASSUME NEW a \in Nat, NEW b \in Nat, NEW c \in Nat, NEW d \in Nat, NEW e \in Nat,
         NEW f \in Nat, NEW g \in Nat, NEW h \in Nat, NEW i \in Nat
  PROVE  LET s == <<a, b, c, d, e, f, g, h, i>> IN
         /\ s \in Seq(Nat) /\ Len(s) = 9
         /\ s[1] = a /\ s[2] = b /\ s[3] = c /\ s[4] = d /\ s[5] = e /\ s[6] = f
         /\ s[7] = g /\ s[8] = h /\ s[9] = i
  OBVIOUS

\* Cells and the material after them are the beginning of a sequence.
LEMMA JoinedCells ==
  ASSUME NEW cells \in Seq(Nat), NEW h \in Seq(Nat), NEW d \in Seq(Nat),
         Len(h) + Len(d) <= Len(cells),
         \A i \in 1 .. Len(h) : h[i] = cells[i],
         \A i \in 1 .. Len(d) : d[i] = cells[Len(h) + i]
  PROVE  h \o d = SubSeq(cells, 1, Len(h) + Len(d))
<1> DEFINE s == SubSeq(cells, 1, Len(h) + Len(d))
<1>1. s \in Seq(Nat) /\ Len(s) = Len(h) + Len(d)
      /\ \A i \in 1 .. Len(h) + Len(d) : s[i] = cells[i]
  OBVIOUS
<1>2. h \o d \in Seq(Nat) /\ Len(h \o d) = Len(h) + Len(d)
  OBVIOUS
<1>3. ASSUME NEW i \in 1 .. Len(h) + Len(d) PROVE (h \o d)[i] = cells[i]
  <2>1. CASE i <= Len(h)
    BY <2>1
  <2>2. CASE i > Len(h)
    <3>1. i - Len(h) \in 1 .. Len(d) /\ (h \o d)[i] = d[i - Len(h)]
      BY <2>2
    <3> QED
      BY <3>1, SMTT(20)
  <2> QED
    BY <2>1, <2>2
<1> QED
  BY <1>1, <1>2, <1>3, SeqEqual

\* Some cells from the middle of a sequence, the first of them, and what
\* follows other cells.
LEMMA MiddleCells ==
  ASSUME NEW cells \in Seq(Nat), NEW k \in Nat, NEW n \in Nat, k + n <= Len(cells)
  PROVE  LET d == SubSeq(cells, k + 1, k + n) IN
         d \in Seq(Nat) /\ Len(d) = n /\ \A i \in 1 .. n : d[i] = cells[k + i]
  OBVIOUS

\* The first elements of a sequence.
LEMMA StartOf ==
  ASSUME NEW d \in Seq(Nat), NEW m \in Nat, m <= Len(d)
  PROVE  Len(SubSeq(d, 1, m)) = m /\ \A i \in 1 .. m : SubSeq(d, 1, m)[i] = d[i]
  OBVIOUS

\* The first cells of what was cut out.
LEMMA FirstCells ==
  ASSUME NEW cells \in Seq(Nat), NEW k \in Nat, NEW n \in Nat, NEW m \in Nat,
         k + n <= Len(cells), m <= n
  PROVE  SubSeq(SubSeq(cells, k + 1, k + n), 1, m) = SubSeq(cells, k + 1, k + m)
<1>1. PICK d \in Seq(Nat) : d = SubSeq(cells, k + 1, k + n)
  BY MiddleCells
<1>2. Len(d) = n /\ \A i \in 1 .. n : d[i] = cells[k + i]
  BY <1>1, MiddleCells
<1>3. k + m <= Len(cells) /\ m <= Len(d)
  BY <1>2
<1>4. PICK e \in Seq(Nat) : e = SubSeq(cells, k + 1, k + m)
  BY <1>3, MiddleCells
<1>5. Len(e) = m /\ \A i \in 1 .. m : e[i] = cells[k + i]
  BY <1>3, <1>4, MiddleCells
<1>6. PICK s \in Seq(Nat) : s = SubSeq(d, 1, m)
  <2>1. SubSeq(d, 1, m) \in Seq(Nat)
    BY <1>3
  <2> QED
    BY <2>1
<1>7. Len(s) = m /\ \A i \in 1 .. m : s[i] = d[i]
  <2>1. m <= Len(d)
    BY <1>3
  <2> QED
    BY <1>6, <2>1, StartOf
<1>8. ASSUME NEW i \in 1 .. m PROVE s[i] = e[i]
  <2>1. i \in 1 .. n
    OBVIOUS
  <2> QED
    BY <1>2, <1>5, <1>7, <2>1
<1>9. s = e
  BY <1>5, <1>7, <1>8, SeqEqual
<1> QED
  BY <1>1, <1>4, <1>6, <1>9

\* The cells that follow a header are the key data.
LEMMA LastCells ==
  ASSUME NEW h \in Seq(Nat), NEW d \in Seq(Nat)
  PROVE  SubSeq(h \o d, Len(h) + 1, Len(h) + Len(d)) = d
<1>1. PICK f \in Seq(Nat) : f = h \o d
  <2>1. h \o d \in Seq(Nat)
    OBVIOUS
  <2> QED
    BY <2>1
<1>2. Len(f) = Len(h) + Len(d) /\ \A i \in 1 .. Len(d) : f[Len(h) + i] = d[i]
  BY <1>1
<1>3. Len(h) + Len(d) <= Len(f)
  BY <1>2
<1>4. PICK s \in Seq(Nat) : s = SubSeq(f, Len(h) + 1, Len(h) + Len(d))
  <2>1. SubSeq(f, Len(h) + 1, Len(h) + Len(d)) \in Seq(Nat)
    BY <1>3
  <2> QED
    BY <2>1
<1>5. Len(s) = Len(d) /\ \A i \in 1 .. Len(d) : s[i] = f[Len(h) + i]
  BY <1>3, <1>4, MiddleCells
<1>6. s = d
  BY <1>2, <1>5, SeqEqual
<1> QED
  BY <1>1, <1>4, <1>6

\* Valid contents begin with what the key parsed from them is formatted to.
LEMMA ParseFormat ==
  ASSUME NEW cells \in Seq(Nat), ValidFormat(cells)
  PROVE  /\ psa_format_key_data_for_storage(Parsed(cells).data, Parsed(cells).attr)
              = SubSeq(cells, 1, FormatLength + cells[9])
         /\ cells[9] \in Nat
         /\ FormatLength + cells[9] <= Len(cells)
<1>1. /\ FormatLength \in Nat /\ FormatLength + cells[9] <= Len(cells)
      /\ cells[1] = PSA_KEY_STORAGE_MAGIC /\ cells[2] = 0
      /\ cells[9] \in Nat
  BY DEF ValidFormat, KeyDataFits, FormatLength
<1>2. PICK d : d = SubSeq(cells, FormatLength + 1, FormatLength + cells[9])
  OBVIOUS
<1>3. /\ d \in Seq(Nat) /\ Len(d) = cells[9]
      /\ \A i \in 1 .. Len(d) : d[i] = cells[FormatLength + i]
  <2>1. PICK n \in Nat : n = cells[9]
    BY <1>1
  <2>2. FormatLength + n <= Len(cells) /\ d = SubSeq(cells, FormatLength + 1, FormatLength + n)
    BY <1>1, <1>2, <2>1
  <2> HIDE <1>2
  <2>3. /\ d \in Seq(Nat) /\ Len(d) = n
        /\ \A i \in 1 .. n : d[i] = cells[FormatLength + i]
    BY <1>1, <2>2, SMTT(20)
  <2> QED
    BY <2>1, <2>3
<1>4. \A i \in 1 .. 9 : cells[i] \in Nat
  BY DEF ValidFormat, FormatLength
<1>5. PICK h : h = <<cells[1], cells[2], cells[3], cells[4], cells[5], cells[6], cells[7],
                    cells[8], cells[9]>>
  OBVIOUS
<1>6. h \in Seq(Nat) /\ Len(h) = FormatLength /\ \A i \in 1 .. FormatLength : h[i] = cells[i]
  BY <1>4, <1>5, NineCells DEF FormatLength
<1>7. h \o d = SubSeq(cells, 1, FormatLength + cells[9])
  <2>1. /\ Len(h) + Len(d) <= Len(cells)
        /\ \A i \in 1 .. Len(h) : h[i] = cells[i]
        /\ \A i \in 1 .. Len(d) : d[i] = cells[Len(h) + i]
    BY <1>1, <1>3, <1>6
  <2>2. h \o d = SubSeq(cells, 1, Len(h) + Len(d))
    BY <1>3, <1>6, <2>1, JoinedCells
  <2> QED
    BY <1>3, <1>6, <2>2
<1>8. psa_format_key_data_for_storage(Parsed(cells).data, Parsed(cells).attr) = h \o d
  <2>1. Parsed(cells).data = d
    BY <1>2 DEF Parsed
  <2>2. PICK attr : attr = Parsed(cells).attr
    OBVIOUS
  <2>3. attr = [lifetime |-> cells[3], type |-> cells[4], bits |-> cells[5],
                usage |-> cells[6], alg |-> cells[7], alg2 |-> cells[8]]
    BY <2>2 DEF Parsed
  <2>4. /\ attr.lifetime = cells[3] /\ attr.type = cells[4] /\ attr.bits = cells[5]
        /\ attr.usage = cells[6] /\ attr.alg = cells[7] /\ attr.alg2 = cells[8]
    BY <2>3
  <2>5. psa_format_key_data_for_storage(d, attr)
          = <<cells[1], cells[2], cells[3], cells[4], cells[5], cells[6], cells[7],
              cells[8], cells[9]>> \o d
    BY <1>1, <1>3, <2>4 DEF psa_format_key_data_for_storage
  <2> QED
    BY <1>5, <2>1, <2>2, <2>5
<1> QED
  BY <1>1, <1>7, <1>8

\* What a load that succeeds has read: all the data of the file.
LEMMA LoadReads ==
  ASSUME NEW k \in Uids, files[k] \in Seq(Nat) \cup {Absent},
         NEW r \in LoadOutcomes(k), r.status = "SUCCESS"
  PROVE  \E n \in Nat :
           /\ files[k] \in Seq(Nat) /\ files[k][1] = PSA_ITS_MAGIC /\ files[k][2] = n
           /\ HeaderLength + n <= Len(files[k])
           /\ ValidFormat(SubSeq(files[k], HeaderLength + 1, HeaderLength + n))
           /\ r.key = Parsed(SubSeq(files[k], HeaderLength + 1, HeaderLength + n))
<1>1. PICK info \in psa_its_get_info(files[k]) :
        /\ info.status = "SUCCESS"
        /\ \E read \in psa_crypto_storage_load(k, info.size) :
             /\ read.status = "SUCCESS"
             /\ ValidFormat(read.data)
             /\ r.key = Parsed(read.data)
  <2>1. PICK info \in psa_its_get_info(files[k]) :
          r \in IF info.status # "SUCCESS" THEN {Failed(info.status)}
                ELSE {Failed("INSUFFICIENT_MEMORY") : ok \in Tries("calloc") \ {TRUE}}
                  \cup {IF read.status # "SUCCESS" THEN Failed(read.status)
                        ELSE IF ~ValidFormat(read.data) THEN Failed("DATA_INVALID")
                        ELSE IF Parsed(read.data).data = <<>>
                        THEN Failed("STORAGE_FAILURE")
                        ELSE [status |-> "SUCCESS", key |-> Parsed(read.data)] :
                          read \in psa_crypto_storage_load(k, info.size)}
    BY DEF LoadOutcomes
  <2>2. \A st : Failed(st).status = st
    BY DEF Failed
  <2>3. info.status = "SUCCESS"
    <3>1. SUFFICES ASSUME info.status # "SUCCESS" PROVE FALSE
      OBVIOUS
    <3>2. r = Failed(info.status)
      BY <2>1, <3>1
    <3> QED
      BY <2>2, <3>1, <3>2
  <2>4. r # Failed("INSUFFICIENT_MEMORY")
    BY <2>2
  <2>5. PICK read \in psa_crypto_storage_load(k, info.size) :
          r = IF read.status # "SUCCESS" THEN Failed(read.status)
              ELSE IF ~ValidFormat(read.data) THEN Failed("DATA_INVALID")
              ELSE IF Parsed(read.data).data = <<>>
              THEN Failed("STORAGE_FAILURE")
              ELSE [status |-> "SUCCESS", key |-> Parsed(read.data)]
    BY <2>1, <2>3, <2>4
  <2>6. read.status = "SUCCESS" /\ ValidFormat(read.data)
        /\ r = [status |-> "SUCCESS", key |-> Parsed(read.data)]
    <3>1. \A st : r = Failed(st) => st = "SUCCESS"
      BY <2>2
    <3> HIDE DEF Failed
    <3> QED
      BY <2>5, <3>1
  <2> QED
    BY <2>3, <2>6
<1>2. PICK read \in psa_crypto_storage_load(k, info.size) :
        read.status = "SUCCESS" /\ ValidFormat(read.data) /\ r.key = Parsed(read.data)
  BY <1>1
<1>3. \A i \in psa_its_read_file(files[k]) : i.status = "SUCCESS" =>
          /\ files[k] # Absent /\ ~(Len(files[k]) < HeaderLength)
          /\ files[k][1] = PSA_ITS_MAGIC /\ i.size = files[k][2]
  BY DEF psa_its_read_file
<1>4. PICK f \in Seq(Nat) : f = files[k]
  BY <1>1, <1>3 DEF psa_its_get_info
<1>5. HeaderLength \in Nat /\ ~(Len(f) < HeaderLength)
      /\ f[1] = PSA_ITS_MAGIC /\ info.size = f[2]
  BY <1>1, <1>3, <1>4 DEF psa_its_get_info, HeaderLength
<1>6. PICK n \in Nat : n = f[2]
  BY <1>5 DEF HeaderLength
<1>7. Len(read.data) = n /\ read \in psa_its_get(f, 0, n)
  BY <1>2, <1>4, <1>5, <1>6 DEF psa_crypto_storage_load
<1>8. PICK end \in Nat : end = (0 + n) % UInt32Range
  BY ItsFileAssumption
<1>9. PICK l \in Nat : l = Len(f) - HeaderLength
  <2>1. Len(f) - HeaderLength \in Nat
    BY <1>5
  <2> QED
    BY <2>1
<1>10. HeaderLength + l = Len(f) /\ HeaderLength + l <= Len(f)
  BY <1>5, <1>9
<1>11. PICK stored \in Seq(Nat) : stored = SubSeq(f, HeaderLength + 1, HeaderLength + l)
  BY <1>5, <1>10, MiddleCells
<1>12. Len(stored) = l
  BY <1>5, <1>10, <1>11, MiddleCells
<1>13. end <= Len(stored) /\ read.data = SubSeq(stored, 1, end)
  BY <1>2, <1>7, <1>8, <1>10, <1>11 DEF psa_its_get
<1>14. end = n
  BY <1>7, <1>13
<1>15. HeaderLength + n <= Len(f) /\ n <= l
  BY <1>5, <1>9, <1>12, <1>13, <1>14
<1>16. read.data = SubSeq(f, HeaderLength + 1, HeaderLength + n)
  BY <1>5, <1>10, <1>11, <1>13, <1>14, <1>15, FirstCells
<1> QED
  BY <1>2, <1>4, <1>5, <1>6, <1>15, <1>16

\* What a successful load returns is in the file, and is the key of the file if
\* this code wrote it.
LEMMA LoadIsExact ==
  ASSUME StorageInv, NEW k \in Uids, NEW r \in LoadOutcomes(k), r.status = "SUCCESS"
  PROVE  /\ HoldsKey(files[k], r.key.attr, r.key.data)
         /\ files[k] \notin Foreign => files[k] = KeyFile(r.key.attr, r.key.data)
<1>1. PICK n \in Nat :
        /\ files[k] \in Seq(Nat) /\ files[k][1] = PSA_ITS_MAGIC /\ files[k][2] = n
        /\ HeaderLength + n <= Len(files[k])
        /\ ValidFormat(SubSeq(files[k], HeaderLength + 1, HeaderLength + n))
        /\ r.key = Parsed(SubSeq(files[k], HeaderLength + 1, HeaderLength + n))
  BY LoadReads DEF StorageInv, ItsInv, TypeOK
<1>2. PICK f \in Seq(Nat) : f = files[k]
  BY <1>1
<1>3. HeaderLength \in Nat /\ FormatLength \in Nat
  BY DEF HeaderLength, FormatLength
<1>4. PICK cells \in Seq(Nat) :
        cells = SubSeq(f, HeaderLength + 1, HeaderLength + n) /\ Len(cells) = n
  BY <1>1, <1>2, <1>3, MiddleCells, ZenonT(30)
<1>5. ValidFormat(cells) /\ r.key = Parsed(cells)
  BY <1>1, <1>2, <1>4
<1>6. PICK c : c = psa_format_key_data_for_storage(r.key.data, r.key.attr)
  OBVIOUS
<1>7. PICK m \in Nat : m = FormatLength + cells[9]
  BY <1>3, <1>5, ParseFormat
<1>8. c = SubSeq(cells, 1, m) /\ m <= n
  BY <1>4, <1>5, <1>6, <1>7, ParseFormat
<1>9. Len(c) = m
  BY <1>4, <1>8
<1>10. SubSeq(f, HeaderLength + 1, HeaderLength + m) = c
  BY <1>1, <1>2, <1>3, <1>4, <1>8, FirstCells
<1>11. HoldsKey(f, r.key.attr, r.key.data)
  BY <1>1, <1>2, <1>6, <1>9, <1>10 DEF HoldsKey
<1>12. ASSUME f \notin Foreign PROVE f = KeyFile(r.key.attr, r.key.data)
  <2>1. PICK contents \in Contents : f = FileOf(contents, 0)
    BY <1>2, <1>12, ItsFileAssumption DEF StorageInv, KeyFiles
  <2>2. PICK data \in KeyDatas, attr \in Attributes :
          contents = psa_format_key_data_for_storage(data, attr)
    BY KeyStorageAssumption
  <2>3. data \in Seq(Nat) /\ attr \in AttributeType
    BY KeyStorageAssumption
  <2>4. contents \in Seq(Nat) /\ Len(contents) = FormatLength + Len(data)
        /\ contents[9] = Len(data)
    BY <2>2, <2>3, FormatShape DEF FormatLength
  <2>5. PICK l \in Nat : l = Len(contents)
    BY <2>4
  <2>6. PICK h \in Seq(Nat) : h = <<777, l, 0>>
    <3>1. <<777, l, 0>> \in Seq(Nat)
      OBVIOUS
    <3> QED
      BY <3>1, ZenonT(30)
  <2>7. Len(h) = 3 /\ h[2] = l
    BY <2>6
  <2>8. Len(h) = HeaderLength /\ h[2] = Len(contents) /\ h = Header(contents, 0)
    BY <2>5, <2>6, <2>7 DEF Header, PSA_ITS_MAGIC, HeaderLength
  <2>9. f = h \o contents
    BY <2>1, <2>8 DEF FileOf
  <2>10. n = Len(contents)
    <3>1. 2 <= Len(h)
      BY <2>7
    <3>2. (h \o contents)[2] = h[2]
      BY <2>4, <3>1
    <3> QED
      BY <1>1, <1>2, <2>8, <2>9, <3>2
  <2>11. cells = contents
    <3>1. SubSeq(h \o contents, Len(h) + 1, Len(h) + Len(contents)) = contents
      BY <2>4, LastCells
    <3> QED
      BY <1>4, <2>8, <2>9, <2>10, <3>1
  <2>12. m = n
    BY <1>7, <2>4, <2>10, <2>11
  <2>13. c = contents
    <3>1. c = SubSeq(cells, 1, Len(cells))
      BY <1>4, <1>8, <2>12
    <3> QED
      BY <2>11, <3>1, SubSeqFull
  <2> QED
    BY <1>6, <2>1, <2>13 DEF KeyFile
<1> QED
  BY <1>2, <1>11, <1>12

-----------------------------------------------------------------------------
(* The invariant that holds whatever fails.                                *)

\* A step that is no load, and starts another call or ends in no success, says
\* nothing of loads; one that also keeps or removes files keeps key files.
LEMMA NoLoad ==
  ASSUME at' # "idle" \/ call'.name # "load" \/ ret' # "SUCCESS"
  PROVE  LoadExact'
  BY DEF LoadExact, Returned

LEMMA KeptFiles ==
  ASSUME KeyFiles, \A u \in Uids : files'[u] = files[u] \/ files'[u] = Absent
  PROVE  KeyFiles'
  BY DEF KeyFiles

\* A refused key changes no file.
LEMMA SaveRefusedInv ==
  ASSUME StorageInv, NEW k \in Uids, NEW attr \in Attributes, NEW data \in KeyDatas,
         SaveRefused(k, attr, data)
  PROVE  StorageInv'
<1>1. ItsInv'
  BY SameFiles DEF StorageInv, SaveRefused, itsVars
<1>2. ret' # "SUCCESS"
  BY DEF SaveRefused, Refusals
<1> QED
  BY <1>1, <1>2, NoLoad, KeptFiles DEF StorageInv, JobOfCall, SaveCommits, Returned,
     SaveRefused

\* A call of psa_its_set() with the formatted key starts.
LEMMA SaveStartInv ==
  ASSUME StorageInv, NEW k \in Uids, NEW attr \in Attributes, NEW data \in KeyDatas,
         SaveStart(k, attr, data)
  PROVE  StorageInv'
<1>1. psa_format_key_data_for_storage(data, attr) \in Contents
  BY KeyStorageAssumption DEF SaveStart
<1>2. ItsInv'
  BY <1>1, SetStartInv DEF StorageInv, SaveStart
<1>3. JobOfCall' /\ SaveCommits'
  BY DEF JobOfCall, SaveCommits, Returned, SaveStart, SetStart
<1>4. KeyFiles' /\ LoadExact'
  BY NoLoad, KeptFiles DEF StorageInv, SaveStart, SetStart
<1> QED
  BY <1>2, <1>3, <1>4 DEF StorageInv

\* psa_its_set() makes a step.
LEMMA SaveStepInv ==
  ASSUME StorageInv, SaveStep
  PROVE  StorageInv'
<1>1. ItsInv' /\ JobOfCall' /\ SaveCommits'
  BY SetStepFrame, SetStepInv DEF StorageInv, JobOfCall, SaveCommits, Returned,
     SaveStep
<1>2. LoadExact'
  BY SetStepFrame, NoLoad DEF StorageInv, SaveStep
<1>3. KeyFiles'
  <2>1. CASE files' = files
    BY <2>1, KeptFiles DEF StorageInv
  <2>2. CASE files' # files
    <3>1. at = "rename" /\ job \in [uid : Uids, data : Contents, flags : {0, WRITE_ONCE}]
      BY <2>2, SetStepFrame DEF StorageInv, SaveStep, ItsInv, TypeOK
    <3>2. files' = [files EXCEPT ![job.uid] = temp]
      BY <2>2, <3>1 DEF SaveStep, SetStep, SetOpen, SetHeader, SetData, SetClose,
         SetRename, SetUnlink, Write
    <3>3. temp = FileOf(job.data, 0)
      BY <3>1 DEF StorageInv, ItsInv, TempFollows, JobOfCall
    <3>4. files \in [Uids -> Seq(Nat) \cup {Absent}]
      BY DEF StorageInv, ItsInv, TypeOK
    <3>5. \A u \in Uids : files'[u] = IF u = job.uid THEN FileOf(job.data, 0) ELSE files[u]
      BY <3>1, <3>2, <3>3, <3>4
    <3> QED
      BY <3>1, <3>5 DEF StorageInv, KeyFiles
  <2> QED
    BY <2>1, <2>2
<1> QED
  BY <1>1, <1>2, <1>3 DEF StorageInv

\* The key is verified; success means that it is in its file.
LEMMA SaveReturnInv ==
  ASSUME StorageInv, SaveReturn
  PROVE  StorageInv'
<1>1. job.uid \in Uids
  BY DEF StorageInv, ItsInv, TypeOK, SaveReturn
<1>2. files' = files \/ files' = [files EXCEPT ![job.uid] = Absent]
  BY <1>1, RemoveOutcome DEF StorageInv, SaveReturn
<1>3. ItsInv'
  BY <1>1, <1>2, EndInv DEF StorageInv, SaveReturn
<1>4. ret' = "SUCCESS" => files' = files /\ status = "SUCCESS"
  BY DEF SaveReturn
<1>5. SaveCommits'
  <2> SUFFICES ASSUME ret' = "SUCCESS"
               PROVE  files'[call.key] = KeyFile(call.attr, call.data)
    BY DEF SaveCommits, Returned, SaveReturn
  <2> QED
    BY <1>4 DEF StorageInv, ItsInv, TempFollows, JobOfCall, KeyFile, SaveReturn
<1>6. JobOfCall'
  BY DEF JobOfCall, SaveReturn
<1>7. LoadExact'
  BY NoLoad DEF StorageInv, JobOfCall, SaveReturn
<1>8. KeyFiles'
  BY <1>1, <1>2, KeptFiles DEF StorageInv, ItsInv, TypeOK
<1> QED
  BY <1>3, <1>5, <1>6, <1>7, <1>8 DEF StorageInv

\* Destroying a key removes its file or none.
LEMMA DestroyInv ==
  ASSUME StorageInv, NEW k \in Uids, psa_destroy_persistent_key(k)
  PROVE  StorageInv'
<1>1. files' = files \/ files' = [files EXCEPT ![k] = Absent]
  BY RemoveOutcome DEF StorageInv, psa_destroy_persistent_key
<1>2. ItsInv'
  BY <1>1, EndInv DEF StorageInv, psa_destroy_persistent_key
<1>3. JobOfCall' /\ SaveCommits'
  BY DEF JobOfCall, SaveCommits, Returned, psa_destroy_persistent_key, NoCall
<1>4. LoadExact'
  BY NoLoad DEF psa_destroy_persistent_key, NoCall
<1>5. KeyFiles'
  BY <1>1, KeptFiles DEF StorageInv, ItsInv, TypeOK
<1> QED
  BY <1>2, <1>3, <1>4, <1>5 DEF StorageInv

\* Loading a key changes no file.
LEMMA LoadInv ==
  ASSUME StorageInv, NEW k \in Uids, psa_load_persistent_key(k)
  PROVE  StorageInv'
<1>1. ItsInv'
  BY SameFiles DEF StorageInv, psa_load_persistent_key, itsVars
<1>2. JobOfCall' /\ SaveCommits'
  BY DEF JobOfCall, SaveCommits, Returned, psa_load_persistent_key, NoCall
<1>3. LoadExact'
  <2>1. PICK r \in LoadOutcomes(k) : ret' = r.status /\ loaded' = r.key
    BY DEF psa_load_persistent_key
  <2>2. ret' = "SUCCESS" =>
          /\ HoldsKey(files[k], loaded'.attr, loaded'.data)
          /\ files[k] \notin Foreign => files[k] = KeyFile(loaded'.attr, loaded'.data)
    BY <2>1, LoadIsExact
  <2>3. files' = files /\ call'.key = k
    BY DEF psa_load_persistent_key, NoCall
  <2>4. Returned("load")' => ret' = "SUCCESS"
    BY DEF Returned
  <2> QED
    BY <2>2, <2>3, <2>4 DEF LoadExact
<1>4. KeyFiles'
  BY KeptFiles DEF StorageInv, psa_load_persistent_key
<1> QED
  BY <1>1, <1>2, <1>3, <1>4 DEF StorageInv

\* After a crash no call is in progress.
LEMMA CrashInv ==
  ASSUME StorageInv, Crash
  PROVE  StorageInv'
<1>1. ItsInv' /\ JobOfCall' /\ SaveCommits'
  BY RestartInv DEF StorageInv, JobOfCall, SaveCommits, Returned, Crash, Restart,
     NoCall
<1>2. KeyFiles' /\ LoadExact'
  BY NoLoad, KeptFiles DEF StorageInv, Crash, Restart
<1> QED
  BY <1>1, <1>2 DEF StorageInv

\* Every step keeps the invariant.
LEMMA StorageStep == StorageInv /\ [StorageNext]_storageVars => StorageInv'
<1> SUFFICES ASSUME StorageInv, [StorageNext]_storageVars PROVE StorageInv'
  OBVIOUS
<1>1. CASE UNCHANGED storageVars
  BY <1>1, SameFiles DEF storageVars, itsVars, StorageInv, JobOfCall, SaveCommits,
     Returned, KeyFiles, LoadExact
<1>2. CASE StorageNext
  BY <1>2, SaveRefusedInv, SaveStartInv, SaveStepInv, SaveReturnInv, DestroyInv,
     LoadInv, CrashInv DEF StorageNext
<1> QED
  BY <1>1, <1>2

\* Whatever fails and wherever the process dies, a save in progress writes the
\* key of the call, and files are whole.
THEOREM StorageInductive == StorageSpec => []StorageInv
<1>1. StorageInit => StorageInv
  BY ItsInitial DEF StorageInit, StorageInv, JobOfCall, SaveCommits, LoadExact, KeyFiles,
     Returned, Init, NoCall
<1> QED
  BY <1>1, StorageStep, PTL DEF StorageSpec

\* psa_save_persistent_key() returns success only when the key is in its file.
THEOREM SaveIsCommitting == StorageSpec => []SaveCommits
<1>1. StorageInv => SaveCommits
  BY DEF StorageInv
<1> QED
  BY <1>1, StorageInductive, PTL

\* psa_load_persistent_key() returns success only with a key that is in the file,
\* and with the key that was saved if this code wrote the file.
THEOREM LoadIsFaithful == StorageSpec => []LoadExact
<1>1. StorageInv => LoadExact
  BY DEF StorageInv
<1> QED
  BY <1>1, StorageInductive, PTL

-----------------------------------------------------------------------------
(* When files can be opened for reading.                                   *)

\* A file that is there is found.
LEMMA InfoIsTrue ==
  ASSUME "fopen_rb" \notin CanFail, NEW f, NEW info \in psa_its_get_info(f)
  PROVE  info.status = "DOES_NOT_EXIST" <=> f = Absent
<1>1. Tries("fopen_rb") = {TRUE}
  BY DEF Tries
<1>2. PICK opened \in Tries("fopen_rb"), readable \in Tries("fread") :
        info = IF ~opened \/ f = Absent THEN [status |-> "DOES_NOT_EXIST", size |-> 0]
               ELSE IF ~readable \/ Len(f) < HeaderLength \/ f[1] # PSA_ITS_MAGIC
               THEN [status |-> "DATA_CORRUPT", size |-> 0]
               ELSE [status |-> "SUCCESS", size |-> f[2]]
  BY DEF psa_its_get_info, psa_its_read_file
<1>3. opened
  BY <1>1, <1>2
<1> QED
  BY <1>2, <1>3

\* Every step keeps the rest of the invariant.
LEMMA ReadableStep ==
  ASSUME "fopen_rb" \notin CanFail
  PROVE  ReadableInv /\ [StorageNext]_storageVars => ReadableInv'
<1> SUFFICES ASSUME ReadableInv, [StorageNext]_storageVars PROVE ReadableInv'
  OBVIOUS
<1>0. StorageInv /\ StorageInv'
  BY StorageStep DEF ReadableInv
<1>1. CASE UNCHANGED storageVars
  BY <1>0, <1>1 DEF storageVars, ReadableInv, FreshJob, DestroyErases, Returned
<1>2. ASSUME NEW k \in Uids, NEW attr \in Attributes, NEW data \in KeyDatas,
             SaveRefused(k, attr, data)
      PROVE  ReadableInv'
  BY <1>0, <1>2 DEF ReadableInv, FreshJob, DestroyErases, Returned, SaveRefused
<1>3. ASSUME NEW k \in Uids, NEW attr \in Attributes, NEW data \in KeyDatas,
             SaveStart(k, attr, data)
      PROVE  ReadableInv'
  <2>1. files[k] = Absent
    BY <1>3, InfoIsTrue DEF SaveStart, Unused, psa_is_key_present_in_storage
  <2>2. FreshJob' /\ DestroyErases'
    BY <1>3, <2>1 DEF FreshJob, DestroyErases, Returned, SaveStart, SetStart
  <2> QED
    BY <1>0, <2>2 DEF ReadableInv
<1>4. CASE SaveStep
  <2>1. FreshJob'
    BY <1>0, <1>4, SetStepFrame DEF ReadableInv, StorageInv, FreshJob, SaveStep,
       SetStep, SetOpen, SetHeader, SetData, SetClose, SetRename, SetUnlink, Write
  <2>2. DestroyErases'
    BY <1>0, <1>4, SetStepFrame DEF StorageInv, DestroyErases, Returned, SaveStep
  <2> QED
    BY <1>0, <2>1, <2>2 DEF ReadableInv
<1>5. CASE SaveReturn
  BY <1>0, <1>5 DEF ReadableInv, StorageInv, FreshJob, JobOfCall, DestroyErases,
     Returned, SaveReturn
<1>6. ASSUME NEW k \in Uids, psa_destroy_persistent_key(k)
      PROVE  ReadableInv'
  <2>1. PICK info \in psa_its_get_info(files[k]), r \in psa_its_remove(k) :
          IF info.status = "DOES_NOT_EXIST"
          THEN files' = files /\ ret' = "SUCCESS"
          ELSE files' = r.disk /\ ret' = DestroyStatus(r, k)
    BY <1>6 DEF psa_destroy_persistent_key
  <2>2. ret' = "SUCCESS" => files'[k] = Absent
    BY <1>0, <2>1, InfoIsTrue, RemoveOutcome DEF StorageInv, DestroyStatus
  <2>3. DestroyErases' /\ FreshJob'
    BY <1>6, <2>2, SMTT(20)
    DEF DestroyErases, FreshJob, Returned, psa_destroy_persistent_key,
       NoCall
  <2> QED
    BY <1>0, <2>3 DEF ReadableInv
<1>7. ASSUME NEW k \in Uids, psa_load_persistent_key(k)
      PROVE  ReadableInv'
  BY <1>0, <1>7 DEF ReadableInv, FreshJob, DestroyErases, Returned,
     psa_load_persistent_key, NoCall
<1>8. CASE Crash
  BY <1>0, <1>8 DEF ReadableInv, FreshJob, DestroyErases, Returned, Crash, Restart,
     NoCall
<1> QED
  BY <1>1, <1>2, <1>3, <1>4, <1>5, <1>6, <1>7, <1>8 DEF StorageNext

\* When files can be opened for reading, a save writes to an unused identifier
\* and a destroyed key has no file.
THEOREM ReadableInductive ==
  ASSUME "fopen_rb" \notin CanFail
  PROVE  StorageSpec => []ReadableInv
<1>1. StorageInit => ReadableInv
  BY ItsInitial DEF StorageInit, ReadableInv, StorageInv, JobOfCall, SaveCommits,
     LoadExact, KeyFiles, FreshJob, DestroyErases, Returned, Init, NoCall
<1> QED
  BY <1>1, ReadableStep, PTL DEF StorageSpec

\* psa_destroy_persistent_key() returns success only when the file is gone.
THEOREM DestroyedKeysAreGone ==
  ASSUME "fopen_rb" \notin CanFail
  PROVE  StorageSpec => []DestroyErases
<1>1. ReadableInv => DestroyErases
  BY DEF ReadableInv
<1> QED
  BY <1>1, ReadableInductive, PTL

\* No step replaces the file of a key, and only the destruction of the key or
\* the failure of its creation removes it.
THEOREM SavedKeysStay ==
  ASSUME "fopen_rb" \notin CanFail
  PROVE  StorageSpec => KeysCommitted
<1> DEFINE Stays ==
      \A k \in Uids : files[k] # Absent /\ files'[k] # files[k] =>
          /\ files'[k] = Absent
          /\ \/ call'.name = "destroy" /\ call'.key = k
             \/ call.name = "save" /\ call.key = k /\ ret' # "SUCCESS"
<1>1. ReadableInv /\ [StorageNext]_storageVars => [Stays]_storageVars
  <2> SUFFICES ASSUME ReadableInv, StorageNext, NEW k \in Uids,
                      files[k] # Absent, files'[k] # files[k]
               PROVE  /\ files'[k] = Absent
                      /\ \/ call'.name = "destroy" /\ call'.key = k
                         \/ call.name = "save" /\ call.key = k /\ ret' # "SUCCESS"
    OBVIOUS
  <2>0. ItsInv /\ JobOfCall /\ FreshJob
    BY DEF ReadableInv, StorageInv
  <2>1. CASE SaveStep
    BY <2>0, <2>1, SetStepFrame DEF FreshJob, SaveStep
  <2>2. CASE SaveReturn
    <3>1. job.uid \in Uids
      BY <2>0, <2>2 DEF ItsInv, TypeOK, SaveReturn
    <3>2. files' # files
      OBVIOUS
    <3>3. files' = [files EXCEPT ![job.uid] = Absent]
      BY <2>0, <2>2, <3>1, <3>2, RemoveOutcome DEF SaveReturn
    <3>4. k = job.uid /\ files'[k] = Absent
      BY <2>0, <3>1, <3>3 DEF ItsInv, TypeOK
    <3>5. ret' # "SUCCESS"
      BY <2>2, <3>2 DEF SaveReturn
    <3> QED
      BY <2>0, <2>2, <3>4, <3>5 DEF JobOfCall, SaveReturn
  <2>3. ASSUME NEW j \in Uids, psa_destroy_persistent_key(j)
        PROVE  /\ files'[k] = Absent
               /\ call'.name = "destroy" /\ call'.key = k
    <3>1. files' = [files EXCEPT ![j] = Absent]
      BY <2>0, <2>3, RemoveOutcome DEF psa_destroy_persistent_key
    <3>2. k = j /\ files'[k] = Absent
      BY <2>0, <3>1 DEF ItsInv, TypeOK
    <3> QED
      BY <2>3, <3>2 DEF psa_destroy_persistent_key, NoCall
  <2> QED
    BY <2>1, <2>2, <2>3 DEF StorageNext, SaveRefused, SaveStart, SetStart,
       psa_load_persistent_key, Crash, Restart
<1>2. KeysCommitted <=> [][Stays]_storageVars
  BY DEF KeysCommitted
<1> HIDE DEF Stays
<1> QED
  BY <1>1, <1>2, ReadableInductive, PTL DEF StorageSpec
=============================================================================
