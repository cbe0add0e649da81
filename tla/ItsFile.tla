------------------------------ MODULE ItsFile ------------------------------
(***************************************************************************)
(* Internal trusted storage over stdio files, core/psa_its_file.c.         *)
(*                                                                         *)
(* A file is a sequence of cells: a header (magic string, size, flags) and *)
(* the data. psa_its_set() writes a temporary file and renames it; every   *)
(* call to the C library that changes a file is an action, it can fail,    *)
(* and the process can die before each of them. Callers are serialised:    *)
(* the core makes all its calls under the key slot mutex.                  *)
(***************************************************************************)
EXTENDS Naturals, Sequences

CONSTANTS
    Uids,       \* identifiers of files, not null
    Contents,   \* what callers write
    Absent,     \* there is no such file
    Foreign,    \* files already there that this code has not written
    CanFail,    \* calls to the C library that may fail
    UInt32Range \* 2^32

WRITE_ONCE == 1                 \* PSA_STORAGE_FLAG_WRITE_ONCE
PSA_ITS_MAGIC == 777            \* PSA_ITS_MAGIC_STRING

ASSUME ItsFileAssumption ==
    /\ Contents \subseteq Seq(Nat)
    /\ UInt32Range \in Nat \ {0}
    /\ Foreign \subseteq Seq(Nat)
    /\ Absent \notin Seq(Nat)
    /\ CanFail \subseteq {"fopen_rb", "fopen_wb", "fread", "fwrite", "fclose",
                          "rename", "remove", "calloc"}

VARIABLES
    files,      \* the file of every identifier
    temp,       \* PSA_ITS_STORAGE_TEMP
    at,         \* where the current psa_its_set() is
    job,        \* its arguments
    status      \* its status variable

fileVars == <<files, temp>>
setVars == <<at, job, status>>
itsVars == <<files, temp, at, job, status>>

NoJob == [uid |-> Absent, data |-> <<>>, flags |-> 0]

\* The outcomes of a call to the C library: TRUE is success.
Tries(call) == IF call \in CanFail THEN BOOLEAN ELSE {TRUE}

-----------------------------------------------------------------------------
(* Reading; f is the file of the identifier, or Absent.                    *)

Header(data, flags) == <<PSA_ITS_MAGIC, Len(data), flags>>
HeaderLength == 3

\* What the files written by psa_its_set() look like.
FileOf(data, flags) == Header(data, flags) \o data

\* psa_its_read_file(): any failure to open the file is reported as its
\* absence, and a header that cannot be read like one that is wrong.
psa_its_read_file(f) ==
    {IF ~opened \/ f = Absent THEN [status |-> "DOES_NOT_EXIST", size |-> 0]
     ELSE IF ~readable \/ Len(f) < HeaderLength \/ f[1] # PSA_ITS_MAGIC
     THEN [status |-> "DATA_CORRUPT", size |-> 0]
     ELSE [status |-> "SUCCESS", size |-> f[2]] :
        opened \in Tries("fopen_rb"), readable \in Tries("fread")}

psa_its_get_info(f) == psa_its_read_file(f)

\* psa_its_get() of length cells at an offset; the sum is a uint32_t.
psa_its_get(f, offset, length) ==
    LET end == (offset + length) % UInt32Range
        stored == SubSeq(f, HeaderLength + 1, Len(f)) IN
    {IF info.status # "SUCCESS" THEN [status |-> info.status, data |-> <<>>]
     ELSE IF end < offset \/ end > info.size
     THEN [status |-> "INVALID_ARGUMENT", data |-> <<>>]
     ELSE IF ~readable \/ end > Len(stored)
     THEN [status |-> "STORAGE_FAILURE", data |-> <<>>]
     ELSE [status |-> "SUCCESS", data |-> SubSeq(stored, offset + 1, end)] :
        info \in psa_its_read_file(f), readable \in Tries("fread")}

-----------------------------------------------------------------------------
(* psa_its_set().                                                          *)

SetStart(u, data, flags) ==
    /\ at = "idle"
    /\ at' = "open"
    /\ job' = [uid |-> u, data |-> data, flags |-> flags]
    /\ UNCHANGED <<files, temp, status>>

\* fopen(PSA_ITS_STORAGE_TEMP, "wb") truncates what an earlier call left.
SetOpen ==
    /\ at = "open"
    /\ \E ok \in Tries("fopen_wb") :
        /\ temp' = IF ok THEN <<>> ELSE temp
        /\ status' = IF ok THEN "SUCCESS" ELSE "STORAGE_FAILURE"
        /\ at' = IF ok THEN "header" ELSE "unlink"
    /\ UNCHANGED <<files, job>>

\* fwrite() of some cells: all of them, or fewer and an error. The stream is
\* not buffered.
Write(cells, next) ==
    /\ \/ /\ temp' = temp \o cells
          /\ at' = next
          /\ UNCHANGED status
       \/ /\ FALSE \in Tries("fwrite")
          /\ \E n \in 0 .. Len(cells) - 1 : temp' = temp \o SubSeq(cells, 1, n)
          /\ status' = "INSUFFICIENT_STORAGE"
          /\ at' = "close"
    /\ UNCHANGED <<files, job>>

SetHeader == at = "header" /\ Write(Header(job.data, job.flags), "data")

SetData == at = "data" /\ Write(job.data, "close")

\* Mutant of Closed: the file is renamed in any case.
ClosedUnchecked(ok) == "SUCCESS"
Closed(ok) ==
    IF status = "SUCCESS" /\ ~ok THEN "INSUFFICIENT_STORAGE" ELSE status

SetClose ==
    /\ at = "close"
    /\ \E ok \in Tries("fclose") :
        /\ status' = Closed(ok)
        /\ at' = IF Closed(ok) = "SUCCESS" THEN "rename" ELSE "unlink"
    /\ UNCHANGED <<files, temp, job>>

Renamed(ok) == IF ok THEN status ELSE "STORAGE_FAILURE"

SetRename ==
    /\ at = "rename"
    /\ \E ok \in Tries("rename") :
        /\ files' = IF ok THEN [files EXCEPT ![job.uid] = temp] ELSE files
        /\ temp' = IF ok THEN Absent ELSE temp
        /\ status' = Renamed(ok)
    /\ at' = "unlink"
    /\ UNCHANGED job

\* The result of remove(PSA_ITS_STORAGE_TEMP) is ignored.
SetUnlink ==
    /\ at = "unlink"
    /\ \E ok \in Tries("remove") : temp' = IF ok THEN Absent ELSE temp
    /\ at' = "done"
    /\ UNCHANGED <<files, job, status>>

SetStep == SetOpen \/ SetHeader \/ SetData \/ SetClose \/ SetRename \/ SetUnlink

\* Return to the caller.
SetReturn ==
    /\ at = "done"
    /\ at' = "idle"
    /\ job' = NoJob
    /\ UNCHANGED <<files, temp, status>>

-----------------------------------------------------------------------------
(* psa_its_remove() and the end of the process.                            *)

\* The outcomes of psa_its_remove().
psa_its_remove(u) ==
    {IF ~opened \/ files[u] = Absent
     THEN [disk |-> files, status |-> "DOES_NOT_EXIST"]
     ELSE IF ~removed THEN [disk |-> files, status |-> "STORAGE_FAILURE"]
     ELSE [disk |-> [files EXCEPT ![u] = Absent], status |-> "SUCCESS"] :
        opened \in Tries("fopen_rb"), removed \in Tries("remove")}

Remove(u) ==
    /\ at = "idle"
    /\ \E r \in psa_its_remove(u) :
        /\ files' = r.disk
        /\ status' = r.status
    /\ UNCHANGED <<temp, at, job>>

\* The process dies and starts again; the files stay as they are.
Restart ==
    /\ at' = "idle"
    /\ job' = NoJob
    /\ status' = "NONE"
    /\ UNCHANGED <<files, temp>>

-----------------------------------------------------------------------------
Init ==
    /\ files \in [Uids -> Foreign \cup {Absent}]
    /\ temp = Absent
    /\ at = "idle"
    /\ job = NoJob
    /\ status = "NONE"

Next ==
    \/ \E u \in Uids, data \in Contents, flags \in {0, WRITE_ONCE} :
        SetStart(u, data, flags)
    \/ SetStep
    \/ SetReturn
    \/ \E u \in Uids : Remove(u)
    \/ Restart

Spec == Init /\ [][Next]_itsVars

-----------------------------------------------------------------------------
(* Correctness.                                                            *)

Steps == {"idle", "open", "header", "data", "close", "rename", "unlink", "done"}

TypeOK ==
    /\ files \in [Uids -> Seq(Nat) \cup {Absent}]
    /\ temp \in Seq(Nat) \cup {Absent}
    /\ at \in Steps
    /\ at # "idle" => job \in [uid : Uids, data : Contents, flags : {0, WRITE_ONCE}]
    /\ status \in {"NONE", "SUCCESS", "STORAGE_FAILURE", "INSUFFICIENT_STORAGE",
                   "DOES_NOT_EXIST"}

Whole(f) == \E data \in Contents, flags \in {0, WRITE_ONCE} : f = FileOf(data, flags)

\* "the content of a file is always a version that was previously passed to
\* set()": whichever call fails and wherever the process dies, psa_its_set()
\* never leaves a partly written file under an identifier.
FilesWhole ==
    \A u \in Uids : files[u] = Absent \/ files[u] \in Foreign \/ Whole(files[u])

\* The progress of psa_its_set() that makes FilesWhole inductive: as long as
\* nothing has failed, the temporary file holds what was written so far.
TempFollows ==
    /\ at = "header" => temp = <<>> /\ status = "SUCCESS"
    /\ at = "data" => temp = Header(job.data, job.flags) /\ status = "SUCCESS"
    /\ at = "rename" => status = "SUCCESS"
    /\ at \in {"close", "rename"} /\ status = "SUCCESS" =>
          temp = FileOf(job.data, job.flags)
    /\ at \in {"unlink", "done"} /\ status = "SUCCESS" =>
          files[job.uid] = FileOf(job.data, job.flags) /\ temp = Absent

\* The inductive invariant behind FilesWhole and SuccessCommits.
ItsInv == TypeOK /\ TempFollows /\ FilesWhole

\* "The temporary file may still exist, but only in failure cases where we're
\* already reporting an error": when psa_its_set() is about to return success
\* the data is under its identifier and nowhere else.
SuccessCommits ==
    at = "done" /\ status = "SUCCESS" =>
        /\ files[job.uid] = FileOf(job.data, job.flags)
        /\ temp = Absent
=============================================================================
