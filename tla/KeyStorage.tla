----------------------------- MODULE KeyStorage -----------------------------
(***************************************************************************)
(* Persistent keys on internal trusted storage, core/psa_crypto_storage.c: *)
(* saving, loading and destroying a key, over the files of ItsFile.        *)
(*                                                                         *)
(* A call is under the key slot mutex from its start to its end. Its       *)
(* read-only parts are one action; psa_its_set() takes its steps, and the  *)
(* process can die before each.                                            *)
(***************************************************************************)
EXTENDS ItsFile

CONSTANTS
    Attributes,     \* key attributes the application can ask for
    KeyDatas,       \* key material
    MaxStorageSize  \* PSA_CRYPTO_MAX_STORAGE_SIZE

AttributeType == [lifetime : Nat, type : Nat, bits : Nat, usage : Nat,
                  alg : Nat, alg2 : Nat]


VARIABLES
    call,       \* the current or last call
    ret,        \* its status, once it has returned
    loaded      \* what the last successful load returned

storageVars == <<files, temp, at, job, status, call, ret, loaded>>

NoCall == [name |-> "none", key |-> Absent, attr |-> Absent, data |-> <<>>]
Nothing == [attr |-> Absent, data |-> <<>>]

-----------------------------------------------------------------------------
(* The contents of a key file.                                             *)

PSA_KEY_STORAGE_MAGIC == 888    \* PSA_KEY_STORAGE_MAGIC_HEADER
FormatLength == 9               \* sizeof(psa_persistent_key_storage_format)

psa_format_key_data_for_storage(data, attr) ==
    <<PSA_KEY_STORAGE_MAGIC, 0, attr.lifetime, attr.type, attr.bits, attr.usage,
      attr.alg, attr.alg2, Len(data)>> \o data

KeyDataFits(cells) ==
    /\ cells[9] <= Len(cells) - FormatLength
    /\ cells[9] <= MaxStorageSize

\* Mutant of ValidFormat: the version is not looked at.
ValidAnyVersion(cells) ==
    /\ Len(cells) >= FormatLength
    /\ cells[1] = PSA_KEY_STORAGE_MAGIC
    /\ KeyDataFits(cells)

ValidFormat(cells) ==
    /\ Len(cells) >= FormatLength
    /\ cells[1] = PSA_KEY_STORAGE_MAGIC
    /\ cells[2] = 0
    /\ KeyDataFits(cells)

\* psa_parse_key_data_from_storage() of valid contents.
Parsed(cells) ==
    [attr |-> [lifetime |-> cells[3], type |-> cells[4], bits |-> cells[5],
               usage |-> cells[6], alg |-> cells[7], alg2 |-> cells[8]],
     data |-> SubSeq(cells, FormatLength + 1, FormatLength + cells[9])]

-----------------------------------------------------------------------------
(* psa_save_persistent_key() and psa_crypto_storage_store().               *)

\* Mutant of psa_is_key_present_in_storage: a file that cannot be read does
\* not count.
PresentIfReadable(k) ==
    {info.status = "SUCCESS" : info \in psa_its_get_info(files[k])}

\* psa_is_key_present_in_storage(): a file that is there but cannot be read
\* counts as a key.
psa_is_key_present_in_storage(k) ==
    {info.status # "DOES_NOT_EXIST" : info \in psa_its_get_info(files[k])}

Unused(k) == FALSE \in psa_is_key_present_in_storage(k)

Savable(data) == Len(data) > 0 /\ Len(data) <= MaxStorageSize

ASSUME KeyStorageAssumption ==
    /\ Attributes \subseteq AttributeType
    /\ KeyDatas \subseteq Seq(Nat)
    /\ MaxStorageSize \in Nat
    /\ Contents = {psa_format_key_data_for_storage(data, attr) :
                     data \in {d \in KeyDatas : Savable(d)}, attr \in Attributes}

\* Why a key is refused before anything is written.
Refusals(k, data) ==
    IF Len(data) = 0 THEN {"INVALID_ARGUMENT"}
    ELSE IF Len(data) > MaxStorageSize THEN {"INSUFFICIENT_STORAGE"}
    ELSE {"INSUFFICIENT_MEMORY" : ok \in Tries("calloc") \ {TRUE}}
           \cup {"ALREADY_EXISTS" :
                   present \in psa_is_key_present_in_storage(k) \ {FALSE}}

SaveRefused(k, attr, data) ==
    /\ at = "idle"
    /\ call' = [name |-> "save", key |-> k, attr |-> attr, data |-> data]
    /\ ret' \in Refusals(k, data)
    /\ UNCHANGED <<files, temp, at, job, status, loaded>>

SaveStart(k, attr, data) ==
    /\ Savable(data)
    /\ Unused(k)
    /\ SetStart(k, psa_format_key_data_for_storage(data, attr), 0)
    /\ call' = [name |-> "save", key |-> k, attr |-> attr, data |-> data]
    /\ ret' = "NONE"
    /\ UNCHANGED loaded

SaveStep == SetStep /\ UNCHANGED <<call, ret, loaded>>

\* After psa_its_set(): its errors become PSA_ERROR_DATA_INVALID; what it
\* wrote is verified, and removed again if that fails.
SaveReturn ==
    /\ at = "done"
    /\ at' = "idle"
    /\ job' = NoJob
    /\ \/ /\ status # "SUCCESS"
          /\ ret' = "DATA_INVALID"
          /\ UNCHANGED files
       \/ /\ status = "SUCCESS"
          /\ \E info \in psa_its_get_info(files[job.uid]), r \in psa_its_remove(job.uid) :
              IF info.status = "SUCCESS" /\ info.size = Len(job.data)
              THEN files' = files /\ ret' = "SUCCESS"
              ELSE /\ files' = r.disk
                   /\ ret' = IF info.status = "SUCCESS" THEN "DATA_INVALID"
                             ELSE info.status
    /\ UNCHANGED <<temp, status, call, loaded>>

-----------------------------------------------------------------------------
(* psa_destroy_persistent_key() and psa_load_persistent_key().             *)

\* Mutant of DestroyStatus: the result of the removal is not looked at.
DestroyStatusIgnored(r, k) == "SUCCESS"

\* The status after psa_its_remove() returned r.
DestroyStatus(r, k) ==
    IF /\ r.status = "SUCCESS"
       /\ \A info \in psa_its_get_info(r.disk[k]) : info.status = "DOES_NOT_EXIST"
    THEN "SUCCESS" ELSE "DATA_INVALID"

psa_destroy_persistent_key(k) ==
    /\ at = "idle"
    /\ call' = [NoCall EXCEPT !.name = "destroy", !.key = k]
    /\ \E info \in psa_its_get_info(files[k]), r \in psa_its_remove(k) :
        IF info.status = "DOES_NOT_EXIST"
        THEN files' = files /\ ret' = "SUCCESS"
        ELSE files' = r.disk /\ ret' = DestroyStatus(r, k)
    /\ UNCHANGED <<temp, at, job, status, loaded>>

\* The outcomes of psa_crypto_storage_load() of size cells.
psa_crypto_storage_load(k, size) ==
    {IF info.status # "SUCCESS" THEN [status |-> info.status, data |-> <<>>]
     ELSE IF Len(got.data) # size THEN [status |-> "DATA_INVALID", data |-> <<>>]
     ELSE got : info \in psa_its_get_info(files[k]),
                got \in psa_its_get(files[k], 0, size)}

Failed(st) == [status |-> st, key |-> Nothing]

LoadOutcomes(k) ==
    UNION {IF info.status # "SUCCESS" THEN {Failed(info.status)}
           ELSE {Failed("INSUFFICIENT_MEMORY") : ok \in Tries("calloc") \ {TRUE}}
             \cup {IF read.status # "SUCCESS" THEN Failed(read.status)
                   ELSE IF ~ValidFormat(read.data) THEN Failed("DATA_INVALID")
                   ELSE IF Parsed(read.data).data = <<>>
                   THEN Failed("STORAGE_FAILURE")
                   ELSE [status |-> "SUCCESS", key |-> Parsed(read.data)] :
                     read \in psa_crypto_storage_load(k, info.size)} :
             info \in psa_its_get_info(files[k])}

psa_load_persistent_key(k) ==
    /\ at = "idle"
    /\ call' = [NoCall EXCEPT !.name = "load", !.key = k]
    /\ \E r \in LoadOutcomes(k) :
        /\ ret' = r.status
        /\ loaded' = r.key
    /\ UNCHANGED <<files, temp, at, job, status>>

-----------------------------------------------------------------------------
Crash ==
    /\ Restart
    /\ call' = NoCall
    /\ ret' = "NONE"
    /\ loaded' = Nothing

StorageInit == Init /\ call = NoCall /\ ret = "NONE" /\ loaded = Nothing

StorageNext ==
    \/ \E k \in Uids, attr \in Attributes, data \in KeyDatas :
        SaveRefused(k, attr, data) \/ SaveStart(k, attr, data)
    \/ SaveStep
    \/ SaveReturn
    \/ \E k \in Uids : psa_destroy_persistent_key(k) \/ psa_load_persistent_key(k)
    \/ Crash

StorageSpec == StorageInit /\ [][StorageNext]_storageVars

-----------------------------------------------------------------------------
(* Correctness.                                                            *)

KeyFile(attr, data) == FileOf(psa_format_key_data_for_storage(data, attr), 0)

Returned(name) == at = "idle" /\ call.name = name /\ ret = "SUCCESS"

\* The file f is one of internal trusted storage that begins with the contents
\* of a key file; other bytes may follow.
HoldsKey(f, attr, data) ==
    LET contents == psa_format_key_data_for_storage(data, attr) IN
    /\ f[1] = PSA_ITS_MAGIC
    /\ SubSeq(f, HeaderLength + 1, HeaderLength + Len(contents)) = contents

\* A load returns a key with the attributes and the material of the save that
\* wrote it, or fails. Of a file that another program wrote, that was cut short
\* or that has another version, nothing is made that is not in it.
LoadExact ==
    Returned("load") =>
        /\ HoldsKey(files[call.key], loaded.attr, loaded.data)
        /\ files[call.key] \notin Foreign =>
              files[call.key] = KeyFile(loaded.attr, loaded.data)

\* When saving a key succeeds, the key is in its file.
SaveCommits ==
    Returned("save") => files[call.key] = KeyFile(call.attr, call.data)

\* When destroying a key succeeds, its file is gone: psa_destroy_key()
\* documents PSA_SUCCESS as "the key material that it referred to has been
\* erased".
DestroyErases == Returned("destroy") => files[call.key] = Absent

\* While psa_its_set() runs it writes the key of the call in progress.
JobOfCall ==
    at # "idle" =>
        /\ call.name = "save"
        /\ call.key = job.uid
        /\ job.data = psa_format_key_data_for_storage(call.data, call.attr)
        /\ job.flags = 0
        /\ ret = "NONE"

\* Files are not written under the storage flags of another use.
KeyFiles ==
    \A u \in Uids : files[u] = Absent \/ files[u] \in Foreign
                       \/ \E contents \in Contents : files[u] = FileOf(contents, 0)

\* Until the rename there is no file of the key being saved.
FreshJob ==
    at \in {"open", "header", "data", "close", "rename"} => files[job.uid] = Absent

\* The inductive invariant behind the properties of persistent keys, whatever
\* fails, and its extension when files can be opened for reading.
StorageInv == ItsInv /\ JobOfCall /\ KeyFiles /\ SaveCommits /\ LoadExact
ReadableInv == StorageInv /\ FreshJob /\ DestroyErases

\* The file of a key is never replaced by another one, and it goes away only
\* when the key is destroyed or when its own creation is reported as failed.
KeysCommitted ==
    [][\A k \in Uids : files[k] # Absent /\ files'[k] # files[k] =>
          /\ files'[k] = Absent
          /\ \/ call'.name = "destroy" /\ call'.key = k
             \/ call.name = "save" /\ call.key = k /\ ret' # "SUCCESS"]_storageVars
=============================================================================
