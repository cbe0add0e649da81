---------------------------- MODULE KeyStorageMC ----------------------------
(* Instances of KeyStorage for TLC.                                        *)
EXTENDS KeyStorage, TLC

\* Two sets of attributes that differ in every field.
Attribute(n) == [lifetime |-> n, type |-> n + 10, bits |-> n + 20,
                 usage |-> n + 30, alg |-> n + 40, alg2 |-> n + 50]
MCAttributes == {Attribute(1), Attribute(2)}

\* No material, material of the largest size, and one cell too many.
MCKeyDatas == {<<>>, <<5>>, <<6, 7>>, <<5, 6, 7>>}

MCContents == {psa_format_key_data_for_storage(d, a) :
                 d \in {e \in MCKeyDatas : Savable(e)}, a \in MCAttributes}

WrongVersion == <<PSA_KEY_STORAGE_MAGIC, 1, 1, 1, 1, 1, 1, 1, 1, 5>>
WrongMagic == <<PSA_ITS_MAGIC, 0, 1, 1, 1, 1, 1, 1, 1, 5>>
TooLong == <<PSA_KEY_STORAGE_MAGIC, 0, 1, 1, 1, 1, 1, 1, 2, 5>>
NoMaterial == <<PSA_KEY_STORAGE_MAGIC, 0, 1, 1, 1, 1, 1, 1, 0>>

\* Files that are not keys of this version, and files that were cut short
\* or have grown.
MCForeign ==
    {<<PSA_ITS_MAGIC>>, FileOf(<<>>, 0), FileOf(WrongVersion, 0),
     FileOf(WrongMagic, 0), FileOf(TooLong, 0), FileOf(NoMaterial, 0),
     SubSeq(KeyFile(Attribute(1), <<6, 7>>), 1, 13),
     KeyFile(Attribute(2), <<5>>) \o <<9>>}

Symmetry == Permutations(Uids)
=============================================================================
