---------------------------- MODULE KeyStoreAbs ----------------------------
(***************************************************************************)
(* What the key store promises its callers: a map from key identifiers to  *)
(* key material, in which every call takes effect at one instant. There    *)
(* are no slots, caches or files here. A call that uses a key works on the *)
(* material the identifier had at one instant of the call, to its end.     *)
(***************************************************************************)
CONSTANTS
    Threads,
    Ids,            \* all key identifiers
    VolatileIds,    \* those that do not outlive the process
    FixedKeys,      \* the keys of the platform, a function on a subset of Ids
    KeyValues,      \* key material
    NoKey

VARIABLES
    keys,           \* the material of every identifier, NoKey if there is none
    handle          \* the material each thread is working with

absvars == <<keys, handle>>

Destroyable == Ids \ DOMAIN FixedKeys

Init ==
    /\ keys = [k \in Ids |->
                 IF k \in DOMAIN FixedKeys THEN FixedKeys[k] ELSE NoKey]
    /\ handle = [t \in Threads |-> NoKey]

\* A key becomes visible, with all its material, under an unused identifier.
Create(k, m) ==
    /\ keys[k] = NoKey
    /\ keys' = [keys EXCEPT ![k] = m]
    /\ UNCHANGED handle

\* A call starts to use a key.
Open(t, k) ==
    /\ handle[t] = NoKey
    /\ keys[k] # NoKey
    /\ handle' = [handle EXCEPT ![t] = keys[k]]
    /\ UNCHANGED keys

Close(t) ==
    /\ handle' = [handle EXCEPT ![t] = NoKey]
    /\ UNCHANGED keys

\* The thread that destroys a key was working with that very key; the other
\* threads that use it are not disturbed.
Destroy(t, k) ==
    /\ keys[k] # NoKey
    /\ handle[t] = keys[k]
    /\ keys' = [keys EXCEPT ![k] = NoKey]
    /\ handle' = [handle EXCEPT ![t] = NoKey]

\* The process ends: only volatile keys are lost.
Restart ==
    /\ keys' = [k \in Ids |-> IF k \in VolatileIds THEN NoKey ELSE keys[k]]
    /\ handle' = [t \in Threads |-> NoKey]

Next ==
    \/ \E k \in Destroyable : \E m \in KeyValues : Create(k, m)
    \/ \E t \in Threads : Close(t)
    \/ \E t \in Threads, k \in Ids : Open(t, k)
    \/ \E t \in Threads, k \in Destroyable : Destroy(t, k)
    \/ Restart

Spec == Init /\ [][Next]_absvars
=============================================================================
