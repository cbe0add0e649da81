--------------------------- MODULE KeyStoreFaults ---------------------------
(***************************************************************************)
(* The key store with a mutex implementation that can fail: what           *)
(* psa_destroy_key() does when it cannot take the key slot mutex again     *)
(* after it has registered on the slot.                                    *)
(***************************************************************************)
EXTENDS KeyStore

\* PSA_THREADING_CHK_GOTO_EXIT stores the error in status and jumps to exit;
\* there the slot is unregistered, without the mutex, and the call returns
\* overall_status, which is still PSA_SUCCESS, unless the unlock fails too.
DestroyLockFails(t) ==
    LET slot == slots[src[t]] IN
    /\ pc[t] = "destroying"
    /\ Put(src[t], Unregistered(slot))
    /\ src' = [src EXCEPT ![t] = NoSlot]
    /\ \E unlock \in {"SUCCESS", "FAILED"} :
        Return(t, IF UnregisterStatus(slot) = "SUCCESS"
                  THEN unlock ELSE UnregisterStatus(slot))
    /\ Goto(t, "idle")
    /\ UNCHANGED <<storage, dst, want>>

FaultyNext == Next \/ \E t \in Threads : DestroyLockFails(t)

FaultySpec == Init /\ [][FaultyNext]_vars
=============================================================================
