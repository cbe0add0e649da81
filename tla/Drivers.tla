------------------------------- MODULE Drivers -------------------------------
(***************************************************************************)
(* Parts of the library that share no state, side by side: authenticated   *)
(* encryption and RSA, from the calls of the API down to the code of the   *)
(* algorithms, and the slices of volatile key slots.  A behaviour is about *)
(* one of them.                                                            *)
(***************************************************************************)
EXTENDS Aead, FreeList, RsaCalls

DriversInit == Init /\ FreeListInit /\ CallsInit

Unused == op = NoOp /\ ret.call = "none"
AuthenticatedEncryption ==
    /\ Idle /\ slices = {} /\ status = "SUCCESS"
    /\ Next
    /\ UNCHANGED <<freeListVars, call>>
VolatileSlots == Idle /\ Unused /\ FreeListNext /\ UNCHANGED <<vars, call>>
RsaCalled ==
    /\ Unused /\ slices = {} /\ status = "SUCCESS"
    /\ RsaNext \/ Return
    /\ UNCHANGED <<vars, freeListVars>>

DriversNext == AuthenticatedEncryption \/ VolatileSlots \/ RsaCalled
DriversSpec == DriversInit /\ [][DriversNext]_<<vars, freeListVars, call>>
=============================================================================
