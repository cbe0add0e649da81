------------------------------ MODULE DriversMC ------------------------------
\* Instances of Drivers for model checking. With 13 bytes of nonce CCM encodes
\* lengths below 6 here (2^16 in the code).
EXTENDS Drivers

MCLengthRange == [nonce \in CcmNonces |-> IF nonce = 13 THEN 6 ELSE 100]
\* Slices of two and three slots.
MCSliceLength == [i \in Slices |-> 2 + i]
MCMdSize == [SHA |-> 4, MD |-> 8]
MCMdOid == [SHA |-> <<1, 2>>, MD |-> <<1, 2, 3>>]
=============================================================================
