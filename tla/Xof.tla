-------------------------------- MODULE Xof --------------------------------
(***************************************************************************)
(* Extendable-output functions: the calls psa_xof_*() of                   *)
(* core/psa_crypto.c with the built-in driver psa_crypto_xof.c (SHAKE).    *)
(* A function that takes a context has no built-in driver; the model gives *)
(* it one that absorbs the context before the message.                     *)
(***************************************************************************)
EXTENDS HashEngines

CONSTANTS
    MaxAbsorbed,    \* bound: bytes of a message
    MaxSqueezed     \* bound: bytes of output
ASSUME XofAssumption == MaxAbsorbed \in Nat /\ MaxSqueezed \in Nat

VARIABLES
    xop,    \* psa_xof_operation_t
    xctx,   \* mbedtls_sha3_context
    xgiven, \* the context and the message that the driver was given
    xgot    \* the output so far
xofVars == <<xop, xctx, xgiven, xgot>>

NoXof == [id |-> FALSE, active |-> FALSE, allows_context |-> FALSE,
          requires_context |-> FALSE, has_context |-> FALSE,
          has_input |-> FALSE, has_output |-> FALSE]
NoXofInput == [context |-> <<>>, message |-> <<>>]

XofInit == xop = NoXof /\ xctx = mbedtls_sha3_starts /\ xgiven = NoXofInput /\ xgot = <<>>

psa_xof_abort ==
    xop' = NoXof /\ xctx' = mbedtls_sha3_starts /\ xgiven' = NoXofInput /\ xgot' = <<>>

\* What a call leaves when the checks, the local copy and the driver agree, and
\* when one of the latter two does not.
XofCall(status, op, ctx, given, got) ==
    IF status = "OK" THEN xop' = op /\ xctx' = ctx /\ xgiven' = given /\ xgot' = got
    ELSE psa_xof_abort

\* A call that its checks refuse, which leaves the operation alone.
XofRefused(allowed) == ~allowed /\ UNCHANGED xofVars

psa_xof_setup(context) ==
    \E valid \in {"OK", "INVALID_ARGUMENT", "NOT_SUPPORTED"} :
      XofCall(First(Check(~xop.id, "BAD_STATE"), valid),
              [NoXof EXCEPT !.id = TRUE, !.active = TRUE,
                            !.allows_context = context, !.requires_context = context],
              mbedtls_sha3_starts, NoXofInput, <<>>)

ContextAllowed ==
    /\ xop.id /\ xop.active /\ xop.allows_context
    /\ ~xop.has_context /\ ~xop.has_input /\ ~xop.has_output

\* The context is cells apart from the message.
Context(n) == [i \in 1 .. n |-> <<"context", i>>]
psa_xof_set_context(n) ==
    \/ XofRefused(ContextAllowed)
    \/ /\ ContextAllowed
       /\ \E memory \in Memory, driver \in {"OK", "INVALID_ARGUMENT"} :
            XofCall(First(memory, driver), [xop EXCEPT !.has_context = TRUE],
                    mbedtls_sha3_update(xctx, Context(n)),
                    [xgiven EXCEPT !.context = Context(n)], xgot)

ContextGiven == xop.requires_context => xop.has_context

InputAfterOutput == xop.id /\ xop.active /\ ContextGiven    \* mutant
InputAllowed == xop.id /\ xop.active /\ ContextGiven /\ ~xop.has_output

psa_xof_update(n) ==
    \/ XofRefused(InputAllowed)
    \/ /\ InputAllowed
       /\ \E memory \in Memory :
            LET input == [i \in 1 .. n |-> <<"byte", Len(xgiven.message) + i>>] IN
            XofCall(IF n = 0 THEN "OK" ELSE memory, [xop EXCEPT !.has_input = TRUE],
                    mbedtls_sha3_update(xctx, input),
                    [xgiven EXCEPT !.message = @ \o input], xgot)

OutputAllowed == xop.id /\ xop.active /\ ContextGiven

psa_xof_output(n) ==
    \/ XofRefused(OutputAllowed)
    \/ /\ OutputAllowed
       /\ \E memory \in Memory :
            LET r == mbedtls_sha3_finish(xctx, ShakeSuffix, n) IN
            XofCall(IF n = 0 THEN "OK" ELSE memory, [xop EXCEPT !.has_output = TRUE],
                    IF n = 0 THEN xctx ELSE r.ctx, xgiven, xgot \o r.out)

XofNext ==
    \/ \E context \in BOOLEAN : psa_xof_setup(context)
    \/ \E n \in 0 .. Lane : psa_xof_set_context(n)
    \/ \E n \in 0 .. MaxAbsorbed - Len(xgiven.message) : psa_xof_update(n)
    \/ \E n \in 0 .. MaxSqueezed - Len(xgot) : psa_xof_output(n)
    \/ psa_xof_abort

XofSpec == XofInit /\ [][XofNext]_xofVars

-----------------------------------------------------------------------------
(* Properties.                                                             *)

\* The flags of an operation are set only in one that is in use; the index of the
\* driver stays inside a block.
XofTypeOK ==
    /\ xop.has_context => xop.allows_context
    /\ xop.has_input \/ xop.has_output => xop.active
    /\ xop.active <=> xop.id
    /\ xctx.index \in 0 .. Rate - 1

\* The output is one stream, the same however the message and the output are cut
\* into calls: it is made of the context and then of the message, all of it given
\* before the first byte of output, and padded once (sha3.c, psa_xof_update()).
XofStreamExact ==
    xgot = SpongeReference(xgiven.context \o xgiven.message, ShakeSuffix, Len(xgot))

\* A function that needs a context gives nothing without one: the driver has seen
\* neither message nor padding before it.
XofContextFirst ==
    xop.requires_context /\ ~xop.has_context =>
      xctx = mbedtls_sha3_starts /\ xgot = <<>>
\* The pieces that psa_xof_output() gives are consecutive parts of the stream of
\* everything absorbed before the first of them, context first.
XofCorrect ==
    /\ XofTypeOK
    /\ XofStreamExact
    /\ XofContextFirst
=============================================================================
