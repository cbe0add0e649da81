--------------------------- MODULE Interruptible ---------------------------
(***************************************************************************)
(* Interruptible operations: psa_sign_hash_*(), psa_verify_hash_*(),       *)
(* psa_export_public_key_iop_*(), psa_key_agreement_iop_*() and            *)
(* psa_generate_key_iop_*() of core/psa_crypto.c, their built-in part in   *)
(* psa_crypto.c and psa_crypto_ecp.c, and the restart contexts and the     *)
(* budget of ecp.c and ecdsa.c, on short Weierstrass curves.               *)
(*                                                                         *)
(* A computation is the sequence of its steps, each of which is paid for   *)
(* from a budget; a call stops in front of a step it cannot pay. Scalars   *)
(* are neither 0 nor 1 nor -1, and no r or s of a signature is 0.          *)
(***************************************************************************)
EXTENDS Status

CONSTANTS
    OpsChk, OpsDbl, OpsAdd, OpsInv, \* MBEDTLS_ECP_OPS_CHK and the others
    Window,     \* w of the comb method
    Digits,     \* d of the comb method
    Scales,     \* what the size of the curve multiplies the costs by
    MaxOps      \* bound: values given to psa_interruptible_set_max_ops()

ASSUME IopAssumption ==
    /\ {OpsChk, OpsDbl, OpsAdd, OpsInv} \subseteq Nat \ {0}
    /\ Window \in Nat /\ Window > 1 /\ Digits \in Nat \ {0}
    /\ Scales \subseteq Nat \ {0} /\ MaxOps \subseteq Nat

VARIABLES
    iop,    \* the operation object: which of the five, and its fields
    ictx,   \* its built-in context
    imax,   \* psa_interruptible_max_ops
    idone   \* the computation that the last call completed
iopVars == <<iop, ictx, imax, idone>>

IopKinds == {"sign", "verify", "export", "agree", "generate"}
NotStarted == [key |-> FALSE]
NoResult == [steps |-> <<>>, kind |-> "NONE"]

IopInit ==
    /\ iop \in [kind : IopKinds, id : {FALSE}, error_occurred : {FALSE}, num_ops : {0}]
    /\ ictx = NotStarted
    /\ imax \in MaxOps
    /\ idone = NoResult

-----------------------------------------------------------------------------
(* ecp.c: multiplication. rs is the restart context: sig or ver (outer), ma, *)
(* rsm and its index, and whether the group has a table for its generator.   *)

TableSize == 2 ^ (Window - 1)
Doubles == Digits * (Window - 1)

\* A step: its name, what it costs, and the context after it.
Step(name, cost, rs) == [name |-> name, cost |-> cost, rs |-> rs]

\* Making the table, in four phases.
ecp_precompute_comb(rs, generator) ==
    CASE rs.rsm = "pre_dbl" ->
           Step("dbl", OpsDbl,
                IF rs.i + 1 < Doubles THEN [rs EXCEPT !.i = @ + 1]
                ELSE [rs EXCEPT !.rsm = "pre_norm_dbl"])
      [] rs.rsm = "pre_norm_dbl" ->
           Step("norm_dbl", OpsInv + 6 * (Window - 1) - 2, [rs EXCEPT !.rsm = "pre_add"])
      [] rs.rsm = "pre_add" ->
           Step("add", (TableSize - 1) * OpsAdd, [rs EXCEPT !.rsm = "pre_norm_add"])
      [] OTHER ->
           Step("norm_add", OpsInv + 6 * (TableSize - 1) - 2,
                [rs EXCEPT !.rsm = "comb_core", !.i = Digits, !.table = @ \/ generator])

\* The digits, the last one first.
ecp_mul_comb_core(rs) ==
    Step("comb", OpsDbl + OpsAdd,
         IF rs.i > 1 THEN [rs EXCEPT !.i = @ - 1] ELSE [rs EXCEPT !.rsm = "final_norm"])

ecp_mul_comb_after_precomp(rs) ==
    IF rs.rsm = "final_norm" THEN Step("final", OpsInv, [rs EXCEPT !.rsm = "none"])
    ELSE ecp_mul_comb_core(rs)

\* There is no table to make if the group has it for its generator.
ecp_mul_comb(rs, generator) ==
    IF rs.rsm \in {"comb_core", "final_norm"} THEN ecp_mul_comb_after_precomp(rs)
    ELSE ecp_precompute_comb(rs, generator)

\* Without an operation in progress the arguments are checked.
ecp_mul_restartable_internal(rs, generator) ==
    IF rs.rsm # "none" THEN ecp_mul_comb(rs, generator)
    ELSE Step("chk", OpsChk,
              IF generator /\ rs.table THEN [rs EXCEPT !.rsm = "comb_core", !.i = Digits]
              ELSE [rs EXCEPT !.rsm = "pre_dbl", !.i = 0])

\* mutant: the second product starts with the context of the first
MuladdKeepingContext(rs) ==
    LET s == ecp_mul_restartable_internal(rs, rs.ma = "mul1")
        over == rs.rsm = "final_norm"
    IN  CASE rs.ma = "mul1" ->
               IF over THEN [s EXCEPT !.rs.ma = "mul2", !.rs.rsm = "comb_core"] ELSE s
          [] rs.ma = "mul2" -> IF over THEN [s EXCEPT !.rs.ma = "add"] ELSE s
          [] rs.ma = "add" -> Step("ma_add", OpsAdd, [rs EXCEPT !.ma = "norm"])
          [] OTHER -> Step("ma_norm", OpsInv, [rs EXCEPT !.outer = "done"])

\* Two products, a sum and a normalisation.
mbedtls_ecp_muladd_restartable(rs) ==
    LET s == ecp_mul_restartable_internal(rs, rs.ma = "mul1")
        over == rs.rsm = "final_norm"
    IN  CASE rs.ma = "mul1" -> IF over THEN [s EXCEPT !.rs.ma = "mul2"] ELSE s
          [] rs.ma = "mul2" -> IF over THEN [s EXCEPT !.rs.ma = "add"] ELSE s
          [] rs.ma = "add" -> Step("ma_add", OpsAdd, [rs EXCEPT !.ma = "norm"])
          [] OTHER -> Step("ma_norm", OpsInv, [rs EXCEPT !.outer = "done"])

\* ecdsa.c and psa_crypto_ecp.c.
mbedtls_ecdsa_sign_restartable(rs) ==
    IF rs.outer = "modn" THEN Step("modn", OpsInv + 4, [rs EXCEPT !.outer = "done"])
    ELSE LET s == ecp_mul_restartable_internal(rs, TRUE)
         IN  [s EXCEPT !.rs.outer = IF rs.rsm = "final_norm" THEN "modn" ELSE "mul"]
mbedtls_ecdsa_verify_restartable(rs) ==
    IF rs.outer = "init"
    THEN Step("prepare", OpsChk + OpsInv + 2, [rs EXCEPT !.outer = "muladd"])
    ELSE mbedtls_ecp_muladd_restartable(rs)
product_step(rs, generator) ==
    LET s == ecp_mul_restartable_internal(rs, generator)
    IN  [s EXCEPT !.rs.outer = IF rs.rsm = "final_norm" THEN "done" ELSE @]

NextStep(kind, rs) ==
    CASE kind = "sign" -> mbedtls_ecdsa_sign_restartable(rs)
      [] kind = "verify" -> mbedtls_ecdsa_verify_restartable(rs)
      [] OTHER -> product_step(rs, kind = "export")

\* mutant: no step is free
BudgetForEveryStep(ops, ops_done, max_ops) ==
    ~(ops_done > max_ops \/ ops > max_ops - ops_done)
\* The first step of a call is always allowed.
mbedtls_ecp_check_budget(ops, ops_done, max_ops) ==
    ops_done = 0 \/ ~(ops_done > max_ops \/ ops > max_ops - ops_done)

\* One call: steps until the work is done or the budget is spent.
LongestComputation == 2 * (Doubles + Digits + 5) + 3
TakeStep(c, s, cost, max_ops) ==
    IF \/ c.rs.outer = "done" \/ c.stopped
       \/ ~mbedtls_ecp_check_budget(cost, c.ops_done, max_ops)
    THEN [c EXCEPT !.stopped = TRUE]
    ELSE [c EXCEPT !.rs = s.rs, !.ops_done = @ + cost, !.steps = Append(@, s.name)]
TakeNext(c, s, scale, max_ops) == TakeStep(c, s, s.cost * scale, max_ops)
Called(ctx) == [rs |-> ctx.rs, steps |-> ctx.steps, ops_done |-> 0, stopped |-> FALSE]
Run(kind, ctx, max_ops) ==
    LET after[n \in Nat] ==
          IF n = 0 THEN Called(ctx)
          ELSE LET c == after[n - 1] IN TakeNext(c, NextStep(kind, c.rs), ctx.scale, max_ops)
    IN  after[LongestComputation]

-----------------------------------------------------------------------------
(* The built-in part of the operations.                                    *)

\* Zero would mean no limit to ecp.c.
mbedtls_psa_interruptible_set_max_ops(max_ops) == IF max_ops = 0 THEN 1 ELSE max_ops

\* A context with its key loaded. The public key of the peer is checked at once.
Started(scale, table) ==
    [key |-> TRUE, scale |-> scale, start |-> table, steps |-> <<>>, num_ops |-> 0,
     rs |-> [outer |-> "init", ma |-> "mul1", rsm |-> "none", i |-> 0, table |-> table]]
mbedtls_psa_sign_hash_start(scale, table) == Started(scale, table)
mbedtls_psa_verify_hash_start(scale, table) == Started(scale, table)
mbedtls_psa_ecp_generate_key_iop_setup(scale, table) == Started(scale, table)
mbedtls_psa_ecp_export_public_key_iop_setup(scale, table, public) ==
    [Started(scale, table) EXCEPT !.rs.outer = IF public THEN "done" ELSE @]
mbedtls_psa_key_agreement_iop_setup(scale) ==
    [Started(scale, FALSE) EXCEPT !.num_ops = OpsChk]

NumOps(ctx, run) == ctx.num_ops + run.ops_done

\* The context after a call, and its status: the computation is over or not.
AfterRun(ctx, run) ==
    [status |-> IF run.rs.outer = "done" THEN "OK" ELSE "INCOMPLETE",
     ctx |-> [ctx EXCEPT !.rs = run.rs, !.steps = run.steps, !.num_ops = NumOps(ctx, run)]]
Completes(kind, ctx) ==
    AfterRun(ctx, Run(kind, ctx, mbedtls_psa_interruptible_set_max_ops(imax)))
mbedtls_psa_sign_hash_complete(ctx) == Completes("sign", ctx)
mbedtls_psa_verify_hash_complete(ctx) == Completes("verify", ctx)
mbedtls_psa_ecp_export_public_key_iop_complete(ctx) == Completes("export", ctx)
mbedtls_psa_key_agreement_iop_complete(ctx) == Completes("agree", ctx)
mbedtls_psa_ecp_generate_key_iop_complete(ctx) ==
    [status |-> "OK", ctx |-> [ctx EXCEPT !.num_ops = 1]]

-----------------------------------------------------------------------------
(* psa_crypto.c.                                                           *)

Fresh == ~iop.id /\ ~iop.error_occurred
Usable == iop.id /\ ~iop.error_occurred

IopFailed(num_ops) ==
    /\ iop' = [iop EXCEPT !.id = FALSE, !.error_occurred = TRUE, !.num_ops = num_ops]
    /\ ictx' = NotStarted /\ idone' = NoResult /\ UNCHANGED imax
IopRefused == UNCHANGED <<iop, ictx, imax>> /\ idone' = NoResult

\* Setting up: a wrong state changes nothing, an error is remembered. num_ops is
\* what the count may be after an error; it is reset when the key has been found.
IopStarts(ctx) ==
    /\ iop' = [iop EXCEPT !.id = TRUE, !.num_ops = ctx.num_ops]
    /\ ictx' = ctx /\ idone' = NoResult /\ UNCHANGED imax
\* The computation is set up, and then the key slot cannot be given back: the
\* operation is in error, with its context still loaded.
IopStartsInError(ctx) ==
    /\ iop' = [iop EXCEPT !.id = TRUE, !.error_occurred = TRUE, !.num_ops = ctx.num_ops]
    /\ ictx' = ctx /\ idone' = NoResult /\ UNCHANGED imax
\* The setup of an export reports the same failure without remembering it: what it
\* leaves behind is what IopStarts leaves.
UnlockErrorsKept == {"sign", "verify", "agree"}
IopSetup(kind, contexts, counts) ==
    /\ iop.kind = kind
    /\ \/ ~Fresh /\ IopRefused
       \/ Fresh /\ \E ctx \in contexts : IopStarts(ctx)
       \/ /\ Fresh /\ kind \in UnlockErrorsKept
          /\ \E ctx \in contexts : IopStartsInError(ctx)
       \/ Fresh /\ \E num_ops \in counts : IopFailed(num_ops)

psa_sign_hash_start ==
    IopSetup("sign", {mbedtls_psa_sign_hash_start(scale, table) :
                        scale \in Scales, table \in BOOLEAN}, {0, iop.num_ops})
psa_verify_hash_start ==
    IopSetup("verify", {mbedtls_psa_verify_hash_start(scale, table) :
                          scale \in Scales, table \in BOOLEAN}, {0, iop.num_ops})
psa_export_public_key_iop_setup ==
    IopSetup("export", {mbedtls_psa_ecp_export_public_key_iop_setup(scale, table, public) :
                          scale \in Scales, table \in BOOLEAN, public \in BOOLEAN}, {0})
psa_key_agreement_iop_setup ==
    IopSetup("agree", {mbedtls_psa_key_agreement_iop_setup(scale) : scale \in Scales},
             {0, iop.num_ops})

\* Here a wrong state is an error, and ends what was going on.
psa_generate_key_iop_setup ==
    /\ iop.kind = "generate"
    /\ \/ Fresh /\ \E scale \in Scales, table \in BOOLEAN :
                     IopStarts(mbedtls_psa_ecp_generate_key_iop_setup(scale, table))
       \/ IopFailed(iop.num_ops)
       \/ Fresh /\ IopFailed(0)

\* The end of a call that made progress: INCOMPLETE keeps the operation, the
\* other statuses end it.
IopEnds(status, ctx, error) ==
    /\ iop' = [iop EXCEPT !.id = (status = "INCOMPLETE"), !.num_ops = ctx.num_ops,
                          !.error_occurred = error]
    /\ ictx' = IF status = "INCOMPLETE" THEN ctx ELSE NotStarted
    /\ idone' = IF status # "OK" THEN NoResult
                ELSE [kind |-> iop.kind, steps |-> ctx.steps, start |-> ctx.start,
                      scale |-> ctx.scale, num_ops |-> ctx.num_ops]
    /\ UNCHANGED imax

\* What may go wrong when the steps are done: writing the result, a signature
\* that does not verify, or the import of the new key.
Finally(r, error) ==
    IF r.status = "INCOMPLETE" THEN IopEnds(r.status, r.ctx, FALSE)
    ELSE \/ IopEnds("OK", r.ctx, FALSE)
         \/ IopEnds(error, r.ctx, TRUE)

\* A wrong state is an error here, and the output buffer may be too small, which
\* is found before any work.
psa_sign_hash_complete ==
    /\ iop.kind = "sign"
    /\ \/ IopFailed(iop.num_ops)
       \/ Usable /\ Finally(mbedtls_psa_sign_hash_complete(ictx), "INSUFFICIENT_MEMORY")

psa_verify_hash_complete ==
    /\ iop.kind = "verify"
    /\ \/ ~Usable /\ IopFailed(iop.num_ops)
       \/ Usable /\ Finally(mbedtls_psa_verify_hash_complete(ictx), "INVALID_SIGNATURE")

psa_export_public_key_iop_complete ==
    /\ iop.kind = "export"
    /\ \/ ~Usable /\ IopRefused
       \/ Usable /\ Finally(mbedtls_psa_ecp_export_public_key_iop_complete(ictx),
                            "BUFFER_TOO_SMALL")

\* error_occurred is set whatever the status, when it is not INCOMPLETE.
psa_key_agreement_iop_complete ==
    /\ iop.kind = "agree"
    /\ \/ ~Usable /\ IopRefused
       \/ /\ Usable
          /\ LET r == mbedtls_psa_key_agreement_iop_complete(ictx) IN
             \E status \in IF r.status = "OK" THEN {"OK", "NOT_PERMITTED"} ELSE {r.status} :
               IopEnds(status, r.ctx, status # "INCOMPLETE")

psa_generate_key_iop_complete ==
    /\ iop.kind = "generate"
    /\ \/ ~Usable /\ IopRefused
       \/ Usable /\ IopFailed(iop.num_ops)
       \/ Usable /\ Finally(mbedtls_psa_ecp_generate_key_iop_complete(ictx), "NOT_PERMITTED")

IopAbort(kind) ==
    /\ iop.kind = kind
    /\ iop' = [iop EXCEPT !.id = FALSE, !.error_occurred = FALSE, !.num_ops = 0]
    /\ ictx' = NotStarted /\ idone' = NoResult /\ UNCHANGED imax
psa_sign_hash_abort == IopAbort("sign")
psa_verify_hash_abort == IopAbort("verify")
psa_export_public_key_iop_abort == IopAbort("export")
psa_key_agreement_iop_abort == IopAbort("agree")
psa_generate_key_iop_abort == IopAbort("generate")

psa_interruptible_set_max_ops ==
    imax' \in MaxOps /\ idone' = NoResult /\ UNCHANGED <<iop, ictx>>

IopNext ==
    \/ psa_sign_hash_start \/ psa_sign_hash_complete \/ psa_sign_hash_abort
    \/ psa_verify_hash_start \/ psa_verify_hash_complete \/ psa_verify_hash_abort
    \/ psa_export_public_key_iop_setup \/ psa_export_public_key_iop_complete
    \/ psa_export_public_key_iop_abort
    \/ psa_key_agreement_iop_setup \/ psa_key_agreement_iop_complete
    \/ psa_key_agreement_iop_abort
    \/ psa_generate_key_iop_setup \/ psa_generate_key_iop_complete
    \/ psa_generate_key_iop_abort
    \/ psa_interruptible_set_max_ops

IopSpec == IopInit /\ [][IopNext]_iopVars

-----------------------------------------------------------------------------
(* What a computation should be.                                           *)

Times(n, name) == [k \in 1 .. n |-> name]
Product(table) ==
    <<"chk">> \o (IF table THEN <<>>
                  ELSE Times(Doubles, "dbl") \o <<"norm_dbl", "add", "norm_add">>)
              \o Times(Digits, "comb") \o <<"final">>
Computation(kind, table) ==
    CASE kind = "sign" -> Product(table) \o <<"modn">>
      [] kind = "verify" ->
           <<"prepare">> \o Product(table) \o Product(FALSE) \o <<"ma_add", "ma_norm">>
      [] kind = "generate" -> <<>>
      [] OTHER -> Product(table)

Price(name) ==
    CASE name = "chk" -> OpsChk
      [] name = "dbl" -> OpsDbl
      [] name = "norm_dbl" -> OpsInv + 6 * (Window - 1) - 2
      [] name = "add" -> (TableSize - 1) * OpsAdd
      [] name = "norm_add" -> OpsInv + 6 * (TableSize - 1) - 2
      [] name = "comb" -> OpsDbl + OpsAdd
      [] name = "modn" -> OpsInv + 4
      [] name = "prepare" -> OpsChk + OpsInv + 2
      [] name = "ma_add" -> OpsAdd
      [] OTHER -> OpsInv
Total(steps, scale) ==
    LET first[n \in Nat] == IF n = 0 THEN 0 ELSE first[n - 1] + Price(steps[n]) * scale
    IN  first[Len(steps)]

-----------------------------------------------------------------------------
(* Properties.                                                             *)

\* The context holds a key exactly while abort would clear it. An operation in
\* error holds one only if the slot of its key could not be given back when it was
\* set up, and then no step of its computation is ever taken: nothing is left in
\* memory of an operation whose computation began and failed, ended or was aborted.
IopTypeOK ==
    /\ ictx.key <=> iop.id
    /\ iop.id /\ iop.error_occurred => iop.kind \in UnlockErrorsKept /\ ictx.steps = <<>>

\* Wherever a computation was interrupted, and however the limit changed in the
\* meantime, the computation that completes has every step once and in order
\* (the jumps of ecp_mul_comb(), ecp_precompute_comb() and muladd).
IopExact ==
    /\ iop.id => IsPrefix(ictx.steps, Computation(iop.kind, ictx.start))
    /\ idone # NoResult =>
         idone.steps \in {Computation(idone.kind, idone.start)}
                           \cup (IF idone.kind = "export" THEN {<<>>} ELSE {})

\* The number of operations that the application reads is the price of the steps
\* that were taken so far, also right after the end.
IopOpsExact ==
    LET extra == IF iop.kind = "agree" THEN OpsChk ELSE 0 IN
    /\ iop.id => iop.num_ops = extra + Total(ictx.steps, ictx.scale)
    /\ idone # NoResult /\ idone.kind # "generate" =>
         idone.num_ops = extra + Total(idone.steps, idone.scale)

\* In whatever state an operation was interrupted, and whatever the limit is now,
\* the next call ends the computation or takes at least one more step of it: an
\* application that calls again and again gets to the end, however small the
\* limit, zero included.
IopProgress ==
    Usable /\ iop.kind # "generate" =>
      LET r == Completes(iop.kind, ictx)
      IN  r.status = "OK" \/ Len(r.ctx.steps) > Len(ictx.steps)

\* crypto.h on psa_key_agreement_iop_complete(), and on the other four: "When this
\* function returns successfully, the operation becomes inactive."
IopReusable == idone # NoResult => Fresh
\* Wherever the budget interrupts it and with whatever budget it goes on, a
\* computation ends with the result of the uninterrupted one, after the number
\* of basic operations it reports, and an error during it leaves no context behind.
IopCorrect ==
    /\ IopTypeOK
    /\ IopExact
    /\ IopOpsExact
=============================================================================
