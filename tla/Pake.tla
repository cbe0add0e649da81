-------------------------------- MODULE Pake --------------------------------
(***************************************************************************)
(* Password-authenticated key exchange: psa_pake_*() of core/psa_crypto.c, *)
(* the built-in J-PAKE of psa_crypto_pake.c and the protocol of ecjpake.c, *)
(* between a client and a server. The application carries what one         *)
(* outputs to the other, on a route that may mix up the elements; either   *)
(* side may fail, abort and start again.                                   *)
(*                                                                         *)
(* A point is its discrete logarithm; a proof of knowledge is what it      *)
(* proves (generator, point, prover), the ideal of ecjpake_zkp_write() and *)
(* ecjpake_zkp_read(). A part takes one cell of the buffer.                *)
(***************************************************************************)
EXTENDS Status

CONSTANTS
    GroupOrder,     \* a prime
    Ephemeral,      \* the random numbers: role -> session -> <<xm1, xm2>>; bounds
                    \* the number of times that a participant starts
    Passwords,      \* pairs: role -> secret
    Routes,         \* slot of the reader -> element of the peer; 0 is garbage
    JpakeBuffer     \* MBEDTLS_PSA_JPAKE_BUFFER_SIZE, in cells

PakeRoles == {"client", "server"}
PakePeer(role) == IF role = "client" THEN "server" ELSE "client"

ASSUME PakeAssumption ==
    /\ GroupOrder \in Nat /\ GroupOrder > 2
    /\ JpakeBuffer \in Nat
    /\ Ephemeral \in [PakeRoles -> Seq((1 .. GroupOrder - 1) \X (1 .. GroupOrder - 1))]
    /\ Passwords \subseteq [PakeRoles -> 1 .. GroupOrder - 1]
    /\ Routes \subseteq [1 .. 3 -> 0 .. 3] /\ <<1, 2, 3>> \in Routes

VARIABLES
    pop,    \* role -> the operation object
    pctx,   \* role -> the context of the driver
    pheap,  \* role -> the blocks allocated for it, and "bad" after a wrong free
    psent,  \* role -> what it output: element and step -> part
    pkey,   \* role -> the shared key it obtained, or none
    papp    \* the passwords, the routes and the number of sessions so far
pakeVars == <<pop, pctx, pheap, psent, pkey, papp>>

\* A part: KEY_SHARE (1), ZK_PUBLIC (2) or ZK_PROOF (3), and what it is about.
Part(st, g, x, id) == [st |-> st, g |-> IF st = 1 THEN 0 ELSE g, x |-> x,
                       id |-> IF st = 1 THEN "any" ELSE id]
Garbage == Part(2, 0, 0, "nobody")
NotSent == Part(1, 0, 0, "nobody")

\* After memset(operation, 0); the pointers of data.inputs are FALSE when NULL.
NoPake == [stage |-> "SETUP", round |-> 0, io_mode |-> "INPUT", inputs |-> 0,
           outputs |-> 0, step |-> 0, password |-> FALSE, user |-> FALSE, peer |-> FALSE]
NoJpake == [role |-> "NONE", s |-> 0, buffer |-> <<>>, offset |-> 0,
            xm1 |-> 0, xm2 |-> 0, Xp1 |-> 0, Xp2 |-> 0, Xp |-> 0]

PakeInit ==
    /\ pop = [role \in PakeRoles |-> NoPake]
    /\ pctx = [role \in PakeRoles |-> NoJpake]
    /\ pheap = [role \in PakeRoles |-> {}]
    /\ psent = [role \in PakeRoles |-> [e \in 1 .. 3 |-> [st \in 1 .. 3 |-> NotSent]]]
    /\ pkey = [role \in PakeRoles |-> 0]
    /\ papp \in [secret : Passwords, route : [PakeRoles -> Routes],
                 session : {[role \in PakeRoles |-> 0]}]
    /\ \E role \in PakeRoles : papp.route[role] = <<1, 2, 3>>
    /\ papp.secret["client"] # papp.secret["server"] =>
         \A role \in PakeRoles : papp.route[role] = <<1, 2, 3>>

-----------------------------------------------------------------------------
(* ecjpake.c. A group element is a number modulo the order of the group.   *)

ecjpake_ecp_add3(a, b, c) == (a + b + c) % GroupOrder

\* ECJPAKEKeyKP: a point, the point of the proof, the number of the proof.
ecjpake_kkp_write(g, x, id) == [st \in 1 .. 3 |-> Part(st, g, x, id)]

ecjpake_kkp_read(g, kkp, id) ==
    /\ kkp[1].st = 1 /\ kkp[1].x # 0
    /\ \A st \in 2 .. 3 : kkp[st] = Part(st, g, kkp[1].x, id)

\* As written to the buffer: each part follows its length.
ElementLength == Part(0, 1, 0, "one cell")
WithLengths(kkp) == <<ElementLength, kkp[1], ElementLength, kkp[2], ElementLength, kkp[3]>>
ECParameters == [c \in 1 .. 3 |-> Part(4, c, 0, "secp256r1")]

\* mutant: the two keys of the first round change places
RoundOneSwapped(ctx, x) ==
    [ctx EXCEPT !.xm1 = x[1], !.xm2 = x[2], !.offset = 0,
                !.buffer = WithLengths(ecjpake_kkp_write(1, x[2], ctx.role))
                             \o WithLengths(ecjpake_kkp_write(1, x[1], ctx.role))]
mbedtls_ecjpake_write_round_one(ctx, x) ==
    [ctx EXCEPT !.xm1 = x[1], !.xm2 = x[2], !.offset = 0,
                !.buffer = WithLengths(ecjpake_kkp_write(1, x[1], ctx.role))
                             \o WithLengths(ecjpake_kkp_write(1, x[2], ctx.role))]
mbedtls_ecjpake_write_round_two(ctx) ==
    LET g == ecjpake_ecp_add3(ctx.Xp1, ctx.Xp2, ctx.xm1)
        x == (ctx.xm2 * ctx.s * g) % GroupOrder
    IN  [ctx EXCEPT !.offset = 0,
                    !.buffer = (IF ctx.role = "server" THEN ECParameters ELSE <<>>)
                                 \o WithLengths(ecjpake_kkp_write(g, x, ctx.role))]

\* What a reader finds: the context, and whether it accepts the message. A
\* rejected message leaves the points that were read before the error.
Parts(buffer) == SelectSeq(buffer, LAMBDA c : c.st \in 1 .. 3)
mbedtls_ecjpake_read_round_one(ctx) ==
    LET p == Parts(ctx.buffer) IN
    [ok |-> /\ Len(p) = 6
            /\ ecjpake_kkp_read(1, SubSeq(p, 1, 3), PakePeer(ctx.role))
            /\ ecjpake_kkp_read(1, SubSeq(p, 4, 6), PakePeer(ctx.role)),
     ctx |-> [ctx EXCEPT !.Xp1 = p[1].x, !.Xp2 = p[4].x, !.buffer = <<>>]]
mbedtls_ecjpake_read_round_two(ctx) ==
    LET p == Parts(ctx.buffer)
        g == ecjpake_ecp_add3(ctx.xm1, ctx.xm2, ctx.Xp1)
    IN  [ok |-> /\ ctx.role = "client" <=> SubSeq(ctx.buffer, 1, 3) = ECParameters
                /\ Len(p) = 3 /\ ecjpake_kkp_read(g, p, PakePeer(ctx.role)),
         ctx |-> [ctx EXCEPT !.Xp = p[1].x, !.buffer = <<>>]]

\* K = (Xp - Xp2 * xm2 * s) * xm2
mbedtls_ecjpake_derive_k(ctx) ==
    ((ctx.Xp + (GroupOrder - ((ctx.xm2 * ctx.s) % GroupOrder)) * ctx.Xp2) * ctx.xm2)
      % GroupOrder

-----------------------------------------------------------------------------
(* psa_crypto_pake.c. A driver step is an element (1, 2, or 3 for X2S and X4S) *)
(* and a step of it.                                                       *)

mbedtls_psa_pake_setup(role, secret) == [NoJpake EXCEPT !.role = role, !.s = secret]

Skipped(ctx, e, st) == IF e = 3 /\ st = 1 /\ ctx.role = "server" THEN 3 ELSE 0

OutputReset(ctx, e, st) ==
    IF e > 1 /\ st = 3 THEN [ctx EXCEPT !.buffer = <<>>, !.offset = 0] ELSE ctx

\* The round is written at its first key share, and handed out part by part.
mbedtls_psa_pake_output_internal(ctx, e, st, x) ==
    LET written == CASE e = 1 /\ st = 1 -> mbedtls_ecjpake_write_round_one(ctx, x)
                     [] e = 3 /\ st = 1 -> mbedtls_ecjpake_write_round_two(ctx)
                     [] OTHER -> ctx
        at == written.offset + Skipped(ctx, e, st) + 1     \* of the length
        ok == at < Len(written.buffer) /\ written.buffer[at] = ElementLength
    IN  [ok |-> ok,
         part |-> IF ok THEN written.buffer[at + 1] ELSE Garbage,
         ctx |-> OutputReset([written EXCEPT !.offset = at + 1], e, st)]

\* The parts of a round are put together, and read with the last of them.
mbedtls_psa_pake_input_internal(ctx, e, st, part) ==
    LET params == IF e = 3 /\ st = 1 /\ ctx.role = "client" THEN ECParameters ELSE <<>>
        filled == [ctx EXCEPT !.buffer = @ \o params \o <<ElementLength, part>>]
    IN  IF Len(filled.buffer) > JpakeBuffer THEN [ok |-> FALSE, ctx |-> ctx]
        ELSE CASE e = 2 /\ st = 3 -> mbedtls_ecjpake_read_round_one(filled)
               [] e = 3 /\ st = 3 -> mbedtls_ecjpake_read_round_two(filled)
               [] OTHER -> [ok |-> TRUE, ctx |-> filled]

-----------------------------------------------------------------------------
(* psa_crypto.c                                                            *)

\* The blocks that data.inputs points to, whatever data really holds.
Pointed(op) == {b \in {"password", "user", "peer"} : op[b]}
Freed(heap, blocks) == (heap \ blocks) \cup IF blocks \subseteq heap THEN {} ELSE {"bad"}

\* psa_pake_abort(), from an operation and a heap that a call has already changed.
psa_pake_abort(role, op, heap) ==
    /\ pop' = [pop EXCEPT ![role] = NoPake]
    /\ pctx' = [pctx EXCEPT ![role] = NoJpake]
    /\ pheap' = [pheap EXCEPT ![role] =
                   CASE op.stage = "COMPUTATION" -> Freed(heap, {"copy"})
                     [] op.stage = "COLLECT_INPUTS" -> Freed(heap, Pointed(op))
                     [] OTHER -> heap]

PakeAborts(role, op, heap) ==
    psa_pake_abort(role, op, heap) /\ UNCHANGED <<psent, pkey, papp>>
PakeBecomes(role, op, heap) ==
    /\ pop' = [pop EXCEPT ![role] = op]
    /\ pheap' = [pheap EXCEPT ![role] = heap]
    /\ UNCHANGED <<pctx, psent, pkey, papp>>

\* The key is copied by psa_pake_set_password_key().
psa_pake_setup(role) ==
    LET op == pop[role]
        collecting == [NoPake EXCEPT !.stage = "COLLECT_INPUTS", !.step = 1]
    IN  \/ op.stage # "SETUP" /\ PakeAborts(role, op, pheap[role])
        \/ op.stage = "SETUP" /\ PakeAborts(role, collecting, pheap[role])
        \/ /\ op.stage = "SETUP" /\ papp.session[role] < Len(Ephemeral[role])
           /\ pop' = [pop EXCEPT ![role] = [collecting EXCEPT !.password = TRUE]]
           /\ pheap' = [pheap EXCEPT ![role] = @ \cup {"password"}]
           /\ papp' = [papp EXCEPT !.session[role] = @ + 1]
           /\ psent' = [psent EXCEPT ![role] = [e \in 1 .. 3 |-> [st \in 1 .. 3 |-> NotSent]]]
           /\ pkey' = [pkey EXCEPT ![role] = 0]
           /\ UNCHANGED pctx

\* psa_pake_set_user() and psa_pake_set_peer(): a second name is refused; the
\* block may be allocated and the copy of the argument not.
SetName(role, name) ==
    LET op == pop[role]
        heap == pheap[role] \cup {name}
        named == [op EXCEPT ![name] = TRUE]
    IN  \/ PakeAborts(role, op, pheap[role])
        \/ /\ op.stage = "COLLECT_INPUTS" /\ ~op[name]
           /\ PakeBecomes(role, named, heap) \/ PakeAborts(role, named, heap)

psa_pake_set_user(role) == SetName(role, "user")
psa_pake_set_peer(role) == SetName(role, "peer")

\* A role other than none, or a wrong stage.
psa_pake_set_role(role) == PakeAborts(role, pop[role], pheap[role])

-----------------------------------------------------------------------------
(* The two rounds.                                                         *)

\* mutant: the union is not cleared for the driver
InputsKept(op) == op
\* The operation for the driver: data is the context of the driver now.
InputsCleared(op) == [op EXCEPT !.password = FALSE, !.user = FALSE, !.peer = FALSE]

\* What psa_pake_complete_inputs() makes of a stage: the operation, the context,
\* the heap and whether the call goes on. The driver may lack memory, in which
\* case it has freed its own copy.
PakeComplete(role, driver) ==
    LET op == pop[role]
        heap == Freed(pheap[role], Pointed(op))
        same == [ok |-> TRUE, op |-> op, ctx |-> pctx[role], heap |-> pheap[role]]
        cleared == [same EXCEPT !.ok = FALSE, !.op = InputsCleared(op), !.heap = heap]
    IN  IF op.stage # "COLLECT_INPUTS" THEN same
        ELSE IF ~(op.user /\ op.peer) THEN [same EXCEPT !.ok = FALSE]
        ELSE IF ~driver THEN cleared
        ELSE [cleared EXCEPT !.ok = TRUE, !.op.stage = "COMPUTATION",
                             !.ctx = mbedtls_psa_pake_setup(role, papp.secret[role]),
                             !.heap = heap \cup {"copy"}]

PSA_JPAKE_EXPECTED(round) == CASE round = 0 -> 2 [] round = 1 -> 1 [] OTHER -> 0

psa_jpake_prologue(op, step, io_mode) ==
    LET start == step = 1 /\ op.inputs = 0 /\ op.outputs = 0 IN
    [ok |-> op.round < 2 /\ step = op.step /\ (start \/ op.io_mode = io_mode),
     op |-> [op EXCEPT !.io_mode = io_mode]]

convert_jpake_computation_stage_to_driver_step(op) ==
    CASE op.round = 1 -> 3
      [] op.io_mode = "OUTPUT" -> op.outputs + 1
      [] OTHER -> op.inputs + 1

psa_jpake_epilogue(op, io_mode) ==
    LET expected == PSA_JPAKE_EXPECTED(op.round)
        inputs == op.inputs + IF io_mode = "INPUT" THEN 1 ELSE 0
        outputs == op.outputs + IF io_mode = "OUTPUT" THEN 1 ELSE 0
        counted == [op EXCEPT !.step = 1, !.inputs = inputs, !.outputs = outputs,
                              !.io_mode = CASE @ = "INPUT" /\ inputs = expected -> "OUTPUT"
                                            [] @ = "OUTPUT" /\ outputs = expected -> "INPUT"
                                            [] OTHER -> @]
    IN  IF op.step < 3 THEN [op EXCEPT !.step = @ + 1]
        ELSE IF inputs = expected /\ outputs = expected
        THEN [counted EXCEPT !.inputs = 0, !.outputs = 0, !.round = @ + 1]
        ELSE counted

\* The end of psa_pake_output() and psa_pake_input() after the driver's answer r.
PakeEnds(role, op, heap, r, io_mode) ==
    /\ pop' = [pop EXCEPT ![role] = psa_jpake_epilogue(op, io_mode)]
    /\ pctx' = [pctx EXCEPT ![role] = r.ctx]
    /\ pheap' = [pheap EXCEPT ![role] = heap]

\* fails is where the call fails for a wrong size or for want of memory: not at
\* all, in the setup of the driver, or later.
PakeOutputs(role, step, good, c, op, e, r) ==
    \/ ~good /\ PakeAborts(role, c.op, c.heap)
    \/ good /\ ~r.ok /\ PakeAborts(role, op, c.heap)
    \/ /\ good /\ r.ok
       /\ PakeEnds(role, op, c.heap, r, "OUTPUT")
       /\ psent' = [psent EXCEPT ![role][e][step] = r.part]
       /\ UNCHANGED <<pkey, papp>>
psa_pake_output(role, step, fails) ==
    LET c == PakeComplete(role, fails # "setup")
        p == psa_jpake_prologue(c.op, step, "OUTPUT")
        e == convert_jpake_computation_stage_to_driver_step(p.op)
    IN  PakeOutputs(role, step, c.ok /\ c.op.stage = "COMPUTATION" /\ fails = "no" /\ p.ok,
                    c, p.op, e,
                    mbedtls_psa_pake_output_internal(c.ctx, e, step,
                                                     Ephemeral[role][papp.session[role]]))

\* The application gives what the peer sent for the element of its route, once
\* there is such a thing.
psa_pake_input(role, step, fails) ==
    LET c == PakeComplete(role, fails # "setup")
        p == psa_jpake_prologue(c.op, step, "INPUT")
        e == convert_jpake_computation_stage_to_driver_step(p.op)
        from == papp.route[role][e]
        part == IF from = 0 THEN Garbage ELSE psent[PakePeer(role)][from][step]
        r == mbedtls_psa_pake_input_internal(c.ctx, e, step, part)
        good == c.ok /\ c.op.stage = "COMPUTATION" /\ fails = "no" /\ p.ok
    IN  \/ ~good /\ PakeAborts(role, c.op, c.heap)
        \/ good /\ part # NotSent /\ ~r.ok /\ PakeAborts(role, p.op, c.heap)
        \/ /\ good /\ part # NotSent /\ r.ok
           /\ PakeEnds(role, p.op, c.heap, r, "INPUT")
           /\ UNCHANGED <<psent, pkey, papp>>

\* The operation ends in any case; the import of the key may fail.
psa_pake_get_shared_key(role) ==
    LET op == pop[role] IN
    /\ psa_pake_abort(role, op, pheap[role])
    /\ UNCHANGED <<psent, papp>>
    /\ \/ UNCHANGED pkey
       \/ /\ op.stage = "COMPUTATION" /\ op.round = 2
          /\ pkey' = [pkey EXCEPT ![role] = mbedtls_ecjpake_derive_k(pctx[role])]

PakeNext ==
    \E role \in PakeRoles :
      \/ psa_pake_setup(role)
      \/ psa_pake_set_user(role) \/ psa_pake_set_peer(role)
      \/ psa_pake_set_role(role)
      \/ \E step \in 1 .. 3, fails \in {"no", "setup", "later"} :
           \/ psa_pake_output(role, step, fails)
           \/ psa_pake_input(role, step, fails)
      \/ psa_pake_get_shared_key(role)

PakeSpec == PakeInit /\ [][PakeNext]_pakeVars

-----------------------------------------------------------------------------
(* Properties.                                                             *)

\* The blocks of a participant are those its operation owns in its stage: the
\* three copies that data.inputs points to, then the driver's copy of the
\* password, then nothing. No path loses a block or frees one twice, although
\* data is a union of the inputs and of the driver's context
\* (psa_pake_complete_inputs() and psa_pake_abort()).
PakeMemory ==
    \A role \in PakeRoles :
      pheap[role] = CASE pop[role].stage = "COLLECT_INPUTS" -> Pointed(pop[role])
                      [] pop[role].stage = "COMPUTATION" -> {"copy"}
                      [] OTHER -> {}

\* The one buffer of the driver serves both directions. It holds something only
\* between the first and the last part of the round in one direction, so that no
\* output is read out of an input and no input is appended to an output.
PakeBufferClean ==
    \A role \in PakeRoles :
      LET op == pop[role]
          expected == PSA_JPAKE_EXPECTED(op.round)
          between == op.step \in {0, 1} /\ op.inputs \in {0, expected}
                                        /\ op.outputs \in {0, expected}
      IN  pctx[role].buffer = <<>> <=> op.stage # "COMPUTATION" \/ between

\* The parts that the application gets are the parts of the element it asks for:
\* the three of an element belong together, whatever of the buffer was read
\* before (mbedtls_psa_pake_output_internal() and the length bytes).
PakeOutputsExact ==
    \A role \in PakeRoles, e \in 1 .. 3, st \in 1 .. 3 :
      LET part == psent[role][e][st] IN
      part # NotSent =>
        /\ part.st = st /\ part.x = psent[role][e][1].x
        /\ st > 1 => part.id = role
        /\ e < 3 => part.x = Ephemeral[role][papp.session[role]][e]

\* Between two participants of one session each, and on straight routes, no step
\* that the core lets through is refused by the driver: an honest exchange can
\* always be carried to its end, in whichever order its two directions are taken.
PakeHonestAccepted ==
    (\A role \in PakeRoles : papp.route[role] = <<1, 2, 3>> /\ papp.session[role] = 1) =>
    \A role \in PakeRoles :
      LET op == pop[role]
          out == psa_jpake_prologue(op, op.step, "OUTPUT")
          in == psa_jpake_prologue(op, op.step, "INPUT")
          OutElement == convert_jpake_computation_stage_to_driver_step(out.op)
          InElement == convert_jpake_computation_stage_to_driver_step(in.op)
          Given == psent[PakePeer(role)][InElement][op.step]
      IN  /\ op.stage = "COMPUTATION" /\ out.ok =>
               mbedtls_psa_pake_output_internal(pctx[role], OutElement, op.step,
                                                Ephemeral[role][1]).ok
          /\ op.stage = "COMPUTATION" /\ in.ok /\ Given # NotSent =>
               mbedtls_psa_pake_input_internal(pctx[role], InElement, op.step, Given).ok

\* Two participants that both get a key have the same key if and only if they
\* have the same password, whatever was lost, mixed up, aborted and started
\* again: a route that is not straight gives no key at all.
PakeAgreement ==
    (\A role \in PakeRoles : pkey[role] # 0) =>
      /\ (papp.secret["client"] = papp.secret["server"]) <=> (pkey["client"] = pkey["server"])
      /\ \A role \in PakeRoles : papp.route[role] = <<1, 2, 3>>
\* Two parties that run J-PAKE through the psa_pake_*() calls accept each
\* other's elements when nothing is lost or swapped on the way, give out each
\* element once and in its place, and share a key exactly when they share the
\* password and received each other's elements.
PakeCorrect ==
    /\ PakeBufferClean
    /\ PakeOutputsExact
    /\ PakeHonestAccepted
    /\ PakeAgreement
=============================================================================
