---------------------------- MODULE MCJniBridge ----------------------------
(***************************************************************************)
(* Instances of JniBridge.  A payload is one element that records which    *)
(* function made it of which arguments, so that two different calls, or    *)
(* one call that read different bytes, never yield equal payloads.         *)
(***************************************************************************)
EXTENDS JniBridge

CONSTANTS x, y    \* two byte[] objects

(* An array has no byte, or one that may be written while calls run. *)
MCContents == {<< >>, << 1 >>, << 2 >>}

Payload(tag, op, args) == << << tag, op, args >> >>

MCDefaultMessage == << << "default" >> >>

ScalarSlots == {"depth", "epoch", "epoch_old", "prover_index", "prover_index_old",
                "admin_index", "admin_index_old"}

(* External: scalars but the epoch are small, the new roster may be NULL,  *)
(* and only leaf hashes and a salt may be empty, as a conversion that      *)
(* failed leaves them.                                                     *)
MCAccepts(op, args) ==
  \A s \in DOMAIN args :
    IF s \in {"epoch", "epoch_old"} THEN TRUE
    ELSE IF s \in ScalarSlots THEN args[s] <= 3
    ELSE IF args[s] = NULL THEN s = "leaves_new"
    ELSE args[s] # << >> \/ s \in {"leaf_hashes", "salt"}

(* External: an FFI function may return an empty buffer. *)
MCOutput(op, args) ==
  IF op = "parsePlonkProof" THEN << << >> >>
  ELSE IF Kind(op) # "pair" THEN << Payload("out", op, args) >>
  ELSE << Payload("proof", op, args),
          IF op = "tyrannyProveCreate" THEN << >> ELSE Payload("second", op, args) >>

(* External: an FFI function may leave no message. *)
MCReason(op, args) ==
  IF op = "computePublicKey" \/ (op = "nostrVerifyEventSignature" /\ args["pk"] # << >>)
  THEN NULL ELSE Payload("why", op, args)

---------------------------------------------------------------------------
(* Calls: Which(i) is the array passed as the i-th argument. *)
CallOf(op, Which(_), int, long) ==
  [op |-> op,
   args |-> [p \in Params(op) |->
               IF p = "depth" THEN 1
               ELSE IF p \in IntParams THEN int
               ELSE IF p \in LongParams THEN long
               ELSE Which(Position(Rows[op].wrapper, p))]]

Bit(k, i) == (i \div 2^k) % 2

(* Two threads: one buffer, one verdict and one pair, of two arrays. *)
MCThreadCalls ==
  {CallOf(op, LAMBDA i : IF i % 2 = 1 THEN x ELSE y, 2, 0) :
     op \in {"computeLeafHash", "nostrVerifyEventSignature", "oneOnOneProveCreate"}}

(***************************************************************************)
(* Every entry point.  For any two byte[] parameters some call passes two  *)
(* different arrays: the calls number the parameters in binary.  The other *)
(* calls pass a negative index, a negative tier, a negative epoch, the     *)
(* null roster, and a new roster in an array of its own.                   *)
(***************************************************************************)
MCAllCalls ==
  {CallOf(op, LAMBDA i : IF Bit(k, i) = 1 THEN x ELSE y, 2, 0) : op \in Ops, k \in 0 .. 3}
  \cup {CallOf(op, LAMBDA i : x, -1, 0) : op \in Ops}
  \cup {[CallOf(op, LAMBDA i : x, 2, 0) EXCEPT !.args["depth"] = -1] :
          op \in {o \in Ops : "depth" \in Params(o)}}
  \cup {CallOf(op, LAMBDA i : x, 2, -1) : op \in Ops}
  \cup {[CallOf("anarchyProveUpdate", LAMBDA i : y, 2, 0)
            EXCEPT !.args["memberLeafHashesNew"] = roster] : roster \in {NULL, x}}
===========================================================================
