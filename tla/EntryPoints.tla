---------------------------- MODULE EntryPoints ----------------------------
(***************************************************************************)
(* The 23 entry points of the SDK and the positional plumbing of each one. *)
(* An argument keeps no name on its way down: the Kotlin wrapper passes    *)
(* its parameters by position to an external fun of OnymJni, the JVM       *)
(* passes them by position to the Java_..._<name> export of lib.rs, and    *)
(* the export passes its locals by position to the FFI function.  A row    *)
(* says, for one entry point:                                              *)
(*   wrapper  the Kotlin parameters, in the order the wrapper passes them; *)
(*   export   the names the Rust export gives those positions;             *)
(*   ffi      the export's names, in the order it hands them to the FFI;   *)
(*   slots    the names the FFI function declares for those positions;     *)
(*   kind     how the result comes back: "bytes", "text" (bytes that the   *)
(*            wrapper decodes to a String), "pair" or "bool".              *)
(* Entry points are named as in OnymJni.                                   *)
(***************************************************************************)
EXTENDS Integers, Sequences, SequencesExt

CONSTANTS PtrMod,    \* values of a usize: 2^32 or 2^64 by the Android ABI or host
          LongMod    \* values of a u64

ASSUME WidthAssumption == PtrMod \in Nat \ {0} /\ LongMod \in Nat \ {0}

(* mutant: the sign is dropped, as by unsigned_abs *)
UnsignedAbs(jint) == IF jint < 0 THEN -jint ELSE jint

(* Rust's `depth as usize` of a jint and `epoch as u64` of a jlong: a      *)
(* negative number becomes the unsigned one with the same low bits.        *)
AsUsize(jint) == jint % PtrMod
AsU64(jlong)  == jlong % LongMod

(* The table with the rows of both; f's where both have one. *)
Joined(f, g) ==
  [op \in DOMAIN f \cup DOMAIN g |-> IF op \in DOMAIN f THEN f[op] ELSE g[op]]

Row(kind, wrapper, export, ffi, slots) ==
  [kind |-> kind, wrapper |-> wrapper, export |-> export, ffi |-> ffi, slots |-> slots]

(* jni_one_in_one_out!(..): one byte[] in, one buffer out. *)
OneInOneOut(param, slot) ==
  Row("bytes", << param >>, << "input" >>, << "input" >>, << slot >>)

(* jni_bake_or_pinned!(..): a tier in, one buffer out. *)
BakeOrPinned(kind) ==
  Row(kind, << "depth" >>, << "depth" >>, << "depth" >>, << "depth" >>)

(* computeSha256Commitment and computePoseidonCommitment. *)
Commitment ==
  LET names == << "root", "epoch", "salt" >>
  IN  Row("bytes", << "poseidonRoot", "epoch", "salt" >>, names, names, names)

CommonRows ==
  [computeLeafHash           |-> OneInOneOut("secretKey", "sk"),
   computePublicKey          |-> OneInOneOut("secretKey", "sk"),
   parsePlonkProof           |-> OneInOneOut("proof", "proof"),
   nostrDerivePublicKey      |-> OneInOneOut("secretKey", "sk"),
   computeMerkleRoot         |->
     Row("bytes", << "leafHashes", "depth" >>, << "leaf_hashes", "depth" >>,
         << "leaf_hashes", "depth" >>, << "leaf_hashes", "depth" >>),
   computeSha256Commitment   |-> Commitment,
   computePoseidonCommitment |-> Commitment,
   nostrSignEventId          |->
     Row("bytes", << "secretKey", "eventId" >>, << "secret_key", "event_id" >>,
         << "secret_key", "event_id" >>, << "sk", "event_id" >>),
   nostrVerifyEventSignature |->
     Row("bool", << "publicKey", "eventId", "signature" >>,
         << "public_key", "event_id", "signature" >>,
         << "public_key", "event_id", "signature" >>, << "pk", "event_id", "sig" >>)]

(* mutant: the export hands its two salts to the FFI in the other order *)
AnarchyProveUpdateSaltsSwapped ==
  Row("pair",
      << "depth", "memberLeafHashesOld", "memberLeafHashesNew", "proverSecretKey",
         "proverIndexOld", "epochOld", "saltOld", "saltNew" >>,
      << "depth", "leaves_old", "leaves_new", "prover_sk",
         "prover_index_old", "epoch_old", "salt_old", "salt_new" >>,
      << "depth", "leaves_old", "leaves_new", "prover_sk",
         "prover_index_old", "epoch_old", "salt_new", "salt_old" >>,
      << "depth", "leaves_old", "leaves_new", "sk",
         "prover_index_old", "epoch_old", "salt_old", "salt_new" >>)

AnarchyProveUpdate ==
  LET names == << "depth", "leaves_old", "leaves_new", "prover_sk",
                  "prover_index_old", "epoch_old", "salt_old", "salt_new" >>
  IN  Row("pair",
          << "depth", "memberLeafHashesOld", "memberLeafHashesNew", "proverSecretKey",
             "proverIndexOld", "epochOld", "saltOld", "saltNew" >>,
          names, names,
          << "depth", "leaves_old", "leaves_new", "sk",
             "prover_index_old", "epoch_old", "salt_old", "salt_new" >>)

AnarchyRows ==
  [anarchyBakeMembershipVk            |-> BakeOrPinned("bytes"),
   anarchyBakeUpdateVk                |-> BakeOrPinned("bytes"),
   anarchyPinnedMembershipVkSha256Hex |-> BakeOrPinned("text"),
   anarchyPinnedUpdateVkSha256Hex     |-> BakeOrPinned("text"),
   anarchyProveMembership |->
     LET names == << "depth", "leaves", "prover_sk", "prover_index", "epoch", "salt" >>
     IN  Row("pair", << "depth", "memberLeafHashes", "proverSecretKey", "proverIndex",
                        "epoch", "salt" >>,
             names, names, << "depth", "leaves", "sk", "prover_index", "epoch", "salt" >>),
   anarchyProveUpdate |-> AnarchyProveUpdate]

OneOnOneRows ==
  [oneOnOneBakeCreateVk |-> Row("bytes", << >>, << >>, << >>, << >>),
   oneOnOneProveCreate  |->
     LET names == << "sk_0", "sk_1", "salt" >>
     IN  Row("pair", << "secretKey0", "secretKey1", "salt" >>, names, names, names)]

TyrannyRows ==
  [tyrannyBakeCreateVk            |-> BakeOrPinned("bytes"),
   tyrannyBakeUpdateVk            |-> BakeOrPinned("bytes"),
   tyrannyPinnedCreateVkSha256Hex |-> BakeOrPinned("text"),
   tyrannyPinnedUpdateVkSha256Hex |-> BakeOrPinned("text"),
   tyrannyProveCreate |->
     LET names == << "depth", "leaves", "admin_sk", "admin_index", "group_id_fr", "salt" >>
     IN  Row("pair", << "depth", "memberLeafHashes", "adminSecretKey", "adminIndex",
                        "groupIdFr", "salt" >>, names, names, names),
   tyrannyProveUpdate |->
     LET names == << "depth", "leaves_old", "admin_sk", "admin_index_old", "epoch_old",
                     "member_root_new", "group_id_fr", "salt_old", "salt_new" >>
     IN  Row("pair", << "depth", "memberLeafHashesOld", "adminSecretKey", "adminIndexOld",
                        "epochOld", "memberRootNew", "groupIdFr", "saltOld", "saltNew" >>,
             names, names, names)]

Rows == Joined(Joined(CommonRows, AnarchyRows), Joined(OneOnOneRows, TyrannyRows))

Ops == DOMAIN Rows

---------------------------------------------------------------------------
Kinds == {"bytes", "text", "pair", "bool"}

Kind(op)  == Rows[op].kind
Params(op) == Range(Rows[op].wrapper)    \* the Kotlin parameters
Slots(op) == Range(Rows[op].slots)       \* the parameters the FFI declares

(* jint and jlong parameters, by their Kotlin names; all others are byte[]. *)
IntParams  == {"depth", "proverIndex", "proverIndexOld", "adminIndex", "adminIndexOld"}
LongParams == {"epoch", "epochOld"}
ByteParams(op) == Params(op) \ (IntParams \cup LongParams)

(* The one byte[]? of the API: null is "the roster stays as it is". *)
NullableParams == {"memberLeafHashesNew"}

Position(seq, e) == CHOOSE i \in DOMAIN seq : seq[i] = e

(***************************************************************************)
(* The Kotlin parameter that really arrives in each slot of the FFI        *)
(* function: the slot's position picks a local of the export, whose        *)
(* position picks an argument of the wrapper's call.                       *)
(***************************************************************************)
ParamInSlot(op) ==
  LET row == Rows[op]
      Local(slot) == row.ffi[Position(row.slots, slot)]
  IN  [slot \in Slots(op) |-> row.wrapper[Position(row.export, Local(slot))]]

(* What an FFI function receives, given the Kotlin parameter that each of  *)
(* its slots holds: scalars cast, byte[] as the bytes read.                *)
FfiArgs(args, read, held) ==
  [slot \in DOMAIN held |->
     LET p == held[slot]
     IN  IF p \in IntParams  THEN AsUsize(args[p])
         ELSE IF p \in LongParams THEN AsU64(args[p])
         ELSE read[p]]

(* A function with one more argument, or another value there. *)
With(f, p, v) == [q \in DOMAIN f \cup {p} |-> IF q = p THEN v ELSE f[q]]

(* The byte[] arguments that the export converts before this one: it takes *)
(* them in the order of its parameters, as every export of lib.rs does.    *)
ConvertedBefore(op, p) ==
  LET order == Rows[op].wrapper
  IN  {q \in ByteParams(op) : Position(order, q) < Position(order, p)}
===========================================================================
