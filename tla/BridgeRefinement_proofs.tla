----------------------- MODULE BridgeRefinement_proofs -----------------------
(***************************************************************************)
(* The JNI shim implements the API: whatever the threads do to the arrays  *)
(* and to the one native heap, each call answers with what the FFI makes   *)
(* of this call's own arguments, bound by name, or with its message, or    *)
(* with the JVM's failure.  For any number of threads, arrays and calls,   *)
(* any addresses and any FFI that keeps FfiContract.                       *)
(*                                                                         *)
(* The argument has three parts.  The table of entry points binds by       *)
(* position what the API binds by name.  The inductive invariant DataInv   *)
(* says what every step of a call may rely on: how far it has read, which  *)
(* verdict led there and where its results are.  The refinement then maps  *)
(* each step of the shim to a step of the API or to none.                  *)
(***************************************************************************)
EXTENDS JniBridge_proofs, TwoBuffers_proofs

---------------------------------------------------------------------------
(* The table of entry points. *)

(* The columns of a row agree: as many names in each, none twice, and the  *)
(* one parameter an FFI slot means is in the position of that slot.        *)
RowNamed(row) ==
  /\ row.kind \in Kinds
  /\ \E n \in Nat :
       /\ DOMAIN row.wrapper = 1 .. n /\ DOMAIN row.export = 1 .. n
       /\ DOMAIN row.slots = 1 .. n /\ row.ffi = row.export
       /\ \A i, j \in 1 .. n :
            i # j => row.export[i] # row.export[j] /\ row.slots[i] # row.slots[j]
       /\ \A i, j \in 1 .. n : row.wrapper[j] \in Api!Means[row.slots[i]] <=> i = j
       /\ \A i \in 1 .. n : row.wrapper[i] \in IntParams => row.slots[i] \in IndexSlots

(* The rows that the two macros of lib.rs make, and the row that two       *)
(* exports share.                                                          *)
LEMMA MacroRows ==
  /\ RowNamed(OneInOneOut("secretKey", "sk")) /\ RowNamed(OneInOneOut("proof", "proof"))
  /\ RowNamed(BakeOrPinned("bytes")) /\ RowNamed(BakeOrPinned("text"))
  /\ RowNamed(Commitment)
BY DEF RowNamed, Row, OneInOneOut, BakeOrPinned, Commitment, Kinds, Api!Means,
       IntParams, IndexSlots

(* Common: the macro's rows, and four of their own. *)
LEMMA CommonRowsNamed == \A op \in DOMAIN CommonRows : RowNamed(CommonRows[op])
<1> DEFINE merkle ==
             Row("bytes", << "leafHashes", "depth" >>, << "leaf_hashes", "depth" >>,
                 << "leaf_hashes", "depth" >>, << "leaf_hashes", "depth" >>)
           sign ==
             Row("bytes", << "secretKey", "eventId" >>, << "secret_key", "event_id" >>,
                 << "secret_key", "event_id" >>, << "sk", "event_id" >>)
           verify ==
             Row("bool", << "publicKey", "eventId", "signature" >>,
                 << "public_key", "event_id", "signature" >>,
                 << "public_key", "event_id", "signature" >>, << "pk", "event_id", "sig" >>)
<1>1. RowNamed(merkle) /\ RowNamed(sign) /\ RowNamed(verify)
  BY DEF RowNamed, Row, Kinds, Api!Means, IntParams, IndexSlots
<1>2. \A op \in DOMAIN CommonRows :
        CommonRows[op] \in {OneInOneOut("secretKey", "sk"), OneInOneOut("proof", "proof"),
                            Commitment, merkle, sign, verify}
  <2> HIDE DEF merkle, sign, verify
  <2> QED
    BY DEF CommonRows, merkle, sign, verify
<1> QED
  BY <1>1, <1>2, MacroRows

(* The eight arguments of anarchyProveUpdate. *)
LEMMA AnarchyUpdateNamed == RowNamed(AnarchyProveUpdate)
<1> DEFINE w == << "depth", "memberLeafHashesOld", "memberLeafHashesNew", "proverSecretKey",
                   "proverIndexOld", "epochOld", "saltOld", "saltNew" >>
           x == << "depth", "leaves_old", "leaves_new", "prover_sk",
                   "prover_index_old", "epoch_old", "salt_old", "salt_new" >>
           s == << "depth", "leaves_old", "leaves_new", "sk",
                   "prover_index_old", "epoch_old", "salt_old", "salt_new" >>
<1>1. \A i, j \in 1 .. 8 : i # j => x[i] # x[j]
  OBVIOUS
<1>2. \A i, j \in 1 .. 8 : i # j => s[i] # s[j]
  OBVIOUS
<1>3. \A i \in 1 .. 8 : w[i] \in Api!Means[s[i]]
  BY DEF Api!Means
<1>4. \A i, j \in 1 .. 8 : w[j] \in Api!Means[s[i]] => i = j
  BY DEF Api!Means
<1>5. \A i \in 1 .. 8 : w[i] \in IntParams => s[i] \in IndexSlots
  BY DEF IntParams, IndexSlots
<1> QED
  BY <1>1, <1>2, <1>3, <1>4, <1>5 DEF RowNamed, Row, Kinds, AnarchyProveUpdate

(* Anarchy: tiers, and the two proofs. *)
LEMMA AnarchyRowsNamed == \A op \in DOMAIN AnarchyRows : RowNamed(AnarchyRows[op])
<1> DEFINE x == << "depth", "leaves", "prover_sk", "prover_index", "epoch", "salt" >>
           membership ==
             Row("pair", << "depth", "memberLeafHashes", "proverSecretKey", "proverIndex",
                            "epoch", "salt" >>,
                 x, x, << "depth", "leaves", "sk", "prover_index", "epoch", "salt" >>)
<1>1. RowNamed(membership)
  BY DEF RowNamed, Row, Kinds, Api!Means, IntParams, IndexSlots
<1>2. \A op \in DOMAIN AnarchyRows :
        AnarchyRows[op] \in {BakeOrPinned("bytes"), BakeOrPinned("text"),
                             membership, AnarchyProveUpdate}
  BY DEF AnarchyRows
<1> QED
  BY <1>1, <1>2, MacroRows, AnarchyUpdateNamed

(* OneOnOne: no argument at all, and two keys. *)
LEMMA OneOnOneRowsNamed == \A op \in DOMAIN OneOnOneRows : RowNamed(OneOnOneRows[op])
<1> DEFINE x == << "sk_0", "sk_1", "salt" >>
           bake   == Row("bytes", << >>, << >>, << >>, << >>)
           create == Row("pair", << "secretKey0", "secretKey1", "salt" >>, x, x, x)
<1>1. RowNamed(bake) /\ RowNamed(create)
  BY DEF RowNamed, Row, Kinds, Api!Means, IntParams, IndexSlots
<1>2. \A op \in DOMAIN OneOnOneRows : OneOnOneRows[op] \in {bake, create}
  BY DEF OneOnOneRows
<1> QED
  BY <1>1, <1>2

(* The nine arguments of tyrannyProveUpdate. *)
LEMMA TyrannyUpdateNamed == RowNamed(TyrannyRows["tyrannyProveUpdate"])
<1> DEFINE w == << "depth", "memberLeafHashesOld", "adminSecretKey", "adminIndexOld",
                   "epochOld", "memberRootNew", "groupIdFr", "saltOld", "saltNew" >>
           s == << "depth", "leaves_old", "admin_sk", "admin_index_old", "epoch_old",
                   "member_root_new", "group_id_fr", "salt_old", "salt_new" >>
<1>1. \A i, j \in 1 .. 9 : i # j => s[i] # s[j]
  OBVIOUS
<1>2. \A i \in 1 .. 9 : w[i] \in Api!Means[s[i]]
  BY DEF Api!Means
<1>3. \A i, j \in 1 .. 9 : w[j] \in Api!Means[s[i]] => i = j
  BY DEF Api!Means
<1>4. \A i \in 1 .. 9 : w[i] \in IntParams => s[i] \in IndexSlots
  BY DEF IntParams, IndexSlots
<1>5. RowNamed(Row("pair", w, s, s, s))
  BY <1>1, <1>2, <1>3, <1>4 DEF RowNamed, Row, Kinds
<1>6. TyrannyRows["tyrannyProveUpdate"] = Row("pair", w, s, s, s)
  BY DEF TyrannyRows
<1> QED
  BY <1>5, <1>6

(* Tyranny: tiers, and the two proofs. *)
LEMMA TyrannyRowsNamed == \A op \in DOMAIN TyrannyRows : RowNamed(TyrannyRows[op])
<1> DEFINE x == << "depth", "leaves", "admin_sk", "admin_index", "group_id_fr", "salt" >>
           create ==
             Row("pair", << "depth", "memberLeafHashes", "adminSecretKey", "adminIndex",
                            "groupIdFr", "salt" >>, x, x, x)
<1>1. RowNamed(create)
  BY DEF RowNamed, Row, Kinds, Api!Means, IntParams, IndexSlots
<1>2. \A op \in DOMAIN TyrannyRows :
        TyrannyRows[op] \in {BakeOrPinned("bytes"), BakeOrPinned("text"),
                             create, TyrannyRows["tyrannyProveUpdate"]}
  BY DEF TyrannyRows
<1> QED
  BY <1>1, <1>2, MacroRows, TyrannyUpdateNamed

(* Every entry point, and none is called "none". *)
LEMMA EveryRowNamed ==
  /\ \A op \in Ops : RowNamed(Rows[op])
  /\ "none" \notin Ops
<1>1. /\ "none" \notin DOMAIN CommonRows /\ "none" \notin DOMAIN AnarchyRows
      /\ "none" \notin DOMAIN OneOnOneRows /\ "none" \notin DOMAIN TyrannyRows
  BY DEF CommonRows, AnarchyRows, OneOnOneRows, TyrannyRows
<1> QED
  BY <1>1, CommonRowsNamed, AnarchyRowsNamed, OneOnOneRowsNamed, TyrannyRowsNamed
     DEF Ops, Rows, Joined

(* The API is written over the same table. *)
LEMMA SameTable == Api!Rows = Rows
BY DEF Api!Rows, Rows, Api!Joined, Joined, Api!CommonRows, CommonRows, Api!AnarchyRows, AnarchyRows,
       Api!OneOnOneRows, OneOnOneRows, Api!TyrannyRows, TyrannyRows, Api!Row, Row,
       Api!OneInOneOut, OneInOneOut, Api!BakeOrPinned, BakeOrPinned,
       Api!Commitment, Commitment, Api!AnarchyProveUpdate, AnarchyProveUpdate

(* So it derives the same names from it. *)
LEMMA SamePlumbing ==
  ASSUME NEW op
  PROVE  /\ Api!Kind(op) = Kind(op) /\ Api!Params(op) = Params(op)
         /\ Api!Slots(op) = Slots(op) /\ Api!ByteParams(op) = ByteParams(op)
BY SameTable DEF Api!Kind, Kind, Api!Params, Params, Api!Slots, Slots,
     Api!ByteParams, ByteParams, Api!IntParams, IntParams, Api!LongParams, LongParams,
     Api!Range, Range

(* A name of a column is in one position. *)
LEMMA PositionIs ==
  ASSUME NEW n \in Nat, NEW s, DOMAIN s = 1 .. n,
         \A i, j \in 1 .. n : i # j => s[i] # s[j], NEW i \in 1 .. n
  PROVE  Position(s, s[i]) = i
BY DEF Position

(***************************************************************************)
(* What arrives in each slot by position is the parameter of its name: no  *)
(* wrapper and no export passes two arguments in the other's place         *)
(* (lib.rs 71-715, OnymJni.kt 60-192 and the four namespaces).             *)
(***************************************************************************)
THEOREM ArgumentsBoundByName ==
  \A op \in Ops : ParamInSlot(op) = Api!ParamNamed(op)
<1> SUFFICES ASSUME NEW op \in Ops PROVE ParamInSlot(op) = Api!ParamNamed(op)
  OBVIOUS
<1> DEFINE w == Rows[op].wrapper
           x == Rows[op].export
           s == Rows[op].slots
<1>1. PICK n \in Nat :
        /\ DOMAIN w = 1 .. n /\ DOMAIN x = 1 .. n /\ DOMAIN s = 1 .. n /\ Rows[op].ffi = x
        /\ \A i, j \in 1 .. n : i # j => x[i] # x[j] /\ s[i] # s[j]
        /\ \A i, j \in 1 .. n : w[j] \in Api!Means[s[i]] <=> i = j
  BY EveryRowNamed DEF RowNamed
<1>2. ASSUME NEW slot \in Slots(op)
      PROVE  /\ w[Position(x, Rows[op].ffi[Position(s, slot)])]
                  = CHOOSE p \in Params(op) : p \in Api!Means[slot]
  <2>1. PICK i \in 1 .. n : slot = s[i]
    BY <1>1 DEF Slots, Range
  <2>2. Position(s, slot) = i /\ Position(x, x[i]) = i
    BY <1>1, <2>1, PositionIs
  <2>3. w[i] \in Params(op) /\ w[i] \in Api!Means[slot]
    BY <1>1, <2>1 DEF Params, Range
  <2>4. \A p \in Params(op) : p \in Api!Means[slot] => p = w[i]
    BY <1>1, <2>1 DEF Params, Range
  <2> QED
    BY <1>1, <2>2, <2>3, <2>4
<1> QED
  BY <1>2, SamePlumbing DEF ParamInSlot, Api!ParamNamed

(* Each Int parameter lands in a slot of the FFI that takes an index. *)
LEMMA IntsInIndexSlots ==
  ASSUME NEW op \in Ops, NEW p \in IntParams \cap Params(op)
  PROVE  \E slot \in IndexSlots \cap Slots(op) : ParamInSlot(op)[slot] = p
<1> DEFINE w == Rows[op].wrapper
           x == Rows[op].export
           s == Rows[op].slots
<1>1. PICK n \in Nat :
        /\ DOMAIN w = 1 .. n /\ DOMAIN x = 1 .. n /\ DOMAIN s = 1 .. n /\ Rows[op].ffi = x
        /\ \A i, j \in 1 .. n : i # j => x[i] # x[j] /\ s[i] # s[j]
        /\ \A i \in 1 .. n : w[i] \in IntParams => s[i] \in IndexSlots
  BY EveryRowNamed DEF RowNamed
<1>2. PICK i \in 1 .. n : p = w[i]
  BY <1>1 DEF Params, Range
<1>3. s[i] \in IndexSlots \cap Slots(op)
  BY <1>1, <1>2 DEF Slots, Range
<1>4. Position(s, s[i]) = i /\ Position(x, x[i]) = i
  BY <1>1, PositionIs
<1> QED
  BY <1>1, <1>2, <1>3, <1>4 DEF ParamInSlot

(* The arguments of the FFI are those that the API's promise names. *)
LEMMA SameArgs ==
  ASSUME NEW c, c.op \in Ops, NEW read
  PROVE  Api!FfiArgs(c.args, read, Api!ParamNamed(c.op))
           = FfiArgs(c.args, read, ParamInSlot(c.op))
BY ArgumentsBoundByName DEF Api!FfiArgs, FfiArgs, Api!IntParams, IntParams,
   Api!LongParams, LongParams, Api!AsUsize, AsUsize, Api!AsU64, AsU64

(* The new roster of an update is one of its byte[] arguments, and arrives *)
(* in the slot leaves_new.                                                 *)
LEMMA UpdateTakesRoster ==
  /\ "memberLeafHashesNew" \in ByteParams("anarchyProveUpdate")
  /\ "anarchyProveUpdate" \in Ops /\ Kind("anarchyProveUpdate") = "pair"
  /\ "leaves_new" \in Slots("anarchyProveUpdate")
  /\ ParamInSlot("anarchyProveUpdate")["leaves_new"] = "memberLeafHashesNew"
<1> DEFINE op == "anarchyProveUpdate"
<1>1. Rows[op] = AnarchyProveUpdate /\ op \in Ops
  <2>1. op \in DOMAIN AnarchyRows /\ AnarchyRows[op] = AnarchyProveUpdate
    BY DEF AnarchyRows
  <2>2. op \notin DOMAIN CommonRows
    BY DEF CommonRows
  <2> QED
    BY <2>1, <2>2 DEF Rows, Joined, Ops
<1>2. /\ DOMAIN Rows[op].wrapper = 1 .. 8 /\ Rows[op].wrapper[3] = "memberLeafHashesNew"
      /\ DOMAIN Rows[op].slots = 1 .. 8 /\ Rows[op].slots[3] = "leaves_new"
      /\ Kind(op) = "pair"
  BY <1>1 DEF AnarchyProveUpdate, Row, Kind
<1>3. "memberLeafHashesNew" \in ByteParams(op) /\ "leaves_new" \in Slots(op)
  BY <1>2 DEF ByteParams, Params, Slots, Range, IntParams, LongParams
<1>4. ParamInSlot(op)["leaves_new"] = "memberLeafHashesNew"
  <2>1. /\ Api!ParamNamed(op)["leaves_new"] \in Params(op)
        /\ Api!ParamNamed(op)["leaves_new"] \in Api!Means["leaves_new"]
    BY <1>3, SamePlumbing DEF Api!ParamNamed, ByteParams, Api!Means
  <2> QED
    BY <1>1, <2>1, ArgumentsBoundByName DEF Api!Means
<1> QED
  BY <1>1, <1>2, <1>3, <1>4

---------------------------------------------------------------------------
(* What a call reads. *)

(* A reading is a string of bytes, never NULL, and so is one byte more. *)
LEMMA ReadingIsBytes ==
  ASSUME NEW r \in Readings
  PROVE  r \in Seq(ByteValues) /\ Len(r) \in Nat /\ r # NULL
<1>1. PICK n \in Nat : r \in [1 .. n -> ByteValues]
  <2>1. \A v \in Contents : Len(v) \in Nat
    BY NullAssumption, LenProperties
  <2> QED
    BY <2>1 DEF Readings
<1>2. r \in Seq(ByteValues)
  BY <1>1, SeqDef
<1> QED
  BY <1>2, LenProperties, NullAssumption

(* What an array holds, and that it is empty only if it has no bytes. *)
LEMMA ContentsAreBytes ==
  ASSUME NEW v \in Contents
  PROVE  /\ v \in Seq(ByteValues) /\ Len(v) \in Nat
         /\ \A i \in 1 .. Len(v) : v[i] \in ByteValues
         /\ v = << >> <=> Len(v) = 0
<1>1. v \in Seq(ByteValues)
  BY NullAssumption
<1> QED
  BY <1>1, LenProperties, EmptySeq

(* Nothing read is a reading. *)
LEMMA EmptyReading == << >> \in Readings /\ Len(<< >>) = 0
<1>1. << >> \in [1 .. 0 -> ByteValues]
  OBVIOUS
<1> QED
  BY <1>1 DEF Readings

(* Reading the next byte of an array. *)
LEMMA ReadOneMore ==
  ASSUME NEW r \in Readings, NEW v \in Contents, Len(r) < Len(v)
  PROVE  /\ Append(r, v[Len(r) + 1]) \in Readings
         /\ Len(Append(r, v[Len(r) + 1])) = Len(r) + 1
<1> DEFINE n == Len(r)
           e == v[n + 1]
           a == Append(r, e)
<1>1. r \in Seq(ByteValues) /\ n \in Nat /\ Len(v) \in Nat
  BY ReadingIsBytes, ContentsAreBytes
<1>2. e \in ByteValues
  BY <1>1, ContentsAreBytes
<1>3. a \in Seq(ByteValues) /\ Len(a) = n + 1
  BY <1>1, <1>2, AppendProperties
<1>4. a \in [1 .. n + 1 -> ByteValues]
  BY <1>3, LenProperties
<1>5. n + 1 \in 0 .. Len(v)
  BY <1>1
<1> QED
  BY <1>3, <1>4, <1>5 DEF Readings

(* The verdict and the results of the FFI on what the call has read. *)
Accepted(t) == Accepts(call[t].op, Args(t))
Buffers(t)  == Output(call[t].op, Args(t))
Why(t)      == Reason(call[t].op, Args(t))
Message(t)  == IF Why(t) = NULL THEN DefaultMessage ELSE Why(t)

IsPair(t) == Kind(call[t].op) = "pair"
IsBool(t) == Kind(call[t].op) = "bool"

(* What goes back to Kotlin as one byte[]. *)
Wire(t) == IF IsPair(t) THEN Concat(Buffers(t)[1], Buffers(t)[2]) ELSE Buffers(t)[1]

InCall(t) == pc[t] \notin {"idle", "answered"}

(* A thread has a call, a record of what it read, a pending exception and  *)
(* an answer only where the code has them.                                 *)
Tidy(t) ==
  /\ pc[t] = "idle" => call[t] = NoCall
  /\ ~InCall(t) => vec[t] = Nothing
  /\ exc[t] # NoException => pc[t] \in NativeSteps
  /\ pc[t] # "return" => exc[t] \in {NoException, JvmError}
  /\ reply[t] # NoReply <=> pc[t] = "answered"

(* What has been read so far is a beginning of each argument's bytes, and  *)
(* all of them once the FFI has been called with no exception pending.     *)
VecOK(t) ==
  InCall(t) =>
    /\ vec[t] \in [DOMAIN vec[t] -> Readings \cup {NULL}]
    /\ DOMAIN vec[t] \subseteq ByteParams(call[t].op)
    /\ \A p \in DOMAIN vec[t] :
         /\ vec[t][p] = NULL <=> Argument(t, p) = NULL
         /\ vec[t][p] # NULL => Len(vec[t][p]) <= Len(heap[Argument(t, p)])
    /\ exc[t] # NoException => DOMAIN vec[t] = ByteParams(call[t].op)
    /\ pc[t] # "convert" => DOMAIN vec[t] = ByteParams(call[t].op)
    /\ pc[t] # "convert" /\ exc[t] = NoException => AllConverted(t)

(* At each step after the FFI call: the verdict that led there, and where  *)
(* its results are.                                                        *)
ResultOK(t) ==
  /\ pc[t] \in {"copy", "free", "freeSecond", "newArray", "split"} => Accepted(t) /\ ~IsBool(t)
  /\ pc[t] \in {"freeSecond", "split"} => IsPair(t)
  /\ pc[t] \in {"message", "freeMessage", "throw"} => ~Accepted(t) /\ ~IsBool(t)
  /\ pc[t] = "discard" => ~Accepted(t) /\ IsBool(t)
  /\ pc[t] = "copy" =>
       /\ At(ptr[t]["first"]) = Buffers(t)[1]
       /\ IsPair(t) => At(ptr[t]["second"]) = Buffers(t)[2]
  /\ pc[t] \in {"free", "freeSecond", "newArray", "split"} => out[t] = Wire(t)
  /\ pc[t] = "message" =>
       IF Why(t) = NULL THEN ptr[t]["err"] = NULL
       ELSE ptr[t]["err"] # NULL /\ At(ptr[t]["err"]) = Why(t)
  /\ pc[t] \in {"freeMessage", "throw"} => out[t] = Message(t)
  /\ pc[t] = "split" => Len(out[t]) <= MaxInt /\ exc[t] = NoException
  /\ pc[t] = "return" /\ exc[t] = NoException =>
       IF IsBool(t) THEN out[t] = << IF Accepted(t) THEN "true" ELSE "false" >>
       ELSE Accepted(t) /\ out[t] = Wire(t) /\ Len(out[t]) <= MaxInt

(* An answer is one the API makes, and no proof of what must be refused. *)
AnswerKinds(op) ==
  {"onym", "jvm"} \cup (IF Kind(op) = "bool" THEN {"true", "false"} ELSE {Kind(op)})

Refused(t) ==
  \/ \E p \in IntParams \cap Params(call[t].op) : call[t].args[p] < 0
  \/ /\ call[t].op = "anarchyProveUpdate"
     /\ Argument(t, "memberLeafHashesNew") # NULL
     /\ heap[Argument(t, "memberLeafHashesNew")] = << >>

AnswerOK(t) ==
  /\ exc[t] # NoException => exc[t].kind \in {"onym", "jvm"}
  /\ pc[t] = "answered" =>
       /\ reply[t].kind \in AnswerKinds(call[t].op)
       /\ reply[t].kind \in {"bytes", "text", "pair"} => ~Refused(t)

ThreadOK(t) == Tidy(t) /\ VecOK(t) /\ ResultOK(t) /\ AnswerOK(t)

DataInv == heap \in [Arrays -> Contents] /\ \A t \in Threads : ThreadOK(t)

(* A call that is under way is one of Calls, of an entry point. *)
LEMMA CallTyped ==
  ASSUME TypeOK, NEW t \in Threads, pc[t] # "idle"
  PROVE  /\ call[t] \in Calls /\ call[t].op \in Ops
         /\ Kind(call[t].op) \in Kinds
         /\ \A p \in ByteParams(call[t].op) : Argument(t, p) \in Arrays \/ Argument(t, p) = NULL
<1>1. call[t] \in Calls
  BY DEF TypeOK
<1>2. call[t].op \in Ops
  BY <1>1, CallsAssumption
<1>3. Kind(call[t].op) \in Kinds
  BY <1>2, EveryRowNamed DEF RowNamed, Kind
<1> QED
  BY <1>1, <1>2, <1>3, CallsAssumption DEF Argument

(* The FFI keeps its contract on whatever a call has read by then. *)
LEMMA ContractHolds ==
  ASSUME TypeOK, NEW t \in Threads, InCall(t), VecOK(t),
         DOMAIN vec[t] = ByteParams(call[t].op)
  PROVE  FfiContract(call[t].op, Args(t))
<1> DEFINE c == call[t]
           bytes == [p \in ByteParams(c.op) |-> IF c.args[p] = NULL THEN << >> ELSE vec[t][p]]
<1>1. c \in Calls
  BY CallTyped DEF InCall
<1>2. /\ vec[t] \in [ByteParams(c.op) -> Readings \cup {NULL}]
      /\ \A p \in ByteParams(c.op) : vec[t][p] = NULL <=> c.args[p] = NULL
  BY DEF VecOK, Argument
<1>3. bytes \in [ByteParams(c.op) -> Readings]
  BY <1>2, EmptyReading
<1>4. vec[t] = [p \in ByteParams(c.op) |-> IF c.args[p] = NULL THEN NULL ELSE bytes[p]]
  BY <1>2
<1>5. vec[t] \in ReadBy(c)
  BY <1>3, <1>4 DEF ReadBy
<1> QED
  BY <1>1, <1>5, FfiAssumption DEF Args

(* A verdict depends on the call and on what it has read. *)
LEMMA SameVerdict ==
  ASSUME NEW u, call'[u] = call[u], vec'[u] = vec[u]
  PROVE  /\ Accepted(u)' <=> Accepted(u)
         /\ Buffers(u)' = Buffers(u) /\ Why(u)' = Why(u) /\ Message(u)' = Message(u)
         /\ Wire(u)' = Wire(u) /\ (IsPair(u)' <=> IsPair(u)) /\ (IsBool(u)' <=> IsBool(u))
BY DEF Accepted, Buffers, Why, Message, Wire, IsPair, IsBool, Args

(* Writing to arrays changes no length, so it makes no array empty. *)
SameLengths ==
  /\ heap \in [Arrays -> Contents] /\ heap' \in [Arrays -> Contents]
  /\ \A a \in Arrays : Len(heap'[a]) = Len(heap[a])

(* A thread for which a step of another leaves everything as it is. *)
Kept(u) ==
  /\ pc'[u] = pc[u] /\ call'[u] = call[u] /\ vec'[u] = vec[u] /\ out'[u] = out[u]
  /\ exc'[u] = exc[u] /\ reply'[u] = reply[u]
  /\ \A s \in PtrSlots : ptr'[u][s] = ptr[u][s] /\ At(ptr[u][s])' = At(ptr[u][s])

(* Such a thread may rely on what it relied on, though bytes have changed. *)
LEMMA KeptStaysOK ==
  ASSUME TypeOK, SameLengths, NEW u \in Threads, ThreadOK(u), Kept(u)
  PROVE  ThreadOK(u)'
<1> USE DEF Kept
<1>1. Tidy(u)'
  BY DEF ThreadOK, Tidy, InCall
<1>2. \A p \in ByteParams(call[u].op) :
        /\ Argument(u, p)' = Argument(u, p)
        /\ pc[u] # "idle" /\ Argument(u, p) # NULL =>
             /\ Len(heap'[Argument(u, p)]) = Len(heap[Argument(u, p)])
             /\ heap'[Argument(u, p)] = << >> <=> heap[Argument(u, p)] = << >>
  BY CallTyped, ContentsAreBytes DEF SameLengths, Argument
<1>3. VecOK(u)'
  <2> SUFFICES ASSUME InCall(u)' PROVE VecOK(u)'
    BY DEF VecOK
  <2>1. InCall(u) /\ VecOK(u) /\ pc[u] # "idle"
    BY DEF InCall, ThreadOK
  <2>2. \A p \in ByteParams(call[u].op) :
          vec[u][p] # NULL /\ p \in DOMAIN vec[u] => Argument(u, p) # NULL
    BY <2>1 DEF VecOK
  <2>3. AllConverted(u) => AllConverted(u)'
    BY <1>2, <2>1, <2>2 DEF AllConverted, Converted
  <2> QED
    BY <1>2, <2>1, <2>2, <2>3 DEF VecOK
<1>4. ResultOK(u)'
  <2>1. /\ Accepted(u)' <=> Accepted(u)
        /\ Buffers(u)' = Buffers(u) /\ Why(u)' = Why(u) /\ Message(u)' = Message(u)
        /\ Wire(u)' = Wire(u) /\ (IsPair(u)' <=> IsPair(u)) /\ (IsBool(u)' <=> IsBool(u))
    BY SameVerdict
  <2> QED
    BY <2>1 DEF ThreadOK, ResultOK, PtrSlots, At
<1>5. AnswerOK(u)'
  <2>1. pc[u] = "answered" => (Refused(u)' <=> Refused(u))
    <3> SUFFICES ASSUME pc[u] = "answered" PROVE Refused(u)' <=> Refused(u)
      OBVIOUS
    <3>1. call[u].op = "anarchyProveUpdate" =>
            "memberLeafHashesNew" \in ByteParams(call[u].op)
      BY UpdateTakesRoster
    <3> QED
      BY <1>2, <3>1 DEF Refused
  <2> QED
    BY <2>1 DEF ThreadOK, AnswerOK
<1> QED
  BY <1>1, <1>3, <1>4, <1>5 DEF ThreadOK

---------------------------------------------------------------------------
(* What the FFI's contract gives. *)

(* All arguments have been looked at. *)
AllSeen(t) == DOMAIN vec[t] = ByteParams(call[t].op)

(* The one byte[] that goes back to Kotlin is a sequence, shorter than     *)
(* 2^32, and no NULL.                                                      *)
LEMMA WireIsBuffer ==
  ASSUME TypeOK, NEW t \in Threads, InCall(t), VecOK(t), AllSeen(t), Accepted(t), ~IsBool(t)
  PROVE  /\ \E S : Wire(t) \in Seq(S)
         /\ Len(Wire(t)) < WordMod /\ Wire(t) # NULL
<1> DEFINE b == Buffers(t)
<1>1. FfiContract(call[t].op, Args(t))
  BY ContractHolds DEF AllSeen
<1>2. CASE IsPair(t)
  <2>1. /\ IsBuffer(b[1]) /\ IsBuffer(b[2])
        /\ HeaderSize + Len(b[1]) + Len(b[2]) < WordMod /\ Concat(b[1], b[2]) # NULL
    BY <1>1, <1>2 DEF FfiContract, Accepted, Buffers, IsPair
  <2> DEFINE S == Bytes \cup (Range(b[1]) \cup Range(b[2]))
  <2> HIDE DEF b
  <2>2. b[1] \in Seq(S) /\ b[2] \in Seq(S) /\ Bytes \subseteq S
    <3>1. b[1] \in Seq(Range(b[1])) /\ b[2] \in Seq(Range(b[2]))
      BY <2>1 DEF IsBuffer
    <3> QED
      BY <3>1, SeqMonotonic
  <2>3. Len(b[1]) \in Nat /\ Len(b[2]) \in Nat /\ Len(b[1]) < WordMod
    BY <2>1, <2>2, LenProperties DEF IsBuffer
  <2> HIDE DEF S
  <2>4. Concat(b[1], b[2]) \in Seq(S) /\ Spells(Concat(b[1], b[2]), b[1], b[2])
    BY <2>2, <2>3, ConcatElements
  <2>5. Len(Concat(b[1], b[2])) = HeaderSize + Len(b[1]) + Len(b[2])
    BY <2>4 DEF Spells, HeaderSize
  <2>6. Wire(t) = Concat(b[1], b[2])
    BY <1>2 DEF Wire, b
  <2> QED
    BY <2>1, <2>4, <2>5, <2>6
<1>3. CASE ~IsPair(t)
  <2>1. IsBuffer(b[1]) /\ Wire(t) = b[1]
    BY <1>1, <1>3 DEF FfiContract, Accepted, Buffers, IsPair, IsBool, Wire
  <2> QED
    BY <2>1 DEF IsBuffer
<1> QED
  BY <1>2, <1>3

(* byte_array_from_slice hands it over whole, or throws.                   *)
LEMMA WireHandedOver ==
  ASSUME TypeOK, NEW t \in Threads, InCall(t), VecOK(t), AllSeen(t), Accepted(t), ~IsBool(t)
  PROVE  NewJavaArray(Wire(t)) =
           IF Len(Wire(t)) <= MaxInt THEN [ok |-> TRUE, bytes |-> Wire(t)] ELSE [ok |-> FALSE]
<1>1. PICK S : Wire(t) \in Seq(S)
  BY WireIsBuffer
<1>2. Len(Wire(t)) < WordMod
  BY WireIsBuffer
<1> QED
  BY <1>1, <1>2, HandedOver

(* What splitTwoBuffers makes of it: the FFI's two buffers. *)
LEMMA WireSplits ==
  ASSUME TypeOK, NEW t \in Threads, InCall(t), VecOK(t), AllSeen(t), Accepted(t), IsPair(t),
         Len(Wire(t)) <= MaxInt
  PROVE  /\ Split(Wire(t)) = [ok |-> TRUE, first |-> Buffers(t)[1], second |-> Buffers(t)[2]]
         /\ Buffers(t) = << Buffers(t)[1], Buffers(t)[2] >>
<1> DEFINE b == Buffers(t)
           S == Bytes \cup (Range(b[1]) \cup Range(b[2]))
<1>1. FfiContract(call[t].op, Args(t))
  BY ContractHolds DEF AllSeen
<1>2. b = << b[1], b[2] >> /\ IsBuffer(b[1]) /\ IsBuffer(b[2])
  BY <1>1 DEF FfiContract, Accepted, Buffers, IsPair
<1> HIDE DEF b
<1>3. b[1] \in Seq(S) /\ b[2] \in Seq(S) /\ Bytes \subseteq S
  <2>1. b[1] \in Seq(Range(b[1])) /\ b[2] \in Seq(Range(b[2]))
    BY <1>2 DEF IsBuffer
  <2> QED
    BY <2>1, SeqMonotonic
<1>4. Len(b[1]) < WordMod
  BY <1>2 DEF IsBuffer
<1> HIDE DEF S
<1>5. Spells(Concat(b[1], b[2]), b[1], b[2])
  BY <1>3, <1>4, ConcatElements
<1>6. Wire(t) = Concat(b[1], b[2])
  BY DEF Wire, b
<1>7. HeaderSize + Len(b[1]) + Len(b[2]) <= MaxInt
  BY <1>5, <1>6 DEF Spells, HeaderSize
<1>8. Split(Concat(b[1], b[2])) = [ok |-> TRUE, first |-> b[1], second |-> b[2]]
  BY <1>3, <1>7, SplitOfConcat
<1> QED
  BY <1>2, <1>6, <1>8 DEF b

(* A negative Int becomes a number past the middle of a usize. *)
LEMMA NegativeIsHuge ==
  ASSUME NEW n \in -(PtrMod \div 2) .. (PtrMod \div 2) - 1, n < 0
  PROVE  ~(AsUsize(n) < PtrMod \div 2)
<1> DEFINE h == PtrMod \div 2
<1>1. PtrMod \in Nat /\ PtrMod > 0
  BY WidthAssumption
<1>2. h \in Int /\ PtrMod % 2 \in 0 .. 1 /\ PtrMod = 2 * h + (PtrMod % 2)
  BY <1>1, DivMod
<1> HIDE DEF h
<1>3. n \in Int /\ -h <= n /\ n < 0
  BY <1>2 DEF h
<1>4. n = PtrMod * (-1) + (n + PtrMod) /\ n + PtrMod \in 0 .. PtrMod - 1
  BY <1>1, <1>2, <1>3
<1>5. n % PtrMod = n + PtrMod
  BY <1>1, <1>3, <1>4, DivModUnique
<1> QED
  BY <1>1, <1>2, <1>3, <1>5 DEF AsUsize, h

(* What the FFI accepts after a complete conversion is nothing that must   *)
(* be refused.                                                             *)
LEMMA AcceptedNotRefused ==
  ASSUME TypeOK, heap \in [Arrays -> Contents], NEW t \in Threads, InCall(t), VecOK(t), AllSeen(t),
         AllConverted(t), Accepted(t)
  PROVE  ~Refused(t)
<1> DEFINE op == call[t].op
           args == Args(t)
<1>1. FfiContract(op, args) /\ Accepts(op, args)
  BY ContractHolds DEF AllSeen, Accepted
<1>2. call[t] \in Calls /\ op \in Ops
  BY CallTyped DEF InCall
<1>3. ASSUME NEW p \in IntParams \cap Params(op) PROVE ~(call[t].args[p] < 0)
  <2>1. call[t].args[p] \in -(PtrMod \div 2) .. (PtrMod \div 2) - 1
    BY <1>2, CallsAssumption
  <2>2. PICK slot \in IndexSlots \cap Slots(op) : ParamInSlot(op)[slot] = p
    BY <1>2, IntsInIndexSlots
  <2>3. slot \in DOMAIN args /\ args[slot] = AsUsize(call[t].args[p])
    BY <2>2 DEF Args, FfiArgs, ParamInSlot
  <2>4. AsUsize(call[t].args[p]) < PtrMod \div 2
    BY <1>1, <2>2, <2>3 DEF FfiContract
  <2> QED
    BY <2>1, <2>4, NegativeIsHuge
<1>4. ASSUME op = "anarchyProveUpdate", Argument(t, "memberLeafHashesNew") # NULL
      PROVE  heap[Argument(t, "memberLeafHashesNew")] # << >>
  <2> DEFINE p == "memberLeafHashesNew"
  <2>1. args["leaves_new"] # << >>
    BY <1>1, <1>4 DEF FfiContract
  <2>2. p \in ByteParams(op) /\ args["leaves_new"] = vec[t][p]
    <3>1. p \in ByteParams(op) /\ p \notin IntParams /\ p \notin LongParams
      BY <1>4, UpdateTakesRoster DEF IntParams, LongParams
    <3> QED
      BY <1>4, <3>1, UpdateTakesRoster DEF Args, FfiArgs, ParamInSlot
  <2>3. vec[t][p] \in Readings /\ Len(vec[t][p]) = Len(heap[Argument(t, p)])
    BY <1>4, <2>2 DEF VecOK, AllConverted, Converted, AllSeen
  <2>4. Argument(t, p) \in Arrays
    BY <1>4, <2>2, CallTyped DEF InCall
  <2>5. Len(heap[Argument(t, p)]) # 0
    <3>1. vec[t][p] \in Seq(ByteValues) /\ vec[t][p] # << >>
      BY <2>1, <2>2, <2>3, ReadingIsBytes
    <3> QED
      BY <2>3, <3>1, EmptySeq
  <2> QED
    BY <2>4, <2>5, ContentsAreBytes
<1> QED
  BY <1>3, <1>4 DEF Refused

---------------------------------------------------------------------------
(* The data invariant, step by step. *)

(* What the FFI allocates is where its pointers say, for the thread that   *)
(* called, and nothing that another thread points to has moved.            *)
LEMMA AllocateFills ==
  ASSUME TypeOK, NoDangling, NEW t \in Threads, NEW f \in [PtrSlots -> Addrs \cup {NULL}], NEW c,
         \A s \in PtrSlots : f[s] # NULL => f[s] \notin DOMAIN memory,
         Allocate(t, f, c)
  PROVE  /\ \A s \in PtrSlots : ptr'[t][s] = f[s] /\ (f[s] # NULL => At(f[s])' = c[s])
         /\ \A u \in Threads \ {t}, s \in PtrSlots :
              ptr'[u][s] = ptr[u][s] /\ At(ptr[u][s])' = At(ptr[u][s])
<1> DEFINE fresh == {s \in PtrSlots : f[s] # NULL}
<1>1. /\ \A s1, s2 \in fresh : f[s1] = f[s2] => s1 = s2
      /\ ptr' = [ptr EXCEPT ![t] = f]
      /\ memory' = [a \in DOMAIN memory \cup {f[s] : s \in fresh} |->
                      IF a \in DOMAIN memory THEN memory[a]
                      ELSE c[CHOOSE s \in fresh : f[s] = a]]
  BY DEF Allocate
<1>2. ASSUME NEW s \in PtrSlots, f[s] # NULL PROVE memory'[f[s]] = c[s]
  <2>1. s \in fresh /\ (CHOOSE s1 \in fresh : f[s1] = f[s]) = s
    BY <1>1, <1>2
  <2> QED
    BY <1>1, <1>2, <2>1
<1>3. \A a \in DOMAIN memory : memory'[a] = memory[a]
  BY <1>1
<1>4. /\ \A s \in PtrSlots : ptr'[t][s] = f[s]
      /\ \A u \in Threads \ {t} : ptr'[u] = ptr[u]
  BY <1>1 DEF TypeOK
<1> QED
  BY <1>2, <1>3, <1>4 DEF At, NoDangling

(* Freeing what one slot points to moves nothing that another points to. *)
LEMMA FreeSpares ==
  ASSUME TypeOK, Ownership, NEW t \in Threads, NEW slot \in PtrSlots, Free(t, slot),
         NEW u \in Threads \ {t}, NEW s \in PtrSlots
  PROVE  ptr'[u][s] = ptr[u][s] /\ At(ptr[u][s])' = At(ptr[u][s])
<1>1. ptr'[u][s] = ptr[u][s]
  BY DEF Free, TypeOK
<1>2. ASSUME ptr[u][s] # NULL PROVE memory'[ptr[u][s]] = memory[ptr[u][s]]
  <2>1. ptr[u][s] \in DOMAIN memory /\ ptr[u][s] # ptr[t][slot]
    BY <1>2 DEF Ownership, NoDangling, ExclusiveOwner
  <2> QED
    BY <2>1 DEF Free
<1> QED
  BY <1>1, <1>2 DEF At

(* A step that writes neither pointers nor native memory. *)
LEMMA UntouchedSpares ==
  ASSUME UNCHANGED << memory, ptr >>
  PROVE  \A u \in Threads, s \in PtrSlots :
           ptr'[u][s] = ptr[u][s] /\ At(ptr[u][s])' = At(ptr[u][s])
BY DEF At

(* The FFI's addresses are free ones. *)
LEMMA AcceptsAllocates ==
  ASSUME TypeOK, NEW t \in Threads, FfiAccepts(t), ~IsBool(t)
  PROVE  \E f \in [PtrSlots -> Addrs \cup {NULL}] : \E c :
           /\ \A s \in PtrSlots : f[s] # NULL => f[s] \notin DOMAIN memory
           /\ Allocate(t, f, c)
           /\ f["first"] # NULL \/ Buffers(t)[1] = << >>
           /\ c["first"] = Buffers(t)[1]
           /\ IsPair(t) => (f["second"] # NULL \/ Buffers(t)[2] = << >>)
                           /\ c["second"] = Buffers(t)[2]
<1> DEFINE second == IF IsPair(t) THEN Buffers(t)[2] ELSE << >>
<1>1. PICK a \in Addrs \cup {NULL}, b \in Addrs \cup {NULL} :
        /\ PointerFor(Buffers(t)[1], a)
        /\ IF IsPair(t) THEN PointerFor(second, b) ELSE b = NULL
        /\ Allocate(t, [first |-> a, second |-> b, err |-> NULL],
                       [first |-> Buffers(t)[1], second |-> second])
  BY DEF FfiAccepts, IsBool, IsPair, Buffers
<1> DEFINE f == [first |-> a, second |-> b, err |-> NULL]
           c == [first |-> Buffers(t)[1], second |-> second]
<1>2. /\ f \in [PtrSlots -> Addrs \cup {NULL}]
      /\ f["first"] = a /\ f["second"] = b /\ f["err"] = NULL
      /\ c["first"] = Buffers(t)[1] /\ c["second"] = second
  BY FrameTyped
<1>3. /\ a # NULL => a \notin DOMAIN memory
      /\ b # NULL => b \notin DOMAIN memory
      /\ a # NULL \/ Buffers(t)[1] = << >>
      /\ IsPair(t) => (b # NULL \/ Buffers(t)[2] = << >>) /\ second = Buffers(t)[2]
  BY <1>1, NullAssumption DEF PointerFor
<1>4. Allocate(t, f, c)
  BY <1>1
<1> HIDE DEF f, c, second
<1>5. \A s \in PtrSlots : f[s] # NULL => f[s] \notin DOMAIN memory
  BY <1>2, <1>3 DEF PtrSlots
<1> QED
  BY <1>2, <1>3, <1>4, <1>5

(* So is the address of its message, if it leaves one. *)
LEMMA RejectsAllocates ==
  ASSUME TypeOK, NEW t \in Threads, FfiRejects(t)
  PROVE  \E f \in [PtrSlots -> Addrs \cup {NULL}] : \E c :
           /\ \A s \in PtrSlots : f[s] # NULL => f[s] \notin DOMAIN memory
           /\ Allocate(t, f, c)
           /\ f["err"] = NULL <=> Why(t) = NULL
           /\ c["err"] = Why(t)
<1>1. PICK e \in Addrs \cup {NULL} :
        /\ IF Why(t) = NULL THEN e = NULL ELSE e \in Addrs \ DOMAIN memory
        /\ Allocate(t, [NoPointers EXCEPT !["err"] = e], [err |-> Why(t)])
  BY DEF FfiRejects, Why
<1> DEFINE f == [NoPointers EXCEPT !["err"] = e]
           c == [err |-> Why(t)]
<1>2. /\ f \in [PtrSlots -> Addrs \cup {NULL}]
      /\ \A s \in PtrSlots : f[s] = IF s = "err" THEN e ELSE NULL
      /\ c["err"] = Why(t)
  BY FrameTyped DEF NoPointers, PtrSlots
<1>3. Allocate(t, f, c)
  BY <1>1
<1> HIDE DEF f, c
<1> QED
  BY <1>1, <1>2, <1>3, NullAssumption DEF PtrSlots

(* A step of one thread keeps all others as they are. *)
LEMMA OthersKept ==
  ASSUME TypeOK, Ownership, NEW t \in Threads,
         Step(t) \/ Collect(t) \/ (\E c \in Calls : Invoke(t, c)),
         NEW u \in Threads \ {t}
  PROVE  heap' = heap /\ Kept(u)
<1> DEFINE P == \A s \in PtrSlots : ptr'[u][s] = ptr[u][s] /\ At(ptr[u][s])' = At(ptr[u][s])
<1> USE DEF TypeOK, Goto
<1>1. ASSUME P PROVE heap' = heap /\ Kept(u)
  <2>1. CASE Collect(t) \/ (\E c \in Calls : Invoke(t, c))
    BY <1>1, <2>1 DEF Collect, Invoke, Kept
  <2>2. CASE ConvertArgument(t) \/ ConversionFails(t)
    BY <1>1, <2>2 DEF ConvertArgument, ConversionFails, Kept
  <2>3. CASE FfiAccepts(t) \/ FfiRejects(t)
    BY <1>1, <2>3 DEF FfiAccepts, FfiRejects, Kept
  <2>4. CASE CopyBuffers(t) \/ FreeFirst(t) \/ FreeSecond(t)
    BY <1>1, <2>4 DEF CopyBuffers, FreeFirst, FreeSecond, Kept
  <2>5. CASE NewArray(t) \/ TakeMessage(t) \/ FreeMessage(t)
    BY <1>1, <2>5 DEF NewArray, TakeMessage, FreeMessage, Kept
  <2>6. CASE ThrowNew(t) \/ DiscardMessage(t)
    BY <1>1, <2>6 DEF ThrowNew, DiscardMessage, Kept
  <2>7. CASE ReturnToKotlin(t) \/ SplitPair(t)
    BY <1>1, <2>7 DEF ReturnToKotlin, SplitPair, Kept
  <2> QED
    BY <2>1, <2>2, <2>3, <2>4, <2>5, <2>6, <2>7 DEF Step
<1>2. CASE UNCHANGED << memory, ptr >>
  BY <1>1, <1>2, UntouchedSpares
<1>3. CASE \E slot \in PtrSlots : Free(t, slot)
  BY <1>1, <1>3, FreeSpares
<1>4. CASE FfiAccepts(t) /\ ~IsBool(t)
  BY <1>1, <1>4, AcceptsAllocates, AllocateFills DEF Ownership
<1>5. CASE FfiRejects(t)
  BY <1>1, <1>5, RejectsAllocates, AllocateFills DEF Ownership
<1>6. CASE ReturnToKotlin(t)
  <2>1. memory' = memory /\ ptr' = [ptr EXCEPT ![t] = NoPointers]
    BY <1>6 DEF ReturnToKotlin
  <2>2. P
    BY <2>1 DEF At
  <2> QED
    BY <1>1, <2>2
<1>7. \/ UNCHANGED << memory, ptr >>
      \/ \E slot \in PtrSlots : Free(t, slot)
      \/ FfiAccepts(t) /\ ~IsBool(t)
      \/ FfiRejects(t)
      \/ ReturnToKotlin(t)
  BY DEF Step, Collect, Invoke, ConvertArgument, ConversionFails, FfiAccepts, IsBool, CopyBuffers,
         FreeFirst, FreeSecond, NewArray, TakeMessage, FreeMessage, ThrowNew, DiscardMessage,
         SplitPair, PtrSlots
<1> QED
  BY <1>2, <1>3, <1>4, <1>5, <1>6, <1>7

(* What a thread has in a call whose arguments are all in, and which then  *)
(* goes from one step to another: its record of them stays as it is.       *)
LEMMA VecStays ==
  ASSUME NEW t \in Threads, InCall(t), VecOK(t), AllSeen(t),
         UNCHANGED heap, call'[t] = call[t], vec'[t] = vec[t],
         exc'[t] = NoException => AllConverted(t)
  PROVE  VecOK(t)' /\ AllSeen(t)'
BY DEF VecOK, AllSeen, InCall, AllConverted, Converted, Argument

(* After the FFI has been called, everything has been looked at. *)
LEMMA AfterCall ==
  ASSUME NEW t \in Threads, InCall(t), VecOK(t), pc[t] # "convert"
  PROVE  AllSeen(t) /\ (exc[t] = NoException => AllConverted(t))
BY DEF VecOK, AllSeen

(* A call begins with nothing read. *)
LEMMA InvokeOK ==
  ASSUME TypeOK, NEW t \in Threads, NEW c \in Calls, ThreadOK(t), Invoke(t, c)
  PROVE  ThreadOK(t)'
<1> USE DEF Goto
<1>1. /\ pc[t] = "idle" /\ pc'[t] = "convert" /\ call'[t] = c /\ vec'[t] = Nothing
      /\ exc'[t] = NoException /\ reply'[t] = NoReply
  BY DEF Invoke, TypeOK, ThreadOK, Tidy, InCall, NativeSteps
<1>2. Tidy(t)'
  BY <1>1 DEF Tidy, InCall, NativeSteps
<1>3. VecOK(t)'
  BY <1>1 DEF VecOK, Nothing
<1>4. ResultOK(t)' /\ AnswerOK(t)'
  BY <1>1 DEF ResultOK, AnswerOK
<1> QED
  BY <1>2, <1>3, <1>4 DEF ThreadOK

(* Nothing is left of a call when its answer has been taken. *)
LEMMA CollectOK ==
  ASSUME TypeOK, NEW t \in Threads, ThreadOK(t), Collect(t)
  PROVE  ThreadOK(t)'
<1>1. /\ pc[t] = "answered" /\ pc'[t] = "idle" /\ call'[t] = NoCall /\ vec'[t] = Nothing
      /\ exc'[t] = NoException /\ reply'[t] = NoReply
  BY DEF Collect, Goto, TypeOK, ThreadOK, Tidy, InCall, NativeSteps
<1> QED
  BY <1>1 DEF ThreadOK, Tidy, InCall, NativeSteps, VecOK, ResultOK, AnswerOK

(* One byte more, or an argument looked at for the first time. *)
LEMMA ConvertOK ==
  ASSUME TypeOK, heap \in [Arrays -> Contents], NEW t \in Threads, ThreadOK(t), ConvertArgument(t)
  PROVE  ThreadOK(t)'
<1>1. /\ pc[t] = "convert" /\ exc[t] = NoException /\ InCall(t)
      /\ UNCHANGED << heap, memory, pc, call, ptr, out, exc, reply >>
  BY DEF ConvertArgument, InCall
<1>2. Tidy(t)' /\ ResultOK(t)' /\ AnswerOK(t)'
  BY <1>1 DEF ThreadOK, Tidy, InCall, ResultOK, AnswerOK
<1>3. PICK p \in ByteParams(call[t].op) :
        /\ ~Converted(t, p)
        /\ vec' = IF p \in DOMAIN vec[t]
                  THEN [vec EXCEPT ![t][p] = Append(@, heap[Argument(t, p)][Len(@) + 1])]
                  ELSE [vec EXCEPT ![t] = With(@, p, BeforeFirstByte(Argument(t, p)))]
  BY DEF ConvertArgument
<1>4. VecOK(t)
  BY DEF ThreadOK
<1>5. Argument(t, p) \in Arrays \/ Argument(t, p) = NULL
  BY <1>1, CallTyped
<1>6. CASE p \in DOMAIN vec[t]
  <2> DEFINE r == vec[t][p]
             a == Argument(t, p)
  <2>1. /\ r \in Readings /\ a \in Arrays /\ heap[a] \in Contents
        /\ Len(r) < Len(heap[a])
    <3>1. r # NULL /\ Len(r) # Len(heap[a])
      BY <1>3, <1>6 DEF Converted
    <3>2. r \in Readings /\ a # NULL /\ Len(r) <= Len(heap[a])
      BY <1>1, <1>4, <1>6, <3>1 DEF VecOK
    <3>3. a \in Arrays /\ heap[a] \in Contents
      BY <1>5, <3>2
    <3>4. Len(r) \in Nat /\ Len(heap[a]) \in Nat
      BY <3>2, <3>3, ReadingIsBytes, ContentsAreBytes
    <3> QED
      BY <3>1, <3>2, <3>3, <3>4
  <2> DEFINE more == Append(r, heap[a][Len(r) + 1])
  <2>2. more \in Readings /\ Len(more) = Len(r) + 1 /\ more # NULL
    BY <2>1, ReadOneMore, ReadingIsBytes
  <2>3. Len(more) <= Len(heap[a])
    BY <2>1, <2>2, ReadingIsBytes, ContentsAreBytes
  <2>4. vec'[t] = [vec[t] EXCEPT ![p] = more]
    BY <1>3, <1>6 DEF TypeOK
  <2> HIDE DEF more, r
  <2>5. /\ vec'[t] \in [DOMAIN vec[t] -> Readings \cup {NULL}] /\ vec'[t][p] = more
        /\ \A q \in DOMAIN vec[t] : q # p => vec'[t][q] = vec[t][q]
    BY <1>1, <1>4, <1>6, <2>2, <2>4 DEF VecOK
  <2>6. a # NULL /\ Argument(t, p)' = a /\ \A q : Argument(t, q)' = Argument(t, q)
    BY <1>1, <2>1, NullAssumption DEF Argument
  <2> HIDE DEF a
  <2> QED
    BY <1>1, <1>2, <1>4, <1>6, <2>2, <2>3, <2>5, <2>6 DEF VecOK, ThreadOK, a
<1>7. CASE p \notin DOMAIN vec[t]
  <2> DEFINE none == BeforeFirstByte(Argument(t, p))
  <2>1. vec'[t] = With(vec[t], p, none)
    BY <1>3, <1>7 DEF TypeOK
  <2>2. /\ none \in Readings \cup {NULL}
        /\ none = NULL <=> Argument(t, p) = NULL
        /\ none # NULL => Len(none) = 0
    BY EmptyReading, ReadingIsBytes DEF BeforeFirstByte
  <2> HIDE DEF none
  <2>3. vec[t] \in [DOMAIN vec[t] -> Readings \cup {NULL}]
    BY <1>1, <1>4 DEF VecOK
  <2>8. vec'[t] = [q \in DOMAIN vec[t] \cup {p} |-> IF q = p THEN none ELSE vec[t][q]]
    BY <2>1 DEF With
  <2>6. \A q \in DOMAIN vec[t] \cup {p} : vec'[t][q] = IF q = p THEN none ELSE vec[t][q]
    BY <2>8
  <2>9. \A q \in DOMAIN vec[t] : vec[t][q] \in Readings \cup {NULL}
    BY <2>3
  <2>7. vec'[t] \in [DOMAIN vec[t] \cup {p} -> Readings \cup {NULL}]
    BY <2>2, <2>8, <2>9
  <2>4. none # NULL => Len(none) <= Len(heap[Argument(t, p)])
    BY <1>5, <2>2, ContentsAreBytes
  <2>5. \A q : Argument(t, q)' = Argument(t, q)
    BY <1>1 DEF Argument
  <2> QED
    BY <1>1, <1>2, <1>4, <2>2, <2>4, <2>5, <2>6, <2>7 DEF VecOK, ThreadOK
<1> QED
  BY <1>6, <1>7

(* A conversion that fails leaves an empty Vec for each array not yet read. *)
LEMMA ConversionFailsOK ==
  ASSUME TypeOK, heap \in [Arrays -> Contents], NEW t \in Threads, ThreadOK(t), ConversionFails(t)
  PROVE  ThreadOK(t)'
<1>1. /\ pc[t] = "convert" /\ InCall(t) /\ exc'[t] = JvmError
      /\ UNCHANGED << heap, memory, pc, call, ptr, out, reply >>
      /\ vec'[t] = [p \in ByteParams(call[t].op) |->
                      IF Converted(t, p) THEN vec[t][p]
                      ELSE IF Argument(t, p) = NULL THEN NULL ELSE << >>]
  BY DEF ConversionFails, InCall, TypeOK
<1>2. Tidy(t)' /\ ResultOK(t)' /\ AnswerOK(t)'
  BY <1>1 DEF ThreadOK, Tidy, InCall, ResultOK, AnswerOK, NativeSteps,
              JvmError, NoException, NoReply
<1>3. ASSUME NEW p \in ByteParams(call[t].op)
      PROVE  /\ vec'[t][p] \in Readings \cup {NULL}
             /\ vec'[t][p] = NULL <=> Argument(t, p) = NULL
             /\ vec'[t][p] # NULL => Len(vec'[t][p]) <= Len(heap[Argument(t, p)])
  <2>1. CASE Converted(t, p)
    <3>1. p \in DOMAIN vec[t] /\ vec'[t][p] = vec[t][p] /\ VecOK(t)
      BY <1>1, <2>1 DEF Converted, ThreadOK
    <3> QED
      BY <1>1, <3>1 DEF VecOK
  <2>2. CASE ~Converted(t, p)
    <3>1. vec'[t][p] = IF Argument(t, p) = NULL THEN NULL ELSE << >>
      BY <1>1, <2>2
    <3>2. Argument(t, p) \in Arrays \/ Argument(t, p) = NULL
      BY <1>1, CallTyped
    <3> QED
      BY <3>1, <3>2, EmptyReading, ReadingIsBytes, ContentsAreBytes
  <2> QED
    BY <2>1, <2>2
<1>4. vec'[t] \in [ByteParams(call[t].op) -> Readings \cup {NULL}]
  BY <1>1, <1>3
<1>5. \A q : Argument(t, q)' = Argument(t, q)
  BY <1>1 DEF Argument
<1>6. exc'[t] # NoException
  BY <1>1 DEF JvmError, NoException, NoReply
<1> QED
  BY <1>1, <1>2, <1>3, <1>4, <1>5, <1>6 DEF VecOK, ThreadOK

(* A thread that goes on inside a call, or back to Kotlin's side of it,    *)
(* with no answer and no new exception: what is left to show is where its  *)
(* results are.                                                            *)
LEMMA StepOK ==
  ASSUME TypeOK, NEW t \in Threads, ThreadOK(t), InCall(t), InCall(t)', AllSeen(t),
         exc'[t] = NoException => AllConverted(t),
         exc'[t] # NoException => pc'[t] \in NativeSteps /\ exc'[t].kind \in {"onym", "jvm"},
         exc'[t] = NoException \/ (exc'[t] = exc[t] /\ pc[t] # "return") \/ pc'[t] = "return",
         UNCHANGED << heap, call, reply >>, vec'[t] = vec[t], ResultOK(t)'
  PROVE  ThreadOK(t)'
<1>1. VecOK(t)'
  BY VecStays DEF ThreadOK
<1>2. Tidy(t)' /\ AnswerOK(t)'
  BY DEF ThreadOK, Tidy, AnswerOK, InCall
<1> QED
  BY <1>1, <1>2 DEF ThreadOK

(* The FFI is called once everything has been looked at. *)
LEMMA CalledWhenSeen ==
  ASSUME NEW t \in Threads, VecOK(t), pc[t] = "convert", AllConverted(t) \/ exc[t] # NoException
  PROVE  InCall(t) /\ AllSeen(t) /\ (exc[t] = NoException => AllConverted(t))
BY DEF VecOK, InCall, AllSeen, AllConverted, Converted

(* The FFI accepts: a truth value is there at once, a buffer is copied.    *)
LEMMA AcceptsOK ==
  ASSUME TypeOK, NoDangling, NEW t \in Threads, ThreadOK(t), FfiAccepts(t)
  PROVE  ThreadOK(t)'
<1>1. /\ pc[t] = "convert" /\ Accepted(t)
      /\ UNCHANGED << heap, call, vec, exc, reply >>
  BY DEF FfiAccepts, Accepted
<1>2. InCall(t) /\ AllSeen(t) /\ (exc[t] = NoException => AllConverted(t))
  BY CalledWhenSeen DEF ThreadOK, FfiAccepts
<1>3. /\ Accepted(t)' <=> Accepted(t)
      /\ Buffers(t)' = Buffers(t) /\ (IsPair(t)' <=> IsPair(t)) /\ (IsBool(t)' <=> IsBool(t))
  BY <1>1, SameVerdict
<1>4. exc[t] # NoException => exc[t].kind \in {"onym", "jvm"}
  BY DEF ThreadOK, AnswerOK
<1>5. CASE IsBool(t)
  <2>1. pc'[t] = "return" /\ out'[t] = << "true" >>
    BY <1>5 DEF FfiAccepts, Goto, TypeOK, IsBool
  <2>2. ResultOK(t)'
    BY <1>1, <1>3, <1>5, <2>1 DEF ResultOK
  <2>3. InCall(t)' /\ pc'[t] \in NativeSteps
    BY <2>1 DEF InCall, NativeSteps
  <2> QED
    BY <1>1, <1>2, <1>4, <2>2, <2>3, StepOK
<1>6. CASE ~IsBool(t)
  <2>1. pc'[t] = "copy"
    BY <1>6 DEF FfiAccepts, Goto, TypeOK, IsBool
  <2>2. PICK f \in [PtrSlots -> Addrs \cup {NULL}] : \E c :
           /\ \A s \in PtrSlots : f[s] # NULL => f[s] \notin DOMAIN memory
           /\ Allocate(t, f, c)
           /\ f["first"] # NULL \/ Buffers(t)[1] = << >>
           /\ c["first"] = Buffers(t)[1]
           /\ IsPair(t) => (f["second"] # NULL \/ Buffers(t)[2] = << >>)
                           /\ c["second"] = Buffers(t)[2]
    BY <1>6, AcceptsAllocates
  <2>3. PICK c :
           /\ \A s \in PtrSlots : f[s] # NULL => f[s] \notin DOMAIN memory
           /\ Allocate(t, f, c)
           /\ f["first"] # NULL \/ Buffers(t)[1] = << >>
           /\ c["first"] = Buffers(t)[1]
           /\ IsPair(t) => (f["second"] # NULL \/ Buffers(t)[2] = << >>)
                           /\ c["second"] = Buffers(t)[2]
    BY <2>2
  <2>4. \A s \in PtrSlots : ptr'[t][s] = f[s] /\ (f[s] # NULL => At(f[s])' = c[s])
    BY <2>3, AllocateFills
  <2>5. "first" \in PtrSlots /\ "second" \in PtrSlots
    BY DEF PtrSlots
  <2>6. At(ptr[t]["first"])' = Buffers(t)[1] /\ (IsPair(t) => At(ptr[t]["second"])' = Buffers(t)[2])
    BY <2>3, <2>4, <2>5 DEF At
  <2>7. ResultOK(t)'
    BY <1>1, <1>3, <1>6, <2>1, <2>6 DEF ResultOK
  <2>8. InCall(t)' /\ pc'[t] \in NativeSteps
    BY <2>1 DEF InCall, NativeSteps
  <2> QED
    BY <1>1, <1>2, <1>4, <2>7, <2>8, StepOK
<1> QED
  BY <1>5, <1>6

(* The FFI rejects: its message is where the error pointer says. *)
LEMMA RejectsOK ==
  ASSUME TypeOK, NoDangling, NEW t \in Threads, ThreadOK(t), FfiRejects(t)
  PROVE  ThreadOK(t)'
<1>1. /\ pc[t] = "convert" /\ ~Accepted(t)
      /\ UNCHANGED << heap, call, vec, out, exc, reply >>
      /\ pc'[t] = IF IsBool(t) THEN "discard" ELSE "message"
  BY DEF FfiRejects, Accepted, Goto, TypeOK, IsBool
<1>2. InCall(t) /\ AllSeen(t) /\ (exc[t] = NoException => AllConverted(t))
  BY CalledWhenSeen DEF ThreadOK, FfiRejects
<1>3. /\ Accepted(t)' <=> Accepted(t)
      /\ Why(t)' = Why(t) /\ (IsBool(t)' <=> IsBool(t))
  BY <1>1, SameVerdict
<1>4. exc[t] # NoException => exc[t].kind \in {"onym", "jvm"}
  BY DEF ThreadOK, AnswerOK
<1>5. PICK f \in [PtrSlots -> Addrs \cup {NULL}] : \E c :
           /\ \A s \in PtrSlots : f[s] # NULL => f[s] \notin DOMAIN memory
           /\ Allocate(t, f, c)
           /\ f["err"] = NULL <=> Why(t) = NULL
           /\ c["err"] = Why(t)
  BY RejectsAllocates
<1>6. PICK c :
           /\ \A s \in PtrSlots : f[s] # NULL => f[s] \notin DOMAIN memory
           /\ Allocate(t, f, c)
           /\ f["err"] = NULL <=> Why(t) = NULL
           /\ c["err"] = Why(t)
  BY <1>5
<1>7. \A s \in PtrSlots : ptr'[t][s] = f[s] /\ (f[s] # NULL => At(f[s])' = c[s])
  BY <1>6, AllocateFills
<1>8. IF Why(t) = NULL THEN ptr'[t]["err"] = NULL
      ELSE ptr'[t]["err"] # NULL /\ At(ptr[t]["err"])' = Why(t)
  <2>1. "err" \in PtrSlots
    BY DEF PtrSlots
  <2> QED
    BY <1>6, <1>7, <2>1
<1>9. ResultOK(t)'
  BY <1>1, <1>3, <1>8 DEF ResultOK
<1>10. InCall(t)' /\ pc'[t] \in NativeSteps
  BY <1>1 DEF InCall, NativeSteps
<1> QED
  BY <1>1, <1>2, <1>4, <1>9, <1>10, StepOK

(* The results are copied out of native memory. *)
LEMMA CopyOK ==
  ASSUME TypeOK, NEW t \in Threads, ThreadOK(t), CopyBuffers(t)
  PROVE  ThreadOK(t)'
<1>1. /\ pc[t] = "copy" /\ pc'[t] = "free" /\ InCall(t) /\ InCall(t)' /\ pc'[t] \in NativeSteps
      /\ out'[t] = IF IsPair(t) THEN Concat(At(ptr[t]["first"]), At(ptr[t]["second"]))
                   ELSE At(ptr[t]["first"])
      /\ UNCHANGED << heap, memory, call, vec, ptr, exc, reply >>
  BY DEF CopyBuffers, Goto, TypeOK, IsPair, InCall, NativeSteps
<1>2. AllSeen(t) /\ (exc[t] = NoException => AllConverted(t))
  BY <1>1, AfterCall DEF ThreadOK
<1>3. /\ Accepted(t)' <=> Accepted(t)
      /\ Wire(t)' = Wire(t) /\ (IsBool(t)' <=> IsBool(t))
  BY <1>1, SameVerdict
<1>4. Accepted(t) /\ ~IsBool(t) /\ out'[t] = Wire(t)
  BY <1>1 DEF Wire, ThreadOK, ResultOK
<1>5. Accepted(t)' /\ ~IsBool(t)' /\ out'[t] = Wire(t)' /\ pc'[t] = "free"
  BY <1>1, <1>3, <1>4
<1>6. ResultOK(t)'
  BY <1>5 DEF ResultOK
<1> QED
  BY <1>1, <1>2, <1>6, StepOK DEF ThreadOK, AnswerOK

(* The buffers are freed, and not read any more. *)
LEMMA FreeBuffersOK ==
  ASSUME TypeOK, NEW t \in Threads, ThreadOK(t), FreeFirst(t) \/ FreeSecond(t)
  PROVE  ThreadOK(t)'
<1>1. /\ pc[t] \in {"free", "freeSecond"} /\ pc'[t] \in {"freeSecond", "newArray"}
      /\ pc'[t] = "freeSecond" => IsPair(t)
      /\ UNCHANGED << heap, call, vec, out, exc, reply >>
  BY DEF FreeFirst, FreeSecond, Goto, TypeOK, IsPair
<1>2. InCall(t) /\ InCall(t)' /\ pc'[t] \in NativeSteps
  BY <1>1 DEF InCall, NativeSteps
<1>3. AllSeen(t) /\ (exc[t] = NoException => AllConverted(t))
  BY <1>1, <1>2, AfterCall DEF ThreadOK
<1>4. /\ Accepted(t)' <=> Accepted(t)
      /\ Wire(t)' = Wire(t) /\ (IsBool(t)' <=> IsBool(t)) /\ (IsPair(t)' <=> IsPair(t))
  BY <1>1, SameVerdict
<1>5. ResultOK(t)'
  BY <1>1, <1>4 DEF ResultOK, ThreadOK
<1> QED
  BY <1>1, <1>2, <1>3, <1>5, StepOK DEF ThreadOK, AnswerOK

(* The array is made, whole, or an exception is pending. *)
LEMMA NewArrayOK ==
  ASSUME TypeOK, NEW t \in Threads, ThreadOK(t), NewArray(t)
  PROVE  ThreadOK(t)'
<1>1. /\ pc[t] = "newArray" /\ pc'[t] = "return"
      /\ UNCHANGED << heap, memory, call, vec, ptr, reply >>
      /\ \/ /\ exc[t] = NoException /\ NewJavaArray(out[t]).ok
            /\ out'[t] = NewJavaArray(out[t]).bytes /\ exc'[t] = exc[t]
         \/ exc'[t] = JvmError
  BY DEF NewArray, Goto, TypeOK
<1>2. InCall(t) /\ InCall(t)' /\ pc'[t] \in NativeSteps
  BY <1>1 DEF InCall, NativeSteps
<1>3. AllSeen(t) /\ (exc[t] = NoException => AllConverted(t))
  BY <1>1, <1>2, AfterCall DEF ThreadOK
<1>4. Accepted(t) /\ ~IsBool(t) /\ out[t] = Wire(t)
  BY <1>1 DEF ThreadOK, ResultOK
<1>5. NewJavaArray(Wire(t)) =
        IF Len(Wire(t)) <= MaxInt THEN [ok |-> TRUE, bytes |-> Wire(t)] ELSE [ok |-> FALSE]
  BY <1>2, <1>3, <1>4, WireHandedOver DEF ThreadOK
<1>6. JvmError # NoException /\ JvmError.kind = "jvm"
  BY DEF JvmError, NoException, NoReply
<1>7. exc'[t] = NoException => exc[t] = NoException /\ out'[t] = Wire(t) /\ Len(Wire(t)) <= MaxInt
  BY <1>1, <1>4, <1>5, <1>6
<1>8. Accepted(t)' /\ ~IsBool(t)' /\ Wire(t)' = Wire(t)
  <2>1. /\ Accepted(t)' <=> Accepted(t)
        /\ Wire(t)' = Wire(t) /\ (IsBool(t)' <=> IsBool(t))
    BY <1>1, SameVerdict
  <2> QED
    BY <1>4, <2>1
<1>9. ResultOK(t)'
  <2>1. exc'[t] = NoException => out'[t] = Wire(t)' /\ Len(out'[t]) <= MaxInt
    BY <1>7, <1>8
  <2> QED
    BY <1>1, <1>8, <2>1 DEF ResultOK
<1>10. exc'[t] # NoException => exc'[t].kind \in {"onym", "jvm"}
  <2>1. exc'[t] = exc[t] \/ exc'[t] = JvmError
    BY <1>1
  <2> QED
    BY <1>6, <2>1 DEF ThreadOK, AnswerOK
<1> QED
  BY <1>1, <1>2, <1>3, <1>7, <1>9, <1>10, StepOK

(* The message is read from native memory, then freed. *)
LEMMA MessageOK ==
  ASSUME TypeOK, NEW t \in Threads, ThreadOK(t), TakeMessage(t) \/ FreeMessage(t)
  PROVE  ThreadOK(t)'
<1>1. /\ \/ /\ pc[t] = "message" /\ pc'[t] = "freeMessage"
            /\ out'[t] = IF ptr[t]["err"] = NULL THEN DefaultMessage ELSE memory[ptr[t]["err"]]
         \/ pc[t] = "freeMessage" /\ pc'[t] = "throw" /\ out'[t] = out[t]
      /\ UNCHANGED << heap, call, vec, exc, reply >>
  BY DEF TakeMessage, FreeMessage, Goto, TypeOK
<1>2. InCall(t) /\ InCall(t)' /\ pc'[t] \in NativeSteps
  BY <1>1 DEF InCall, NativeSteps
<1>3. AllSeen(t) /\ (exc[t] = NoException => AllConverted(t))
  BY <1>1, <1>2, AfterCall DEF ThreadOK
<1>4. ~Accepted(t) /\ ~IsBool(t) /\ out'[t] = Message(t)
  BY <1>1 DEF ThreadOK, ResultOK, Message, At
<1>5. ~Accepted(t)' /\ ~IsBool(t)' /\ out'[t] = Message(t)'
  <2>1. /\ Accepted(t)' <=> Accepted(t)
        /\ Message(t)' = Message(t) /\ (IsBool(t)' <=> IsBool(t))
    BY <1>1, SameVerdict
  <2> QED
    BY <1>4, <2>1
<1>6. ResultOK(t)'
  BY <1>1, <1>5 DEF ResultOK
<1> QED
  BY <1>1, <1>2, <1>3, <1>6, StepOK DEF ThreadOK, AnswerOK

(* An exception is pending when the export returns from a rejection. *)
LEMMA ThrowOK ==
  ASSUME TypeOK, NEW t \in Threads, ThreadOK(t), ThrowNew(t)
  PROVE  ThreadOK(t)'
<1>1. /\ pc[t] = "throw" /\ pc'[t] = "return"
      /\ UNCHANGED << heap, call, vec, reply >>
      /\ \/ exc[t] # NoException /\ exc'[t] = exc[t]
         \/ exc'[t] \in {[kind |-> "onym", value |-> << out[t] >>], JvmError}
  BY DEF ThrowNew, Goto, TypeOK
<1>2. InCall(t) /\ InCall(t)' /\ pc'[t] \in NativeSteps
  BY <1>1 DEF InCall, NativeSteps
<1>3. AllSeen(t) /\ (exc[t] = NoException => AllConverted(t))
  BY <1>1, <1>2, AfterCall DEF ThreadOK
<1>4. \A e \in {[kind |-> "onym", value |-> << out[t] >>], JvmError} :
        e # NoException /\ e.kind \in {"onym", "jvm"}
  BY DEF JvmError, NoException, NoReply
<1>5. exc'[t] # NoException /\ exc'[t].kind \in {"onym", "jvm"}
  BY <1>1, <1>4 DEF ThreadOK, AnswerOK
<1>6. ResultOK(t)'
  BY <1>1, <1>5 DEF ResultOK
<1> QED
  BY <1>1, <1>2, <1>3, <1>5, <1>6, StepOK

(* A refusal to verify is false, whatever message came with it. *)
LEMMA DiscardOK ==
  ASSUME TypeOK, NEW t \in Threads, ThreadOK(t), DiscardMessage(t)
  PROVE  ThreadOK(t)'
<1>1. /\ pc[t] = "discard" /\ pc'[t] = "return" /\ out'[t] = << "false" >>
      /\ UNCHANGED << heap, call, vec, exc, reply >>
  BY DEF DiscardMessage, Goto, TypeOK
<1>2. InCall(t) /\ InCall(t)' /\ pc'[t] \in NativeSteps
  BY <1>1 DEF InCall, NativeSteps
<1>3. AllSeen(t) /\ (exc[t] = NoException => AllConverted(t))
  BY <1>1, <1>2, AfterCall DEF ThreadOK
<1>4. ~Accepted(t)' /\ IsBool(t)'
  <2>1. /\ Accepted(t)' <=> Accepted(t)
        /\ IsBool(t)' <=> IsBool(t)
    BY <1>1, SameVerdict
  <2> QED
    BY <1>1, <2>1 DEF ThreadOK, ResultOK
<1>5. ResultOK(t)'
  BY <1>1, <1>4 DEF ResultOK
<1> QED
  BY <1>1, <1>2, <1>3, <1>5, StepOK DEF ThreadOK, AnswerOK

(* A value goes back to Kotlin only if everything was read and the FFI     *)
(* accepted it, or the answer is a truth value.                            *)
LEMMA ValueReturned ==
  ASSUME TypeOK, heap \in [Arrays -> Contents], NEW t \in Threads, ThreadOK(t),
         pc[t] = "return", exc[t] = NoException
  PROVE  /\ IsBool(t) => ValueOf(t) = [kind |-> IF Accepted(t) THEN "true" ELSE "false",
                                       value |-> << >>]
         /\ ~IsBool(t) => /\ ValueOf(t) = [kind |-> Kind(call[t].op), value |-> << Wire(t) >>]
                          /\ Accepted(t) /\ ~Refused(t)
<1>1. InCall(t)
  BY DEF InCall
<1>2. AllSeen(t) /\ AllConverted(t)
  BY <1>1, AfterCall DEF ThreadOK
<1>3. CASE IsBool(t)
  <2>1. out[t] = << IF Accepted(t) THEN "true" ELSE "false" >>
    BY <1>3 DEF ThreadOK, ResultOK
  <2>2. out[t] # NULL
    BY <2>1, NullAssumption
  <2> QED
    BY <1>3, <2>1, <2>2 DEF ValueOf, IsBool
<1>4. CASE ~IsBool(t)
  <2>1. Accepted(t) /\ out[t] = Wire(t)
    BY <1>4 DEF ThreadOK, ResultOK
  <2>2. Wire(t) # NULL
    BY <1>1, <1>2, <1>4, <2>1, WireIsBuffer DEF ThreadOK
  <2>3. ~Refused(t)
    BY <1>1, <1>2, <2>1, AcceptedNotRefused DEF ThreadOK
  <2> QED
    BY <1>4, <2>1, <2>2, <2>3 DEF ValueOf, IsBool
<1> QED
  BY <1>3, <1>4

(* A call that answers: the wrapper's frame and its record are gone. *)
LEMMA AnswerIsOK ==
  ASSUME TypeOK, NEW t \in Threads, ThreadOK(t), UNCHANGED << heap, call >>,
         pc'[t] = "answered", vec'[t] = Nothing, exc'[t] = NoException,
         reply'[t].kind \in AnswerKinds(call[t].op), Kind(call[t].op) \in Kinds,
         reply'[t].kind \in {"bytes", "text", "pair"} => ~Refused(t)
  PROVE  ThreadOK(t)'
<1>1. reply'[t] # NoReply
  BY DEF AnswerKinds, Kinds, NoReply
<1>2. Tidy(t)'
  BY <1>1 DEF Tidy, InCall
<1>3. VecOK(t)' /\ ResultOK(t)'
  BY DEF VecOK, ResultOK, InCall
<1>4. Refused(t)' <=> Refused(t)
  BY DEF Refused, Argument
<1>5. AnswerOK(t)'
  BY <1>4 DEF AnswerOK
<1> QED
  BY <1>2, <1>3, <1>5 DEF ThreadOK

(* Back in Kotlin: the exception, the value, or a pair still to be split. *)
LEMMA ReturnOK ==
  ASSUME TypeOK, heap \in [Arrays -> Contents], NEW t \in Threads, ThreadOK(t),
         ReturnToKotlin(t)
  PROVE  ThreadOK(t)'
<1>1. pc[t] = "return" /\ InCall(t) /\ UNCHANGED << heap, memory, call >>
  BY DEF ReturnToKotlin, InCall
<1>2. AllSeen(t) /\ (exc[t] = NoException => AllConverted(t))
  BY <1>1, AfterCall DEF ThreadOK
<1>3. CASE exc[t] = NoException /\ IsPair(t)
  <2>1. pc'[t] = "split" /\ UNCHANGED << vec, out, exc, reply >>
    BY <1>3 DEF ReturnToKotlin, Goto, TypeOK, IsPair
  <2>2. InCall(t)'
    BY <2>1 DEF InCall
  <2>3. Accepted(t) /\ ~IsBool(t) /\ out[t] = Wire(t) /\ Len(out[t]) <= MaxInt
    BY <1>1, <1>3 DEF ThreadOK, ResultOK, IsPair, IsBool
  <2>4. /\ Accepted(t)' <=> Accepted(t)
        /\ Wire(t)' = Wire(t) /\ (IsBool(t)' <=> IsBool(t)) /\ (IsPair(t)' <=> IsPair(t))
    BY <1>1, <2>1, SameVerdict
  <2>5. Accepted(t)' /\ ~IsBool(t)' /\ IsPair(t)' /\ out'[t] = Wire(t)' /\ Len(out'[t]) <= MaxInt
    BY <1>3, <2>1, <2>3, <2>4
  <2>6. ResultOK(t)'
    BY <1>3, <2>1, <2>5 DEF ResultOK
  <2> QED
    BY <1>1, <1>2, <1>3, <2>1, <2>2, <2>6, StepOK
<1>4. CASE exc[t] # NoException \/ ~IsPair(t)
  <2>1. /\ pc'[t] = "answered" /\ vec'[t] = Nothing /\ exc'[t] = NoException
        /\ reply'[t] = IF exc[t] # NoException THEN exc[t] ELSE ValueOf(t)
    BY <1>4 DEF ReturnToKotlin, Goto, TypeOK, IsPair
  <2>2. Kind(call[t].op) \in Kinds
    BY <1>1, CallTyped
  <2>3. CASE exc[t] # NoException
    <3>1. reply'[t].kind \in {"onym", "jvm"}
      BY <2>1, <2>3 DEF ThreadOK, AnswerOK
    <3> QED
      BY <1>1, <2>1, <2>2, <3>1, AnswerIsOK DEF AnswerKinds
  <2>4. CASE exc[t] = NoException
    <3>1. reply'[t] = ValueOf(t)
      BY <2>1, <2>4
    <3>2. IsBool(t) => reply'[t].kind \in {"true", "false"}
      BY <1>1, <2>4, <3>1, ValueReturned
    <3>3. ~IsBool(t) => reply'[t].kind = Kind(call[t].op) /\ ~Refused(t)
      BY <1>1, <2>4, <3>1, ValueReturned
    <3>4. reply'[t].kind \in AnswerKinds(call[t].op)
      BY <3>2, <3>3 DEF AnswerKinds, IsBool
    <3>5. reply'[t].kind \in {"bytes", "text", "pair"} => ~Refused(t)
      BY <3>2, <3>3
    <3> QED
      BY <1>1, <2>1, <2>2, <3>4, <3>5, AnswerIsOK
  <2> QED
    BY <2>3, <2>4
<1> QED
  BY <1>3, <1>4

(* The pair is split into the two buffers of the FFI. *)
LEMMA PairSplit ==
  ASSUME TypeOK, heap \in [Arrays -> Contents], NEW t \in Threads, ThreadOK(t), SplitPair(t)
  PROVE  /\ reply' = [reply EXCEPT ![t] = [kind |-> "pair", value |-> Buffers(t)]]
         /\ pc[t] = "split" /\ exc[t] = NoException /\ Accepted(t) /\ IsPair(t) /\ AllSeen(t)
         /\ AllConverted(t) /\ ~Refused(t)
<1>1. pc[t] = "split" /\ InCall(t)
  BY DEF SplitPair, InCall
<1>2. /\ Accepted(t) /\ ~IsBool(t) /\ IsPair(t)
      /\ out[t] = Wire(t) /\ Len(Wire(t)) <= MaxInt /\ exc[t] = NoException
  BY <1>1 DEF ThreadOK, ResultOK
<1>3. AllSeen(t) /\ AllConverted(t)
  BY <1>1, <1>2, AfterCall DEF ThreadOK
<1>4. /\ Split(Wire(t)) = [ok |-> TRUE, first |-> Buffers(t)[1], second |-> Buffers(t)[2]]
      /\ Buffers(t) = << Buffers(t)[1], Buffers(t)[2] >>
  BY <1>1, <1>2, <1>3, WireSplits DEF ThreadOK
<1>5. Wire(t) # NULL
  BY <1>1, <1>2, <1>3, WireIsBuffer DEF ThreadOK
<1>6. ~Refused(t)
  BY <1>1, <1>2, <1>3, AcceptedNotRefused DEF ThreadOK
<1>7. reply' = [reply EXCEPT ![t] = [kind |-> "pair", value |-> Buffers(t)]]
  <2> DEFINE s == Split(out[t])
  <2>1. reply' = [reply EXCEPT ![t] =
                    IF s.ok THEN [kind |-> "pair", value |-> << s.first, s.second >>]
                    ELSE [kind |-> "broken", value |-> << >>]]
    BY <1>2, <1>5 DEF SplitPair
  <2>2. s.ok /\ << s.first, s.second >> = Buffers(t)
    BY <1>2, <1>4
  <2> QED
    BY <2>1, <2>2
<1> QED
  BY <1>1, <1>2, <1>3, <1>6, <1>7

(* With which the call answers. *)
LEMMA SplitOK ==
  ASSUME TypeOK, heap \in [Arrays -> Contents], NEW t \in Threads, ThreadOK(t), SplitPair(t)
  PROVE  ThreadOK(t)'
<1>1. /\ pc'[t] = "answered" /\ vec'[t] = Nothing /\ exc'[t] = exc[t]
      /\ UNCHANGED << heap, call >>
  BY DEF SplitPair, Goto, TypeOK
<1>2. /\ reply' = [reply EXCEPT ![t] = [kind |-> "pair", value |-> Buffers(t)]]
      /\ exc[t] = NoException /\ IsPair(t) /\ ~Refused(t)
  BY PairSplit
<1>3. reply'[t].kind = "pair"
  BY <1>2 DEF TypeOK
<1>4. "pair" \in AnswerKinds(call[t].op) /\ Kind(call[t].op) \in Kinds
  BY <1>2 DEF AnswerKinds, IsPair, Kinds
<1> QED
  BY <1>1, <1>2, <1>3, <1>4, AnswerIsOK

(* Each step of a thread keeps what it may rely on itself. *)
LEMMA OwnStepOK ==
  ASSUME TypeOK, NoDangling, heap \in [Arrays -> Contents], NEW t \in Threads, ThreadOK(t),
         Step(t) \/ Collect(t) \/ (\E c \in Calls : Invoke(t, c))
  PROVE  ThreadOK(t)'
BY InvokeOK, CollectOK, ConvertOK, ConversionFailsOK, AcceptsOK, RejectsOK, CopyOK,
   FreeBuffersOK, NewArrayOK, MessageOK, ThrowOK, DiscardOK, ReturnOK, SplitOK DEF Step

(* Writing to an array changes its bytes and not its length. *)
LEMMA WriteKeeps ==
  ASSUME TypeOK, DataInv, NEW a \in Arrays, NEW v \in Contents, Write(a, v)
  PROVE  DataInv'
<1>1. SameLengths
  BY DEF DataInv, Write, SameLengths
<1>2. ASSUME NEW u \in Threads PROVE Kept(u)
  <2>1. UNCHANGED << memory, pc, call, vec, ptr, out, exc, reply >>
    BY DEF Write
  <2> QED
    BY <2>1, UntouchedSpares DEF Kept
<1>3. \A u \in Threads : ThreadOK(u)'
  BY <1>1, <1>2, KeptStaysOK DEF DataInv
<1> QED
  BY <1>1, <1>3 DEF DataInv, SameLengths

(* The step of one thread keeps what every thread may rely on. *)
LEMMA StepKeeps ==
  ASSUME TypeOK, Ownership, DataInv, NEW t \in Threads,
         Step(t) \/ Collect(t) \/ (\E c \in Calls : Invoke(t, c))
  PROVE  DataInv'
<1>1. UNCHANGED heap
  BY DEF Step, Collect, Invoke, ConvertArgument, ConversionFails, FfiAccepts, FfiRejects,
         CopyBuffers, FreeFirst, FreeSecond, NewArray, TakeMessage, FreeMessage, ThrowNew,
         DiscardMessage, ReturnToKotlin, SplitPair
<1>2. ThreadOK(t)'
  BY OwnStepOK DEF DataInv, Ownership
<1>3. SameLengths
  BY <1>1 DEF SameLengths, DataInv
<1>4. \A u \in Threads \ {t} : ThreadOK(u)'
  BY <1>3, OthersKept, KeptStaysOK DEF DataInv
<1>5. \A u \in Threads : ThreadOK(u)'
  BY <1>2, <1>4
<1> QED
  BY <1>1, <1>5 DEF DataInv

(* Nor does a step that changes nothing. *)
LEMMA StutterKeeps ==
  ASSUME DataInv, UNCHANGED vars
  PROVE  DataInv'
<1>1. ASSUME NEW u \in Threads PROVE ThreadOK(u)'
  <2> USE DEF vars
  <2>1. ThreadOK(u)
    BY DEF DataInv
  <2>2. Tidy(u)' /\ AnswerOK(u)'
    BY <2>1 DEF ThreadOK, Tidy, AnswerOK, InCall, Refused, Argument
  <2>3. VecOK(u)'
    BY <2>1 DEF ThreadOK, VecOK, InCall, Argument, AllConverted, Converted
  <2>4. /\ Accepted(u)' <=> Accepted(u)
        /\ Buffers(u)' = Buffers(u) /\ Why(u)' = Why(u) /\ Message(u)' = Message(u)
        /\ Wire(u)' = Wire(u) /\ (IsPair(u)' <=> IsPair(u)) /\ (IsBool(u)' <=> IsBool(u))
    BY SameVerdict
  <2>5. ResultOK(u)'
    BY <2>1, <2>4 DEF ThreadOK, ResultOK, At
  <2> QED
    BY <2>2, <2>3, <2>5 DEF ThreadOK
<1> QED
  BY <1>1 DEF DataInv, vars

(***************************************************************************)
(* The inductive invariant: at each step of each call, how far it has      *)
(* read, the verdict that led there and where its results are.             *)
(***************************************************************************)
THEOREM DataInvariant == Spec => []DataInv
<1>1. Init => DataInv
  <2> SUFFICES ASSUME Init PROVE DataInv
    OBVIOUS
  <2>1. ASSUME NEW t \in Threads PROVE ThreadOK(t)
    <3>1. /\ pc[t] = "idle" /\ call[t] = NoCall /\ vec[t] = Nothing
          /\ exc[t] = NoException /\ reply[t] = NoReply
      BY DEF Init
    <3> QED
      BY <3>1 DEF ThreadOK, Tidy, InCall, VecOK, ResultOK, AnswerOK
  <2> QED
    BY <2>1 DEF Init, DataInv
<1>2. ASSUME TypeOK, IInv, DataInv, [Next]_vars PROVE DataInv'
  BY <1>2, WriteKeeps, StepKeeps, StutterKeeps DEF Next, IInv
<1> QED
  BY <1>1, <1>2, TypeCorrect, OwnershipInvariant, PTL DEF Spec

---------------------------------------------------------------------------
(* What the data invariant shows of the answers. *)

(* Each call answers with a value of its kind, or with an exception, and   *)
(* never with a null or a concat that cannot be split: for every FFI that  *)
(* keeps its contract (lib.rs 161-191, 234-277, OnymJni.kt 199-211).       *)
THEOREM AnswersAreWhole == Spec => []AnswersValueOrThrows
<1>1. DataInv => AnswersValueOrThrows
  BY DEF DataInv, ThreadOK, AnswerOK, AnswerKinds, AnswersValueOrThrows
<1> QED
  BY <1>1, DataInvariant, PTL

(* Only null stands for a roster that stays as it is: an empty new roster  *)
(* is never proved (lib.rs 534-551).                                       *)
THEOREM EmptyRosterRefused == Spec => []EmptyRosterNeverReused
<1>1. DataInv => EmptyRosterNeverReused
  <2> SUFFICES ASSUME DataInv, NEW t \in Threads,
                      reply[t].kind = "pair", call[t].op = "anarchyProveUpdate"
               PROVE  LET roster == Argument(t, "memberLeafHashesNew")
                      IN  roster = NULL \/ heap[roster] # << >>
    BY DEF EmptyRosterNeverReused
  <2>1. reply[t] # NoReply
    BY DEF NoReply
  <2>2. ~Refused(t)
    BY <2>1 DEF DataInv, ThreadOK, Tidy, AnswerOK
  <2> QED
    BY <2>2 DEF Refused
<1> QED
  BY <1>1, DataInvariant, PTL

(* A negative tier or index is never proved for some other member, and     *)
(* never answered with a buffer at all (lib.rs 459, 510).                  *)
THEOREM NegativeIndexRefused == Spec => []NegativeIndexNeverProves
<1>1. TypeOK /\ DataInv => NegativeIndexNeverProves
  <2> SUFFICES ASSUME TypeOK, DataInv, NEW t \in Threads,
                      reply[t].kind \in {"bytes", "text", "pair"},
                      NEW p \in IntParams \cap Params(call[t].op)
               PROVE  call[t].args[p] >= 0
    BY DEF NegativeIndexNeverProves
  <2>1. reply[t] # NoReply
    BY DEF NoReply
  <2>2. pc[t] = "answered" /\ ~Refused(t)
    BY <2>1 DEF DataInv, ThreadOK, Tidy, AnswerOK
  <2>3. call[t] \in Calls
    BY <2>2, CallTyped
  <2>4. call[t].args[p] \in -(PtrMod \div 2) .. (PtrMod \div 2) - 1
    BY <2>3, CallsAssumption
  <2>5. call[t].args[p] \in Int
    BY <2>4, WidthAssumption
  <2>6. ~(call[t].args[p] < 0)
    BY <2>2 DEF Refused
  <2> QED
    BY <2>5, <2>6
<1> QED
  BY <1>1, TypeCorrect, DataInvariant, PTL

---------------------------------------------------------------------------
(* The refinement: each step of the shim is a step of the API, or none. *)

(* What the API sees of a thread that has not answered. *)
LEMMA Unanswered ==
  ASSUME TypeOK, NEW t \in Threads, ThreadOK(t), InCall(t), exc[t] = NoException
  PROVE  /\ ReplyBar[t] = NoReply /\ SeenBar[t] = vec[t] /\ call[t].op \in Ops
         /\ Api!Busy(t)
<1>1. reply[t] = NoReply
  BY DEF ThreadOK, Tidy, InCall
<1>2. ReplyBar[t] = NoReply /\ SeenBar[t] = vec[t]
  BY <1>1 DEF ReplyBar, SeenBar
<1>3. call[t].op \in Ops
  BY CallTyped DEF InCall
<1>4. call[t] # Api!NoCall
  BY <1>3, EveryRowNamed DEF Api!NoCall
<1> QED
  BY <1>2, <1>3, <1>4 DEF Api!Busy, Api!NoReply, NoReply

(* What the API sees of the other threads stays as it is. *)
LEMMA OneBarMoves ==
  ASSUME TypeOK, Ownership, NEW t \in Threads,
         Step(t) \/ Collect(t) \/ (\E c \in Calls : Invoke(t, c))
  PROVE  /\ ReplyBar' = [ReplyBar EXCEPT ![t] = ReplyBar'[t]]
         /\ SeenBar' = [SeenBar EXCEPT ![t] = SeenBar'[t]]
<1>1. \A u \in Threads \ {t} : exc'[u] = exc[u] /\ reply'[u] = reply[u] /\ vec'[u] = vec[u]
  BY OthersKept DEF Kept
<1>2. \A u \in Threads \ {t} : ReplyBar'[u] = ReplyBar[u]
  BY <1>1 DEF ReplyBar
<1>3. \A u \in Threads \ {t} : SeenBar'[u] = SeenBar[u]
  BY <1>1, <1>2 DEF SeenBar
<1>4. /\ ReplyBar = [u \in Threads |-> ReplyBar[u]] /\ SeenBar = [u \in Threads |-> SeenBar[u]]
      /\ ReplyBar' = [u \in Threads |-> ReplyBar'[u]] /\ SeenBar' = [u \in Threads |-> SeenBar'[u]]
  BY DEF ReplyBar, SeenBar
<1> QED
  BY <1>2, <1>3, <1>4

(* A step that the API does not see. *)
LEMMA Unseen ==
  ASSUME TypeOK, Ownership, NEW t \in Threads, Step(t), UNCHANGED << heap, call >>,
         exc'[t] = exc[t], reply'[t] = reply[t], vec'[t] = vec[t]
  PROVE  UNCHANGED Api!vars
<1>1. ReplyBar'[t] = ReplyBar[t]
  BY DEF ReplyBar
<1>2. SeenBar'[t] = SeenBar[t]
  BY <1>1 DEF SeenBar
<1>3. ReplyBar = [u \in Threads |-> ReplyBar[u]] /\ SeenBar = [u \in Threads |-> SeenBar[u]]
  BY DEF ReplyBar, SeenBar
<1>4. UNCHANGED << ReplyBar, SeenBar >>
  BY <1>1, <1>2, <1>3, OneBarMoves
<1> QED
  BY <1>4 DEF Api!vars

(* A step with which a call answers: with what the FFI makes of arguments  *)
(* that it has read to their ends, or with the JVM's failure.              *)
LEMMA AnswersWith ==
  ASSUME TypeOK, Ownership, NEW t \in Threads, Step(t), UNCHANGED << heap, call >>,
         ThreadOK(t), InCall(t), exc[t] = NoException,
         NEW r, r # NoReply, exc'[t] = r \/ (exc'[t] = NoException /\ reply'[t] = r),
         r = JvmError \/ (AllSeen(t) /\ AllConverted(t) /\ r = Api!Promise(call[t], vec[t]))
  PROVE  Api!Answer(t)
<1>1. ReplyBar'[t] = r
  BY DEF ReplyBar, NoException
<1>2. SeenBar'[t] = Nothing
  BY <1>1 DEF SeenBar
<1>3. /\ ReplyBar' = [ReplyBar EXCEPT ![t] = r]
      /\ SeenBar' = [SeenBar EXCEPT ![t] = Nothing]
  BY <1>1, <1>2, OneBarMoves
<1>4. /\ SeenBar[t] = vec[t] /\ Api!Busy(t)
  BY Unanswered
<1>5. \/ r = Api!JvmError
      \/ r = Api!Promise(call[t], SeenBar[t]) /\ Api!AllRead(t)
  <2>1. CASE r = JvmError
    BY <2>1 DEF JvmError, Api!JvmError
  <2>2. CASE AllSeen(t) /\ AllConverted(t) /\ r = Api!Promise(call[t], vec[t])
    <3>1. \A p \in ByteParams(call[t].op) :
            Argument(t, p) # NULL => vec[t][p] # NULL
      BY <2>2 DEF AllSeen, ThreadOK, VecOK
    <3>2. Api!AllRead(t)
      BY <1>4, <2>2, <3>1, SamePlumbing
         DEF Api!AllRead, AllConverted, Converted, AllSeen, Argument
    <3> QED
      BY <1>4, <2>2, <3>2
  <2> QED
    BY <2>1, <2>2
<1> QED
  BY <1>3, <1>4, <1>5 DEF Api!Answer, Api!Nothing, Nothing

(* The API's promise, in terms of the shim's verdict and results. *)
LEMMA PromiseIs ==
  ASSUME NEW t \in Threads, call[t].op \in Ops
  PROVE  Api!Promise(call[t], vec[t]) =
           IF IsBool(t) THEN [kind |-> IF Accepted(t) THEN "true" ELSE "false", value |-> << >>]
           ELSE IF Accepted(t) THEN [kind |-> Kind(call[t].op), value |-> Buffers(t)]
           ELSE [kind |-> "onym", value |-> << Message(t) >>]
<1>1. Api!FfiArgs(call[t].args, vec[t], Api!ParamNamed(call[t].op)) = Args(t)
  BY SameArgs DEF Args
<1>2. Api!Kind(call[t].op) = Kind(call[t].op)
  BY SamePlumbing
<1> QED
  BY <1>1, <1>2 DEF Api!Promise, IsBool, Accepted, Buffers, Message, Why

(* Reading a byte, a null or a length. *)
LEMMA ConvertReads ==
  ASSUME TypeOK, Ownership, heap \in [Arrays -> Contents], NEW t \in Threads, ThreadOK(t),
         ConvertArgument(t)
  PROVE  Api!Read(t)
<1>1. /\ pc[t] = "convert" /\ InCall(t) /\ exc[t] = NoException
      /\ UNCHANGED << heap, call, exc, reply >>
  BY DEF ConvertArgument, InCall
<1>2. /\ ReplyBar[t] = NoReply /\ SeenBar[t] = vec[t] /\ Api!Busy(t)
  BY <1>1, Unanswered
<1>3. /\ ReplyBar' = ReplyBar /\ SeenBar'[t] = vec'[t]
  <2>1. ReplyBar' = ReplyBar
    BY <1>1 DEF ReplyBar
  <2>2. SeenBar'[t] = vec'[t]
    BY <1>2, <2>1 DEF SeenBar
  <2> QED
    BY <2>1, <2>2
<1>4. SeenBar' = [SeenBar EXCEPT ![t] = vec'[t]]
  BY <1>3, OneBarMoves DEF Step
<1>5. PICK p \in ByteParams(call[t].op) :
        /\ ~Converted(t, p)
        /\ vec' = IF p \in DOMAIN vec[t]
                  THEN [vec EXCEPT ![t][p] = Append(@, heap[Argument(t, p)][Len(@) + 1])]
                  ELSE [vec EXCEPT ![t] = With(@, p, BeforeFirstByte(Argument(t, p)))]
  BY DEF ConvertArgument
<1> DEFINE ref == call[t].args[p]
<1>6. CASE p \notin DOMAIN vec[t]
  <2>1. vec'[t] = With(vec[t], p, IF ref = NULL THEN NULL ELSE << >>)
    BY <1>5, <1>6 DEF TypeOK, BeforeFirstByte, Argument
  <2>2. SeenBar' = [SeenBar EXCEPT ![t] = Api!With(@, p, IF ref = NULL THEN NULL ELSE << >>)]
    BY <1>2, <1>4, <2>1 DEF With, Api!With, SeenBar
  <2>3. p \in Api!ByteParams(call[t].op) /\ p \notin DOMAIN SeenBar[t]
    BY <1>2, <1>6, SamePlumbing
  <2> HIDE DEF ref
  <2> QED
    BY <1>1, <1>2, <1>3, <2>2, <2>3 DEF Api!Read, ref
<1>7. CASE p \in DOMAIN vec[t]
  <2> DEFINE r == vec[t][p]
  <2>1. /\ r \in Readings /\ ref \in Arrays /\ ref # NULL /\ heap[ref] \in Contents
        /\ Len(r) < Len(heap[ref])
    <3>1. r # NULL /\ Len(r) # Len(heap[ref])
      BY <1>5, <1>7 DEF Converted, Argument
    <3>2. r \in Readings /\ ref # NULL /\ Len(r) <= Len(heap[ref])
      BY <1>1, <1>7, <3>1 DEF ThreadOK, VecOK, Argument
    <3>3. ref \in Arrays /\ heap[ref] \in Contents
      BY <1>1, <3>2, CallTyped DEF Argument
    <3>4. Len(r) \in Nat /\ Len(heap[ref]) \in Nat
      BY <3>2, <3>3, ReadingIsBytes, ContentsAreBytes
    <3> QED
      BY <3>1, <3>2, <3>3, <3>4
  <2>2. vec'[t] = [vec[t] EXCEPT ![p] = Append(@, heap[ref][Len(@) + 1])]
    BY <1>5, <1>7 DEF TypeOK, Argument
  <2>3. SeenBar' = [SeenBar EXCEPT ![t][p] = Append(@, heap[ref][Len(@) + 1])]
    BY <1>2, <1>4, <2>2 DEF SeenBar
  <2>4. p \in Api!ByteParams(call[t].op) /\ p \in DOMAIN SeenBar[t] /\ SeenBar[t][p] = r
    BY <1>2, <1>7, SamePlumbing
  <2> HIDE DEF ref, r
  <2>5. Len(SeenBar[t][p]) < Len(heap[ref])
    BY <2>1, <2>4
  <2> QED
    BY <1>1, <1>2, <1>3, <2>1, <2>3, <2>4, <2>5 DEF Api!Read, ref
<1> QED
  BY <1>6, <1>7

(* Steps that only move a call on: the FFI and its memory are not seen. *)
LEMMA NativeStepUnseen ==
  ASSUME TypeOK, Ownership, NEW t \in Threads,
         \/ FfiAccepts(t) \/ FfiRejects(t) \/ CopyBuffers(t) \/ FreeFirst(t) \/ FreeSecond(t)
         \/ TakeMessage(t) \/ FreeMessage(t) \/ DiscardMessage(t)
  PROVE  UNCHANGED Api!vars
<1>1. UNCHANGED << heap, call, vec, exc, reply >>
  BY DEF FfiAccepts, FfiRejects, CopyBuffers, FreeFirst, FreeSecond, TakeMessage, FreeMessage,
         DiscardMessage
<1>2. Step(t)
  BY DEF Step
<1> QED
  BY <1>1, <1>2, Unseen

(* An array that cannot be made is an answer, unless one is pending. *)
LEMMA NewArrayMaps ==
  ASSUME TypeOK, Ownership, NEW t \in Threads, ThreadOK(t), NewArray(t)
  PROVE  UNCHANGED Api!vars \/ Api!Answer(t)
<1>1. /\ pc[t] = "newArray" /\ InCall(t) /\ Step(t)
      /\ UNCHANGED << heap, memory, call, vec, ptr, reply >>
      /\ (exc[t] = NoException /\ exc'[t] = exc[t]) \/ exc'[t] = JvmError
  BY DEF NewArray, TypeOK, InCall, Step
<1>2. exc[t] \in {NoException, JvmError}
  BY <1>1 DEF ThreadOK, Tidy
<1>3. CASE exc'[t] = exc[t]
  BY <1>1, <1>3, Unseen
<1>4. CASE exc'[t] # exc[t]
  <2>1. exc[t] = NoException /\ exc'[t] = JvmError
    BY <1>1, <1>2, <1>4
  <2>2. JvmError # NoReply
    BY DEF JvmError, NoReply
  <2> QED
    BY <1>1, <2>1, <2>2, AnswersWith
<1> QED
  BY <1>3, <1>4

(* The OnymException carries the FFI's message, and is the answer, unless  *)
(* another exception is pending.                                           *)
LEMMA ThrowMaps ==
  ASSUME TypeOK, Ownership, NEW t \in Threads, ThreadOK(t), ThrowNew(t)
  PROVE  UNCHANGED Api!vars \/ Api!Answer(t)
<1>1. /\ pc[t] = "throw" /\ InCall(t) /\ Step(t)
      /\ UNCHANGED << heap, memory, call, vec, ptr, reply >>
  BY DEF ThrowNew, InCall, Step
<1>2. CASE exc[t] # NoException
  <2>1. exc' = exc
    BY <1>2 DEF ThrowNew
  <2> QED
    BY <1>1, <2>1, Unseen
<1>3. CASE exc[t] = NoException
  <2>1. AllSeen(t) /\ AllConverted(t)
    BY <1>1, <1>3, AfterCall DEF ThreadOK
  <2>2. ~Accepted(t) /\ ~IsBool(t) /\ out[t] = Message(t)
    BY <1>1 DEF ThreadOK, ResultOK
  <2>3. [kind |-> "onym", value |-> << out[t] >>] = Api!Promise(call[t], vec[t])
    <3>1. call[t].op \in Ops
      BY <1>1, CallTyped
    <3> QED
      BY <2>2, <3>1, PromiseIs
  <2>4. PICK e \in {[kind |-> "onym", value |-> << out[t] >>], JvmError} : exc'[t] = e
    BY <1>3 DEF ThrowNew, TypeOK
  <2>5. e # NoReply
    BY DEF JvmError, NoReply
  <2>6. e = JvmError \/ (AllSeen(t) /\ AllConverted(t) /\ e = Api!Promise(call[t], vec[t]))
    BY <2>1, <2>3
  <2> QED
    BY <1>1, <1>3, <2>4, <2>5, <2>6, AnswersWith
<1> QED
  BY <1>2, <1>3

(* A pending exception was the answer already; a value is the answer now;  *)
(* a pair is one when it has been split.                                   *)
LEMMA ReturnMaps ==
  ASSUME TypeOK, Ownership, heap \in [Arrays -> Contents], NEW t \in Threads, ThreadOK(t),
         ReturnToKotlin(t)
  PROVE  UNCHANGED Api!vars \/ Api!Answer(t)
<1>1. pc[t] = "return" /\ InCall(t) /\ Step(t) /\ UNCHANGED << heap, memory, call >>
  BY DEF ReturnToKotlin, InCall, Step
<1>2. CASE exc[t] = NoException /\ IsPair(t)
  <2>1. UNCHANGED << vec, out, exc, reply >>
    BY <1>2 DEF ReturnToKotlin, IsPair
  <2> QED
    BY <1>1, <2>1, Unseen
<1>3. CASE exc[t] # NoException
  <2>1. /\ reply'[t] = exc[t] /\ vec'[t] = Nothing /\ exc'[t] = NoException
    BY <1>3 DEF ReturnToKotlin, TypeOK
  <2>2. ReplyBar'[t] = exc[t] /\ ReplyBar[t] = exc[t]
    BY <1>3, <2>1 DEF ReplyBar
  <2>3. SeenBar'[t] = Nothing /\ SeenBar[t] = Nothing
    BY <1>3, <2>2 DEF SeenBar, NoException
  <2>4. ReplyBar = [u \in Threads |-> ReplyBar[u]] /\ SeenBar = [u \in Threads |-> SeenBar[u]]
    BY DEF ReplyBar, SeenBar
  <2>5. UNCHANGED << ReplyBar, SeenBar >>
    BY <1>1, <2>2, <2>3, <2>4, OneBarMoves
  <2> QED
    BY <1>1, <2>5 DEF Api!vars
<1>4. CASE exc[t] = NoException /\ ~IsPair(t)
  <2>1. /\ reply'[t] = ValueOf(t) /\ exc'[t] = NoException
    BY <1>4 DEF ReturnToKotlin, TypeOK, IsPair
  <2>2. AllSeen(t) /\ AllConverted(t) /\ call[t].op \in Ops /\ Kind(call[t].op) \in Kinds
    BY <1>1, <1>4, AfterCall, CallTyped DEF ThreadOK
  <2>3. ValueOf(t) = Api!Promise(call[t], vec[t])
    <3>1. CASE IsBool(t)
      BY <1>1, <1>4, <2>2, <3>1, ValueReturned, PromiseIs
    <3>2. CASE ~IsBool(t)
      <4>1. /\ ValueOf(t) = [kind |-> Kind(call[t].op), value |-> << Wire(t) >>]
            /\ Accepted(t)
        BY <1>1, <1>4, <3>2, ValueReturned
      <4>2. FfiContract(call[t].op, Args(t))
        BY <1>1, <2>2, ContractHolds DEF ThreadOK, AllSeen
      <4>3. Buffers(t) = << Buffers(t)[1] >>
        BY <1>4, <3>2, <4>1, <4>2 DEF FfiContract, Accepted, Buffers, IsPair, IsBool
      <4>4. Wire(t) = Buffers(t)[1]
        BY <1>4 DEF Wire
      <4> QED
        BY <2>2, <3>2, <4>1, <4>3, <4>4, PromiseIs
    <3> QED
      BY <3>1, <3>2
  <2>4. ValueOf(t) # NoReply
    <3>1. ValueOf(t).kind # "none"
      BY <1>1, <1>4, <2>2, ValueReturned DEF Kinds
    <3> QED
      BY <3>1 DEF NoReply
  <2> QED
    BY <1>1, <1>4, <2>1, <2>2, <2>3, <2>4, AnswersWith
<1> QED
  BY <1>2, <1>3, <1>4

(* The two buffers are the answer. *)
LEMMA SplitMaps ==
  ASSUME TypeOK, Ownership, heap \in [Arrays -> Contents], NEW t \in Threads, ThreadOK(t),
         SplitPair(t)
  PROVE  Api!Answer(t)
<1>1. /\ reply' = [reply EXCEPT ![t] = [kind |-> "pair", value |-> Buffers(t)]]
      /\ pc[t] = "split" /\ exc[t] = NoException /\ Accepted(t) /\ IsPair(t) /\ AllSeen(t)
      /\ AllConverted(t)
  BY PairSplit
<1> DEFINE r == [kind |-> "pair", value |-> Buffers(t)]
<1>2. InCall(t) /\ Step(t) /\ UNCHANGED << heap, call >> /\ exc' = exc
  BY <1>1 DEF SplitPair, InCall, Step
<1>3. reply'[t] = r
  BY <1>1 DEF TypeOK
<1>4. r = Api!Promise(call[t], vec[t])
  <2>1. call[t].op \in Ops /\ ~IsBool(t) /\ Kind(call[t].op) = "pair"
    BY <1>1, CallTyped DEF IsPair, IsBool
  <2> QED
    BY <1>1, <2>1, PromiseIs
<1>5. r # NoReply
  BY DEF NoReply
<1> HIDE DEF r
<1> QED
  BY <1>1, <1>2, <1>3, <1>4, <1>5, AnswersWith

(* A caller calls, and takes the answer. *)
LEMMA CallerMaps ==
  ASSUME TypeOK, Ownership, NEW t \in Threads, ThreadOK(t)
  PROVE  /\ \A c \in Calls : Invoke(t, c) => Api!Invoke(t, c)
         /\ Collect(t) => Api!Collect(t)
<1>1. ASSUME NEW c \in Calls, Invoke(t, c) PROVE Api!Invoke(t, c)
  <2>1. /\ UNCHANGED << heap, vec, exc, reply >> /\ pc[t] = "idle"
        /\ call' = [call EXCEPT ![t] = c]
    BY <1>1 DEF Invoke
  <2>2. UNCHANGED << ReplyBar, SeenBar >>
    BY <2>1 DEF ReplyBar, SeenBar
  <2>3. call[t] = Api!NoCall
    BY <2>1 DEF ThreadOK, Tidy, NoCall, Api!NoCall
  <2> QED
    BY <2>1, <2>2, <2>3 DEF Api!Invoke
<1>2. ASSUME Collect(t) PROVE Api!Collect(t)
  <2>1. /\ UNCHANGED << heap, vec, exc >> /\ pc[t] = "answered"
        /\ call' = [call EXCEPT ![t] = NoCall] /\ reply' = [reply EXCEPT ![t] = NoReply]
    BY <1>2 DEF Collect
  <2>2. exc[t] = NoException /\ reply[t] # NoReply /\ vec[t] = Nothing
    BY <2>1 DEF ThreadOK, Tidy, InCall, NativeSteps
  <2>3. ReplyBar[t] # NoReply /\ ReplyBar'[t] = NoReply
    BY <2>1, <2>2 DEF ReplyBar, TypeOK
  <2>4. SeenBar[t] = Nothing /\ SeenBar'[t] = Nothing
    BY <2>1, <2>2, <2>3 DEF SeenBar
  <2>5. SeenBar = [u \in Threads |-> SeenBar[u]]
    BY DEF SeenBar
  <2>6. SeenBar' = SeenBar /\ ReplyBar' = [ReplyBar EXCEPT ![t] = NoReply]
    BY <1>2, <2>3, <2>4, <2>5, OneBarMoves
  <2> QED
    BY <2>1, <2>3, <2>6 DEF Api!Collect, Api!NoCall, NoCall, Api!NoReply, NoReply
<1> QED
  BY <1>1, <1>2

(* A conversion that fails is the answer, whatever the FFI does then. *)
LEMMA FailedConversionMaps ==
  ASSUME TypeOK, Ownership, NEW t \in Threads, ThreadOK(t), ConversionFails(t)
  PROVE  Api!Answer(t)
<1>1. /\ InCall(t) /\ Step(t) /\ exc[t] = NoException /\ exc'[t] = JvmError
      /\ UNCHANGED << heap, call >>
  BY DEF ConversionFails, InCall, Step, TypeOK
<1>2. JvmError # NoReply
  BY DEF JvmError, NoReply
<1> QED
  BY <1>1, <1>2, AnswersWith

(* Each step of a thread. *)
LEMMA StepMaps ==
  ASSUME TypeOK, Ownership, DataInv, NEW t \in Threads, Step(t)
  PROVE  UNCHANGED Api!vars \/ Api!Read(t) \/ Api!Answer(t)
<1>1. heap \in [Arrays -> Contents] /\ ThreadOK(t)
  BY DEF DataInv
<1> QED
  BY <1>1, ConvertReads, FailedConversionMaps, NativeStepUnseen, NewArrayMaps, ThrowMaps,
     ReturnMaps, SplitMaps DEF Step

(***************************************************************************)
(* The shim implements the API: whatever the other threads do meanwhile to *)
(* the arrays and to native memory, and at whatever addresses the FFI      *)
(* allocates, a call answers with what the FFI makes of this call's own    *)
(* arguments, bound by name, and of bytes read from them while it ran; or  *)
(* with the FFI's message; or with the JVM's failure (lib.rs 71-751 and    *)
(* the Kotlin wrappers).                                                   *)
(***************************************************************************)
THEOREM BridgeImplementsApi == Spec => ImplementsApi
<1>1. Init => Api!Init
  <2> SUFFICES ASSUME Init PROVE Api!Init
    OBVIOUS
  <2>1. ReplyBar = [t \in Threads |-> NoReply]
    BY DEF Init, ReplyBar
  <2>2. SeenBar = [t \in Threads |-> Nothing]
    BY <2>1 DEF Init, SeenBar
  <2> QED
    BY <2>1, <2>2 DEF Init, Api!Init, NoCall, Api!NoCall, NoReply, Api!NoReply,
                      Nothing, Api!Nothing
<1>2. ASSUME TypeOK, IInv, DataInv, [Next]_vars PROVE [Api!Next]_(Api!vars)
  <2>1. ASSUME UNCHANGED vars PROVE UNCHANGED Api!vars
    BY <2>1 DEF vars, Api!vars, ReplyBar, SeenBar
  <2>2. ASSUME NEW a \in Arrays, NEW v \in Contents, Write(a, v) PROVE Api!Write(a, v)
    BY <2>2 DEF Write, Api!Write, ReplyBar, SeenBar
  <2>3. ASSUME NEW t \in Threads, Step(t)
        PROVE  UNCHANGED Api!vars \/ Api!Read(t) \/ Api!Answer(t)
    BY <1>2, <2>3, StepMaps DEF IInv
  <2>4. ASSUME NEW t \in Threads
        PROVE  /\ \A c \in Calls : Invoke(t, c) => Api!Invoke(t, c)
               /\ Collect(t) => Api!Collect(t)
    BY <1>2, CallerMaps DEF IInv, DataInv
  <2> QED
    BY <1>2, <2>1, <2>2, <2>3, <2>4 DEF Next, Api!Next
<1> QED
  BY <1>1, <1>2, TypeCorrect, OwnershipInvariant, DataInvariant, PTL
     DEF Spec, ImplementsApi, Api!Spec

==============================================================================
