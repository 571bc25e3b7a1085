----------------------------- MODULE JniBridge -----------------------------
(***************************************************************************)
(* The JNI shim: an export of lib.rs, its helpers and the Kotlin wrapper   *)
(* around it, run by several Java threads at once over one native heap.    *)
(*                                                                         *)
(* The FFI crates behind the exports are external.  Their contract, as     *)
(* lib.rs relies on it: a function that returns true has filled its out    *)
(* buffers and left err NULL; one that returns false has filled no buffer  *)
(* and has set err to a message or left it NULL.  What is returned belongs *)
(* to the caller, who frees each buffer and each message exactly once.     *)
(*                                                                         *)
(* A step is what happens between two points where another thread could    *)
(* tell the difference: a byte copied out of a Java array, an allocation,  *)
(* a read of native memory, a free.                                        *)
(***************************************************************************)
EXTENDS EntryPoints, TwoBuffers

CONSTANTS Threads, Arrays, Contents, Calls, NULL, DefaultMessage,
          Accepts(_, _), Output(_, _), Reason(_, _),    \* as in SdkApi
          Addrs                                         \* native heap addresses

(* A call is one the Kotlin signatures let through: only byte[]? is null,  *)
(* and an Int is no wider than a usize.                                    *)
ASSUME CallsAssumption ==
  \A c \in Calls :
    /\ c.op \in Ops /\ DOMAIN c.args = Params(c.op)
    /\ \A p \in ByteParams(c.op) :
         c.args[p] \in Arrays \/ (c.args[p] = NULL /\ p \in NullableParams)
    /\ \A p \in IntParams \cap Params(c.op) :
         c.args[p] \in -(PtrMod \div 2) .. (PtrMod \div 2) - 1

ByteValues == UNION {Range(v) : v \in Contents}

(* NULL is no address, no array and no sequence. *)
ASSUME NullAssumption ==
  /\ NULL \notin Addrs /\ NULL \notin Arrays
  /\ Contents \subseteq Seq(ByteValues)
  /\ NULL \notin Seq(ByteValues) /\ NULL # << "true" >> /\ NULL # << "false" >>

(* What a call can read of an array, and of all its arguments. *)
Readings ==
  UNION {[1 .. n -> ByteValues] : n \in {0} \cup UNION {0 .. Len(v) : v \in Contents}}

ReadBy(c) ==
  {[p \in ByteParams(c.op) |-> IF c.args[p] = NULL THEN NULL ELSE bytes[p]] :
     bytes \in [ByteParams(c.op) -> Readings]}

IndexSlots == {"depth", "prover_index", "prover_index_old", "admin_index", "admin_index_old"}

(* A buffer of the FFI: a sequence, shorter than 2^32, and no NULL. *)
IsBuffer(b) == b \in Seq(Range(b)) /\ Len(b) < WordMod /\ b # NULL

(***************************************************************************)
(* External: what lib.rs takes for granted of an FFI function.  No tier or *)
(* index that it accepts is past the middle of a usize, an empty new       *)
(* roster is refused (lib.rs 534-551), and it returns the buffers that its *)
(* signature promises, which together make an array shorter than 2^32.     *)
(***************************************************************************)
FfiContract(op, args) ==
  Accepts(op, args) =>
    /\ \A slot \in IndexSlots \cap DOMAIN args : args[slot] < PtrMod \div 2
    /\ op = "anarchyProveUpdate" => args["leaves_new"] # << >>
    /\ LET buffers == Output(op, args)
       IN  CASE Kind(op) = "bool" -> TRUE
             [] Kind(op) = "pair" ->
                  /\ buffers = << buffers[1], buffers[2] >>
                  /\ IsBuffer(buffers[1]) /\ IsBuffer(buffers[2])
                  /\ HeaderSize + Len(buffers[1]) + Len(buffers[2]) < WordMod
                  /\ Concat(buffers[1], buffers[2]) # NULL
             [] OTHER -> buffers = << buffers[1] >> /\ IsBuffer(buffers[1])

ASSUME FfiAssumption ==
  \A c \in Calls : \A read \in ReadBy(c) :
    FfiContract(c.op, FfiArgs(c.args, read, ParamInSlot(c.op)))

VARIABLES
  heap,      \* the contents of each Java array
  memory,    \* the live native allocations: a function from their addresses
  pc,        \* where each thread is
  call,      \* the call it is in
  vec,       \* the Vec<u8> (or NULL) it has made of each byte[] argument
  ptr,       \* the pointers of its frame: two out buffers and the error
  out,       \* the Vec, String or new array it carries towards Kotlin
  exc,       \* its pending exception
  reply      \* what the wrapper answered

vars == << heap, memory, pc, call, vec, ptr, out, exc, reply >>

NoCall   == [op |-> "none"]
NoReply  == [kind |-> "none", value |-> << >>]
JvmError == [kind |-> "jvm", value |-> << >>]
NoException == NoReply
Nothing  == << >>

PtrSlots   == {"first", "second", "err"}
NoPointers == [s \in PtrSlots |-> NULL]

NativeSteps == {"convert", "copy", "free", "freeSecond", "newArray",
                "message", "freeMessage", "throw", "discard", "return"}
Steps == NativeSteps \cup {"idle", "split", "answered"}

Init ==
  /\ heap \in [Arrays -> Contents]
  /\ memory = Nothing
  /\ pc    = [t \in Threads |-> "idle"]
  /\ call  = [t \in Threads |-> NoCall]
  /\ vec   = [t \in Threads |-> Nothing]
  /\ ptr   = [t \in Threads |-> NoPointers]
  /\ out   = [t \in Threads |-> NULL]
  /\ exc   = [t \in Threads |-> NoException]
  /\ reply = [t \in Threads |-> NoReply]

Goto(t, step) == pc' = [pc EXCEPT ![t] = step]

---------------------------------------------------------------------------
(* Kotlin. *)

Write(a, v) ==
  /\ Len(v) = Len(heap[a])
  /\ heap' = [heap EXCEPT ![a] = v]
  /\ UNCHANGED << memory, pc, call, vec, ptr, out, exc, reply >>

Invoke(t, c) ==
  /\ pc[t] = "idle"
  /\ Goto(t, "convert")
  /\ call' = [call EXCEPT ![t] = c]
  /\ UNCHANGED << heap, memory, vec, ptr, out, exc, reply >>

(* The caller takes the value or the exception. *)
Collect(t) ==
  /\ pc[t] = "answered"
  /\ Goto(t, "idle")
  /\ call'  = [call  EXCEPT ![t] = NoCall]
  /\ reply' = [reply EXCEPT ![t] = NoReply]
  /\ UNCHANGED << heap, memory, vec, ptr, out, exc >>

---------------------------------------------------------------------------
(* Arguments in: jbytearray_to_vec, one argument after the other. *)

Argument(t, p) == call[t].args[p]

Converted(t, p) ==
  /\ p \in DOMAIN vec[t]
  /\ vec[t][p] # NULL => Len(vec[t][p]) = Len(heap[Argument(t, p)])

AllConverted(t) == \A p \in ByteParams(call[t].op) : Converted(t, p)

(* mutant: an empty array is taken for the null sentinel *)
BeforeFirstByteOrNull(ref) == IF ref = NULL \/ heap[ref] = << >> THEN NULL ELSE << >>

(* Null is the sentinel (NULL, 0); an array, the empty one too, is a Vec. *)
BeforeFirstByte(ref) == IF ref = NULL THEN NULL ELSE << >>

ConvertArgument(t) ==
  /\ pc[t] = "convert" /\ exc[t] = NoException
  /\ \E p \in ByteParams(call[t].op) :
       /\ \A q \in ConvertedBefore(call[t].op, p) : Converted(t, q)
       /\ ~Converted(t, p)
       /\ vec' = IF p \in DOMAIN vec[t]
                 THEN [vec EXCEPT ![t][p] = Append(@, heap[Argument(t, p)][Len(@) + 1])]
                 ELSE [vec EXCEPT ![t] = With(@, p, BeforeFirstByte(Argument(t, p)))]
  /\ UNCHANGED << heap, memory, pc, call, ptr, out, exc, reply >>

(***************************************************************************)
(* A conversion meets a JVM error, which stays pending.  unwrap_or_default *)
(* makes an empty Vec of it, and of every later array of the call, whose   *)
(* conversion finds the exception pending; the FFI is called all the same. *)
(***************************************************************************)
ConversionFails(t) ==
  /\ pc[t] = "convert" /\ exc[t] = NoException
  /\ \E p \in ByteParams(call[t].op) : ~Converted(t, p) /\ Argument(t, p) # NULL
  /\ exc' = [exc EXCEPT ![t] = JvmError]
  /\ vec' = [vec EXCEPT ![t] =
               [p \in ByteParams(call[t].op) |->
                  IF Converted(t, p) THEN vec[t][p]
                  ELSE IF Argument(t, p) = NULL THEN NULL ELSE << >>]]
  /\ UNCHANGED << heap, memory, pc, call, ptr, out, reply >>

---------------------------------------------------------------------------
(* The FFI call. *)

Args(t) == FfiArgs(call[t].args, vec[t], ParamInSlot(call[t].op))

(* An empty buffer may come as NULL or as an allocation of length 0. *)
PointerFor(data, a) ==
  \/ a \in Addrs \ DOMAIN memory
  \/ a = NULL /\ data = << >>

(* The FFI allocates: every thread's out pointers and message point into   *)
(* the one heap, at addresses that others may have freed before.           *)
Allocate(t, pointers, contents) ==
  LET fresh == {s \in PtrSlots : pointers[s] # NULL}
  IN  /\ \A s1, s2 \in fresh : pointers[s1] = pointers[s2] => s1 = s2
      /\ ptr' = [ptr EXCEPT ![t] = pointers]
      /\ memory' = [a \in DOMAIN memory \cup {pointers[s] : s \in fresh} |->
                      IF a \in DOMAIN memory THEN memory[a]
                      ELSE contents[CHOOSE s \in fresh : pointers[s] = a]]

FfiAccepts(t) ==
  /\ pc[t] = "convert" /\ (AllConverted(t) \/ exc[t] # NoException)
  /\ Accepts(call[t].op, Args(t))
  /\ IF Kind(call[t].op) = "bool"
     THEN /\ out' = [out EXCEPT ![t] = << "true" >>]
          /\ Goto(t, "return")
          /\ UNCHANGED << memory, ptr >>
     ELSE LET buffers == Output(call[t].op, Args(t))
              second  == IF Kind(call[t].op) = "pair" THEN buffers[2] ELSE << >>
          IN  /\ \E a, b \in Addrs \cup {NULL} :
                   /\ PointerFor(buffers[1], a)
                   /\ IF Kind(call[t].op) = "pair" THEN PointerFor(second, b) ELSE b = NULL
                   /\ Allocate(t, [first |-> a, second |-> b, err |-> NULL],
                                  [first |-> buffers[1], second |-> second])
              /\ Goto(t, "copy")
              /\ UNCHANGED out
  /\ UNCHANGED << heap, call, vec, exc, reply >>

(* mutant: `let mut err` is not set to null before the call, so that it    *)
(* holds whatever the stack held where the FFI leaves it as it is.         *)
FfiRejectsUninitialised(t) ==
  /\ pc[t] = "convert" /\ (AllConverted(t) \/ exc[t] # NoException)
  /\ ~Accepts(call[t].op, Args(t))
  /\ LET why == Reason(call[t].op, Args(t))
     IN  IF why = NULL
         THEN ptr' = [ptr EXCEPT ![t]["err"] = "garbage"] /\ UNCHANGED memory
         ELSE \E e \in Addrs \ DOMAIN memory :
                Allocate(t, [NoPointers EXCEPT !["err"] = e], [err |-> why])
  /\ Goto(t, IF Kind(call[t].op) = "bool" THEN "discard" ELSE "message")
  /\ UNCHANGED << heap, call, vec, out, exc, reply >>

FfiRejects(t) ==
  /\ pc[t] = "convert" /\ (AllConverted(t) \/ exc[t] # NoException)
  /\ ~Accepts(call[t].op, Args(t))
  /\ LET why == Reason(call[t].op, Args(t))
     IN  \E e \in Addrs \cup {NULL} :
           /\ IF why = NULL THEN e = NULL ELSE e \in Addrs \ DOMAIN memory
           /\ Allocate(t, [NoPointers EXCEPT !["err"] = e], [err |-> why])
  /\ Goto(t, IF Kind(call[t].op) = "bool" THEN "discard" ELSE "message")
  /\ UNCHANGED << heap, call, vec, out, exc, reply >>

---------------------------------------------------------------------------
(* Results out: buffer_to_jbytearray and two_buffers_to_concat. *)

At(p) == IF p = NULL THEN << >> ELSE memory[p]

CopyBuffers(t) ==
  /\ pc[t] = "copy"
  /\ out' = [out EXCEPT ![t] =
               IF Kind(call[t].op) = "pair"
               THEN Concat(At(ptr[t]["first"]), At(ptr[t]["second"]))
               ELSE At(ptr[t]["first"])]
  /\ Goto(t, "free")
  /\ UNCHANGED << heap, memory, call, vec, ptr, exc, reply >>

(* onym_byte_buffer_free takes the buffer by value: the frame has no       *)
(* pointer left.  onym_string_free leaves a dangling one behind, which no  *)
(* line of lib.rs reads again.  Freeing NULL does nothing.                 *)
Free(t, slot) ==
  /\ memory' = [a \in DOMAIN memory \ {ptr[t][slot]} |-> memory[a]]
  /\ ptr' = [ptr EXCEPT ![t][slot] = NULL]

(* mutant: two_buffers_to_concat frees its first buffer only *)
FreeFirstOfPairOnly(t) ==
  /\ pc[t] = "free"
  /\ Free(t, "first")
  /\ Goto(t, "newArray")
  /\ UNCHANGED << heap, call, vec, out, exc, reply >>

FreeFirst(t) ==
  /\ pc[t] = "free"
  /\ Free(t, "first")
  /\ Goto(t, IF Kind(call[t].op) = "pair" THEN "freeSecond" ELSE "newArray")
  /\ UNCHANGED << heap, call, vec, out, exc, reply >>

FreeSecond(t) ==
  /\ pc[t] = "freeSecond"
  /\ Free(t, "second")
  /\ Goto(t, "newArray")
  /\ UNCHANGED << heap, call, vec, out, exc, reply >>

(* mutant: an array that cannot be made is a null and no exception *)
NewArrayOrNull(t) ==
  /\ pc[t] = "newArray"
  /\ LET array == NewJavaArray(out[t])
     IN  \/ exc[t] = NoException /\ array.ok /\ out' = [out EXCEPT ![t] = array.bytes]
         \/ out' = [out EXCEPT ![t] = NULL]
  /\ Goto(t, "return")
  /\ UNCHANGED << heap, memory, call, vec, ptr, exc, reply >>

(* byte_array_from_slice: null when an exception is pending, when the      *)
(* length does not fit, or when the JVM is out of memory.                  *)
NewArray(t) ==
  /\ pc[t] = "newArray"
  /\ LET array == NewJavaArray(out[t])
     IN  \/ /\ exc[t] = NoException /\ array.ok
            /\ out' = [out EXCEPT ![t] = array.bytes]
            /\ UNCHANGED exc
         \/ /\ out' = [out EXCEPT ![t] = NULL]
            /\ exc' = [exc EXCEPT ![t] = JvmError]
  /\ Goto(t, "return")
  /\ UNCHANGED << heap, memory, call, vec, ptr, reply >>

---------------------------------------------------------------------------
(* Errors out: throw_ffi_error, and what nostrVerifyEventSignature does. *)

TakeMessage(t) ==
  /\ pc[t] = "message"
  /\ out' = [out EXCEPT ![t] =
               IF ptr[t]["err"] = NULL THEN DefaultMessage ELSE memory[ptr[t]["err"]]]
  /\ Goto(t, "freeMessage")
  /\ UNCHANGED << heap, memory, call, vec, ptr, exc, reply >>

FreeMessage(t) ==
  /\ pc[t] = "freeMessage"
  /\ Free(t, "err")
  /\ Goto(t, "throw")
  /\ UNCHANGED << heap, call, vec, out, exc, reply >>

(* mutant: throw_new replaces whatever exception is pending *)
ThrowNewOverPending(t) ==
  /\ pc[t] = "throw"
  /\ exc' = [exc EXCEPT ![t] = [kind |-> "onym", value |-> << out[t] >>]]
  /\ out' = [out EXCEPT ![t] = NULL]
  /\ Goto(t, "return")
  /\ UNCHANGED << heap, memory, call, vec, ptr, reply >>

(* `let _ = env.throw_new(..)`: a pending exception stays; else the        *)
(* OnymException, or the JVM's own error if it cannot be made.             *)
ThrowNew(t) ==
  /\ pc[t] = "throw"
  /\ IF exc[t] # NoException THEN UNCHANGED exc
     ELSE \E e \in {[kind |-> "onym", value |-> << out[t] >>], JvmError} :
            exc' = [exc EXCEPT ![t] = e]
  /\ out' = [out EXCEPT ![t] = NULL]
  /\ Goto(t, "return")
  /\ UNCHANGED << heap, memory, call, vec, ptr, reply >>

DiscardMessage(t) ==
  /\ pc[t] = "discard"
  /\ Free(t, "err")
  /\ out' = [out EXCEPT ![t] = << "false" >>]
  /\ Goto(t, "return")
  /\ UNCHANGED << heap, call, vec, exc, reply >>

---------------------------------------------------------------------------
(* Back in Kotlin. *)

ValueOf(t) ==
  IF out[t] = NULL THEN [kind |-> "null", value |-> << >>]
  ELSE IF Kind(call[t].op) = "bool" THEN [kind |-> out[t][1], value |-> << >>]
  ELSE [kind |-> Kind(call[t].op), value |-> << out[t] >>]

(* The frame is gone, with every pointer it still had; a pending exception *)
(* wins over the value.  vec stays until the answer, as the record of what *)
(* the call read.                                                          *)
ReturnToKotlin(t) ==
  /\ pc[t] = "return"
  /\ ptr' = [ptr EXCEPT ![t] = NoPointers]
  /\ IF exc[t] = NoException /\ Kind(call[t].op) = "pair"
     THEN /\ Goto(t, "split")
          /\ UNCHANGED << vec, out, exc, reply >>
     ELSE /\ Goto(t, "answered")
          /\ reply' = [reply EXCEPT ![t] = IF exc[t] # NoException THEN exc[t] ELSE ValueOf(t)]
          /\ vec' = [vec EXCEPT ![t] = Nothing]
          /\ out' = [out EXCEPT ![t] = NULL]
          /\ exc' = [exc EXCEPT ![t] = NoException]
  /\ UNCHANGED << heap, memory, call >>

(* splitTwoBuffers in the wrapper: an IllegalArgumentException is no       *)
(* answer of the API, nor is the NullPointerException a null would raise.  *)
SplitPair(t) ==
  /\ pc[t] = "split"
  /\ LET pair == IF out[t] = NULL THEN [ok |-> FALSE] ELSE Split(out[t])
     IN  reply' = [reply EXCEPT ![t] =
                     IF pair.ok THEN [kind |-> "pair", value |-> << pair.first, pair.second >>]
                     ELSE [kind |-> "broken", value |-> << >>]]
  /\ Goto(t, "answered")
  /\ vec' = [vec EXCEPT ![t] = Nothing]
  /\ out' = [out EXCEPT ![t] = NULL]
  /\ UNCHANGED << heap, memory, call, ptr, exc >>

---------------------------------------------------------------------------
(* What a thread does on its own, once it has called. *)
Step(t) ==
  \/ ConvertArgument(t) \/ ConversionFails(t)
  \/ FfiAccepts(t) \/ FfiRejects(t)
  \/ CopyBuffers(t) \/ FreeFirst(t) \/ FreeSecond(t) \/ NewArray(t)
  \/ TakeMessage(t) \/ FreeMessage(t) \/ ThrowNew(t) \/ DiscardMessage(t)
  \/ ReturnToKotlin(t) \/ SplitPair(t)

Next ==
  \/ \E a \in Arrays, v \in Contents : Write(a, v)
  \/ \E t \in Threads :
       \/ \E c \in Calls : Invoke(t, c)
       \/ Step(t)
       \/ Collect(t)

Spec == Init /\ [][Next]_vars

---------------------------------------------------------------------------
(* Type invariant: the control state, the frames' pointers and the shape   *)
(* of the native heap; payloads are left untyped.                          *)
TypeOK ==
  /\ DOMAIN heap = Arrays
  /\ DOMAIN memory \subseteq Addrs
  /\ pc \in [Threads -> Steps]
  /\ call \in [Threads -> Calls \cup {NoCall}]
  /\ ptr \in [Threads -> [PtrSlots -> Addrs \cup {NULL}]]
  /\ DOMAIN vec = Threads /\ DOMAIN out = Threads
  /\ DOMAIN exc = Threads /\ DOMAIN reply = Threads
  /\ \A t \in Threads : pc[t] # "idle" => call[t] \in Calls

Holds(t, s, a) == ptr[t][s] = a /\ a # NULL

(***************************************************************************)
(* Native memory has exactly one owner, at every step of every thread, on  *)
(* the success and on every error path (lib.rs 242-269, 432-439, 717-744): *)
(* nothing allocated is without a pointer in some frame (a leak), no frame *)
(* has a pointer to freed memory (a use after free or a second free when   *)
(* it gets there), no two pointers share an allocation, which would let    *)
(* one thread free what another was given at a reused address, and a       *)
(* thread outside native code has none.                                    *)
(***************************************************************************)
NoLeak == \A a \in DOMAIN memory : \E t \in Threads, s \in PtrSlots : Holds(t, s, a)

NoDangling == \A t \in Threads, s \in PtrSlots : ptr[t][s] # NULL => ptr[t][s] \in DOMAIN memory

ExclusiveOwner ==
  \A t1, t2 \in Threads, s1, s2 \in PtrSlots :
    ptr[t1][s1] # NULL /\ ptr[t1][s1] = ptr[t2][s2] => t1 = t2 /\ s1 = s2

KotlinOwnsNothing == \A t \in Threads : pc[t] \notin NativeSteps => ptr[t] = NoPointers

NativeMemoryOwned == NoLeak /\ NoDangling /\ ExclusiveOwner /\ KotlinOwnsNothing

(***************************************************************************)
(* Each call answers with a value of its kind or with an exception: never  *)
(* with the null an export returns on its way out of an error, never with  *)
(* a concat the wrapper cannot split.                                      *)
(***************************************************************************)
AnswersValueOrThrows ==
  \A t \in Threads :
    pc[t] = "answered" =>
      reply[t].kind \in {"onym", "jvm"} \cup
        (IF Kind(call[t].op) = "bool" THEN {"true", "false"} ELSE {Kind(call[t].op)})

(***************************************************************************)
(* An update whose caller passed an empty new roster is never proved as if *)
(* the roster were unchanged: only null is the sentinel (lib.rs 534-551,   *)
(* AnarchyTests.kt 83-110).                                                *)
(***************************************************************************)
EmptyRosterNeverReused ==
  \A t \in Threads :
    (reply[t].kind = "pair" /\ call[t].op = "anarchyProveUpdate") =>
      LET roster == Argument(t, "memberLeafHashesNew")
      IN  roster = NULL \/ heap[roster] # << >>

(***************************************************************************)
(* A negative tier or member index, which Kotlin's Int allows and which no *)
(* wrapper checks, never comes back as a proof for some other member: the  *)
(* cast makes it a number that no FFI function takes (lib.rs 459, 510).    *)
(***************************************************************************)
NegativeIndexNeverProves ==
  \A t \in Threads :
    reply[t].kind \in {"bytes", "text", "pair"} =>
      \A p \in IntParams \cap Params(call[t].op) : call[t].args[p] >= 0

(***************************************************************************)
(* What the comment above nostrVerifyEventSignature says (lib.rs 408-412): *)
(* malformed inputs, here an array without bytes, throw.                   *)
(***************************************************************************)
MalformedVerifyThrows ==
  \A t \in Threads :
    reply[t].kind = "false" =>
      \A p \in ByteParams(call[t].op) : heap[Argument(t, p)] # << >>

(***************************************************************************)
(* The bridge implements the API.  A call has answered, in the sense of    *)
(* SdkApi, as soon as an exception is pending that no later step removes.  *)
(***************************************************************************)
ReplyBar == [t \in Threads |-> IF exc[t] # NoException THEN exc[t] ELSE reply[t]]
SeenBar  == [t \in Threads |-> IF ReplyBar[t] # NoReply THEN Nothing ELSE vec[t]]

Api == INSTANCE SdkApi WITH seen <- SeenBar, reply <- ReplyBar

(* Every answer is the FFI's, for the very arguments of this call bound by *)
(* name and for bytes read from them while it ran; or its message; or the  *)
(* JVM's failure: whatever the other threads do meanwhile to the arrays    *)
(* and to native memory.                                                   *)
ImplementsApi == Api!Spec
===========================================================================
