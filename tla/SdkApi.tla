------------------------------ MODULE SdkApi ------------------------------
(***************************************************************************)
(* What Common, Anarchy, OneOnOne and Tyranny promise a Kotlin caller, and *)
(* nothing of how: a call reads its byte[] arguments, in any order and     *)
(* while other threads may be writing them, and answers with what the FFI  *)
(* function makes of the bytes it read and of no others, or with an        *)
(* OnymException that carries that function's own message; or the JVM      *)
(* itself fails (out of memory, an asynchronous exception).  There is no   *)
(* native memory here, no address, no wire format and no position.         *)
(***************************************************************************)
EXTENDS EntryPoints

CONSTANTS
  Threads,        \* Java threads
  Arrays,         \* byte[] objects a caller can pass
  Contents,       \* what such an array may hold; its length never changes
  Calls,          \* the calls made: [op |-> .., args |-> [parameter |-> value]]
  NULL,           \* Java's null, and the FFI's NULL
  Accepts(_, _),  \* external: does the FFI function return true for these arguments
  Output(_, _),   \* external: the buffers it then returns
  Reason(_, _),   \* external: else the message it leaves, or NULL
  DefaultMessage  \* what lib.rs says when the FFI left no message

VARIABLES
  heap,     \* contents of each array
  call,     \* the call a thread is in, or NoCall
  seen,     \* the bytes its call has read of each parameter so far
  reply     \* what the call answered and the caller has not yet taken

vars == << heap, call, seen, reply >>

NoCall   == [op |-> "none"]
NoReply  == [kind |-> "none", value |-> << >>]
JvmError == [kind |-> "jvm", value |-> << >>]
Nothing  == << >>    \* the function with no parameter read

(***************************************************************************)
(* Which Kotlin parameter an FFI slot stands for, by their names: the      *)
(* binding a reader of the two declarations expects, whatever position     *)
(* either has.                                                             *)
(***************************************************************************)
Means ==
  [sk |-> {"secretKey", "proverSecretKey"}, sk_0 |-> {"secretKey0"}, sk_1 |-> {"secretKey1"},
   admin_sk |-> {"adminSecretKey"}, pk |-> {"publicKey"}, sig |-> {"signature"},
   event_id |-> {"eventId"}, proof |-> {"proof"}, root |-> {"poseidonRoot"},
   leaf_hashes |-> {"leafHashes"}, leaves |-> {"memberLeafHashes"},
   leaves_old |-> {"memberLeafHashesOld"}, leaves_new |-> {"memberLeafHashesNew"},
   member_root_new |-> {"memberRootNew"}, group_id_fr |-> {"groupIdFr"},
   depth |-> {"depth"}, epoch |-> {"epoch"}, epoch_old |-> {"epochOld"},
   prover_index |-> {"proverIndex"}, prover_index_old |-> {"proverIndexOld"},
   admin_index |-> {"adminIndex"}, admin_index_old |-> {"adminIndexOld"},
   salt |-> {"salt"}, salt_old |-> {"saltOld"}, salt_new |-> {"saltNew"}]

ParamNamed(op) == [slot \in Slots(op) |-> CHOOSE p \in Params(op) : p \in Means[slot]]

(* The promise: the answer to a call that read these bytes. *)
Promise(c, read) ==
  LET args == FfiArgs(c.args, read, ParamNamed(c.op))
      ok   == Accepts(c.op, args)
      why  == Reason(c.op, args)
  IN  IF Kind(c.op) = "bool"
      THEN [kind |-> IF ok THEN "true" ELSE "false", value |-> << >>]
      ELSE IF ok THEN [kind |-> Kind(c.op), value |-> Output(c.op, args)]
      ELSE [kind |-> "onym", value |-> << IF why = NULL THEN DefaultMessage ELSE why >>]

Init ==
  /\ heap \in [Arrays -> Contents]
  /\ call  = [t \in Threads |-> NoCall]
  /\ seen  = [t \in Threads |-> Nothing]
  /\ reply = [t \in Threads |-> NoReply]

(* Any thread of the application writes to an array, also during a call. *)
Write(a, v) ==
  /\ Len(v) = Len(heap[a])
  /\ heap' = [heap EXCEPT ![a] = v]
  /\ UNCHANGED << call, seen, reply >>

Invoke(t, c) ==
  /\ call[t] = NoCall
  /\ call' = [call EXCEPT ![t] = c]
  /\ UNCHANGED << heap, seen, reply >>

Busy(t) == call[t] # NoCall /\ reply[t] = NoReply

(* A call reads one more byte of a parameter, finds it is null, or finds   *)
(* the length of an array it has not looked at yet.                        *)
Read(t) ==
  /\ Busy(t)
  /\ \E p \in ByteParams(call[t].op) :
       LET ref == call[t].args[p]
       IN  \/ /\ p \notin DOMAIN seen[t]
              /\ seen' = [seen EXCEPT ![t] = With(@, p, IF ref = NULL THEN NULL ELSE << >>)]
           \/ /\ p \in DOMAIN seen[t] /\ ref # NULL
              /\ Len(seen[t][p]) < Len(heap[ref])
              /\ seen' = [seen EXCEPT ![t][p] = Append(@, heap[ref][Len(@) + 1])]
  /\ UNCHANGED << heap, call, reply >>

AllRead(t) ==
  \A p \in ByteParams(call[t].op) :
    /\ p \in DOMAIN seen[t]
    /\ call[t].args[p] # NULL => Len(seen[t][p]) = Len(heap[call[t].args[p]])

Answer(t) ==
  /\ Busy(t)
  /\ \/ AllRead(t) /\ reply' = [reply EXCEPT ![t] = Promise(call[t], seen[t])]
     \/ reply' = [reply EXCEPT ![t] = JvmError]
  /\ seen' = [seen EXCEPT ![t] = Nothing]
  /\ UNCHANGED << heap, call >>

(* The caller goes on with the value, or handles the exception. *)
Collect(t) ==
  /\ reply[t] # NoReply
  /\ call'  = [call  EXCEPT ![t] = NoCall]
  /\ reply' = [reply EXCEPT ![t] = NoReply]
  /\ UNCHANGED << heap, seen >>

Next ==
  \/ \E a \in Arrays, v \in Contents : Write(a, v)
  \/ \E t \in Threads :
       \/ \E c \in Calls : Invoke(t, c)
       \/ Read(t)
       \/ Answer(t)
       \/ Collect(t)

Spec == Init /\ [][Next]_vars
===========================================================================
