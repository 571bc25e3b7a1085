-------------------------- MODULE JniBridge_proofs --------------------------
(***************************************************************************)
(* Theorems about JniBridge, for any number of threads, arrays, calls and  *)
(* addresses and any FFI that keeps its contract: the type invariant, and  *)
(* the ownership of native memory.                                         *)
(*                                                                         *)
(* NativeMemoryOwned is not inductive: it does not say that the pointers   *)
(* of a frame are gone when control reaches a step that forgets the frame, *)
(* or that a frame is empty when the FFI fills it.  FramesTidy adds, for   *)
(* each step, the slots that may still hold a pointer there.               *)
(***************************************************************************)
EXTENDS JniBridge, TLAPS

(* The frames that the actions write are frames. *)
LEMMA FrameTyped ==
  ASSUME NEW a \in Addrs \cup {NULL}, NEW b \in Addrs \cup {NULL}
  PROVE  /\ NoPointers \in [PtrSlots -> Addrs \cup {NULL}]
         /\ [first |-> a, second |-> b, err |-> NULL] \in [PtrSlots -> Addrs \cup {NULL}]
         /\ [NoPointers EXCEPT !["err"] = a] \in [PtrSlots -> Addrs \cup {NULL}]
BY DEF NoPointers, PtrSlots

(* Allocating and freeing keep the heap inside the addresses there are. *)
LEMMA AllocateTyped ==
  ASSUME TypeOK, NEW t \in Threads, NEW f \in [PtrSlots -> Addrs \cup {NULL}], NEW c,
         Allocate(t, f, c)
  PROVE  /\ ptr' \in [Threads -> [PtrSlots -> Addrs \cup {NULL}]]
         /\ DOMAIN memory' \subseteq Addrs
BY DEF TypeOK, Allocate

LEMMA FreeTyped ==
  ASSUME TypeOK, NEW t \in Threads, NEW s \in PtrSlots, Free(t, s)
  PROVE  /\ ptr' \in [Threads -> [PtrSlots -> Addrs \cup {NULL}]]
         /\ DOMAIN memory' \subseteq Addrs
BY DEF TypeOK, Free

(* A thread that goes from one step of a call to another keeps its call. *)
LEMMA GotoTyped ==
  ASSUME TypeOK, NEW t \in Threads, NEW step \in Steps, pc[t] # "idle",
         Goto(t, step), UNCHANGED call
  PROVE  /\ pc' \in [Threads -> Steps]
         /\ call' \in [Threads -> Calls \cup {NoCall}]
         /\ \A u \in Threads : pc'[u] # "idle" => call'[u] \in Calls
BY DEF TypeOK, Goto

(* The type invariant is inductive. *)
THEOREM TypeCorrect == Spec => []TypeOK
<1>1. Init => TypeOK
  <2> SUFFICES ASSUME Init PROVE TypeOK
    OBVIOUS
  <2>1. DOMAIN memory = {}
    BY DEF Init, Nothing
  <2>2. ptr \in [Threads -> [PtrSlots -> Addrs \cup {NULL}]]
    BY FrameTyped DEF Init
  <2>3. pc \in [Threads -> Steps] /\ \A t \in Threads : pc[t] = "idle"
    BY DEF Init, Steps
  <2>4. call \in [Threads -> Calls \cup {NoCall}]
    BY DEF Init
  <2>5. /\ DOMAIN heap = Arrays /\ DOMAIN vec = Threads /\ DOMAIN out = Threads
        /\ DOMAIN exc = Threads /\ DOMAIN reply = Threads
    BY DEF Init
  <2> QED
    BY <2>1, <2>2, <2>3, <2>4, <2>5 DEF TypeOK
<1>2. ASSUME TypeOK, [Next]_vars PROVE TypeOK'
  <2>1. ASSUME NEW a \in Arrays, NEW v \in Contents, Write(a, v) PROVE TypeOK'
    BY <1>2, <2>1 DEF TypeOK, Write
  <2>2. ASSUME NEW t \in Threads, NEW c \in Calls, Invoke(t, c) PROVE TypeOK'
    BY <1>2, <2>2 DEF TypeOK, Invoke, Goto, Steps, NativeSteps
  <2>3. ASSUME NEW t \in Threads, Collect(t) PROVE TypeOK'
    BY <1>2, <2>3 DEF TypeOK, Collect, Goto, Steps, NativeSteps
  <2>4. ASSUME NEW t \in Threads, ConvertArgument(t) PROVE TypeOK'
    <3>1. DOMAIN vec' = DOMAIN vec
      BY <2>4 DEF ConvertArgument
    <3> QED
      BY <1>2, <2>4, <3>1 DEF TypeOK, ConvertArgument
  <2>5. ASSUME NEW t \in Threads, ConversionFails(t) PROVE TypeOK'
    BY <1>2, <2>5 DEF TypeOK, ConversionFails
  <2>6. ASSUME NEW t \in Threads, FfiAccepts(t) PROVE TypeOK'
    <3>1. /\ Goto(t, "return") \/ Goto(t, "copy")
          /\ pc[t] # "idle" /\ UNCHANGED << heap, call, vec, exc, reply >>
          /\ DOMAIN out' = DOMAIN out
      BY <2>6 DEF FfiAccepts
    <3>2. /\ ptr' \in [Threads -> [PtrSlots -> Addrs \cup {NULL}]]
          /\ DOMAIN memory' \subseteq Addrs
      <4>1. CASE UNCHANGED << memory, ptr >>
        BY <1>2, <4>1 DEF TypeOK
      <4>2. CASE \E a, b \in Addrs \cup {NULL} : \E c :
                   Allocate(t, [first |-> a, second |-> b, err |-> NULL], c)
        BY <1>2, <4>2, AllocateTyped, FrameTyped
      <4> QED
        BY <2>6, <4>1, <4>2 DEF FfiAccepts
    <3> QED
      BY <1>2, <3>1, <3>2, GotoTyped DEF TypeOK, Steps, NativeSteps
  <2>7. ASSUME NEW t \in Threads, FfiRejects(t) PROVE TypeOK'
    <3>1. /\ Goto(t, "discard") \/ Goto(t, "message")
          /\ pc[t] # "idle" /\ UNCHANGED << heap, call, vec, out, exc, reply >>
      BY <2>7 DEF FfiRejects
    <3>2. \E e \in Addrs \cup {NULL} : \E c : Allocate(t, [NoPointers EXCEPT !["err"] = e], c)
      BY <2>7 DEF FfiRejects
    <3>3. /\ ptr' \in [Threads -> [PtrSlots -> Addrs \cup {NULL}]]
          /\ DOMAIN memory' \subseteq Addrs
      BY <1>2, <3>2, AllocateTyped, FrameTyped
    <3> QED
      BY <1>2, <3>1, <3>3, GotoTyped DEF TypeOK, Steps, NativeSteps
  <2>8. ASSUME NEW t \in Threads, CopyBuffers(t) PROVE TypeOK'
    BY <1>2, <2>8, GotoTyped DEF TypeOK, CopyBuffers, Steps, NativeSteps
  <2>9. ASSUME NEW t \in Threads, FreeFirst(t) PROVE TypeOK'
    BY <1>2, <2>9, GotoTyped, FreeTyped DEF TypeOK, FreeFirst, Steps, NativeSteps, PtrSlots
  <2>10. ASSUME NEW t \in Threads, FreeSecond(t) PROVE TypeOK'
    BY <1>2, <2>10, GotoTyped, FreeTyped DEF TypeOK, FreeSecond, Steps, NativeSteps, PtrSlots
  <2>11. ASSUME NEW t \in Threads, NewArray(t) PROVE TypeOK'
    <3>1. /\ Goto(t, "return") /\ pc[t] # "idle"
          /\ UNCHANGED << heap, memory, call, vec, ptr, reply >>
          /\ DOMAIN out' = DOMAIN out /\ DOMAIN exc' = DOMAIN exc
      BY <2>11 DEF NewArray
    <3> QED
      BY <1>2, <3>1, GotoTyped DEF TypeOK, Steps, NativeSteps
  <2>12. ASSUME NEW t \in Threads, TakeMessage(t) PROVE TypeOK'
    BY <1>2, <2>12, GotoTyped DEF TypeOK, TakeMessage, Steps, NativeSteps
  <2>13. ASSUME NEW t \in Threads, FreeMessage(t) PROVE TypeOK'
    BY <1>2, <2>13, GotoTyped, FreeTyped DEF TypeOK, FreeMessage, Steps, NativeSteps, PtrSlots
  <2>14. ASSUME NEW t \in Threads, ThrowNew(t) PROVE TypeOK'
    <3>1. /\ Goto(t, "return") /\ pc[t] # "idle"
          /\ UNCHANGED << heap, memory, call, vec, ptr, reply >>
          /\ DOMAIN out' = DOMAIN out /\ DOMAIN exc' = DOMAIN exc
      BY <2>14 DEF ThrowNew
    <3> QED
      BY <1>2, <3>1, GotoTyped DEF TypeOK, Steps, NativeSteps
  <2>15. ASSUME NEW t \in Threads, DiscardMessage(t) PROVE TypeOK'
    <3>1. /\ Goto(t, "return") /\ pc[t] # "idle" /\ Free(t, "err")
          /\ UNCHANGED << heap, call, vec, exc, reply >> /\ DOMAIN out' = DOMAIN out
      BY <2>15 DEF DiscardMessage
    <3> QED
      BY <1>2, <3>1, GotoTyped, FreeTyped DEF TypeOK, Steps, NativeSteps, PtrSlots
  <2>16. ASSUME NEW t \in Threads, ReturnToKotlin(t) PROVE TypeOK'
    <3>1. /\ Goto(t, "split") \/ Goto(t, "answered")
          /\ pc[t] # "idle" /\ UNCHANGED << heap, memory, call >>
          /\ ptr' = [ptr EXCEPT ![t] = NoPointers]
          /\ DOMAIN vec' = DOMAIN vec /\ DOMAIN out' = DOMAIN out
          /\ DOMAIN exc' = DOMAIN exc /\ DOMAIN reply' = DOMAIN reply
      BY <2>16 DEF ReturnToKotlin
    <3> QED
      BY <1>2, <3>1, GotoTyped, FrameTyped DEF TypeOK, Steps
  <2>17. ASSUME NEW t \in Threads, SplitPair(t) PROVE TypeOK'
    <3>1. /\ Goto(t, "answered") /\ pc[t] # "idle"
          /\ UNCHANGED << heap, memory, call, ptr, exc >>
          /\ DOMAIN vec' = DOMAIN vec /\ DOMAIN out' = DOMAIN out
          /\ DOMAIN reply' = DOMAIN reply
      BY <2>17 DEF SplitPair
    <3> QED
      BY <1>2, <3>1, GotoTyped DEF TypeOK, Steps
  <2>18. CASE UNCHANGED vars
    BY <1>2, <2>18 DEF TypeOK, vars
  <2> QED
    BY <1>2, <2>1, <2>2, <2>3, <2>4, <2>5, <2>6, <2>7, <2>8, <2>9, <2>10, <2>11, <2>12,
       <2>13, <2>14, <2>15, <2>16, <2>17, <2>18 DEF Next, Step
<1> QED
  BY <1>1, <1>2, PTL DEF Spec

---------------------------------------------------------------------------
(* The slots of a frame that may hold a pointer at each step. *)
LiveSlots(t) ==
  IF pc[t] \in {"copy", "free"}
  THEN IF Kind(call[t].op) = "pair" THEN {"first", "second"} ELSE {"first"}
  ELSE IF pc[t] = "freeSecond" THEN {"second"}
  ELSE IF pc[t] \in {"message", "freeMessage", "discard"} THEN {"err"}
  ELSE {}

FrameTidy(t) == \A s \in PtrSlots : ptr[t][s] # NULL => s \in LiveSlots(t)

FramesTidy == \A t \in Threads : FrameTidy(t)

Ownership == NoLeak /\ NoDangling /\ ExclusiveOwner

(* Filling an empty frame with addresses that were free keeps ownership. *)
LEMMA AllocateKeepsOwnership ==
  ASSUME TypeOK, Ownership, NEW t \in Threads, \A s \in PtrSlots : ptr[t][s] = NULL,
         NEW f \in [PtrSlots -> Addrs \cup {NULL}], NEW c,
         \A s \in PtrSlots : f[s] # NULL => f[s] \notin DOMAIN memory,
         Allocate(t, f, c)
  PROVE  /\ Ownership'
         /\ \A s \in PtrSlots : ptr'[t][s] = f[s]
         /\ \A u \in Threads \ {t} : ptr'[u] = ptr[u]
<1> DEFINE fresh == {s \in PtrSlots : f[s] # NULL}
<1>1. /\ \A s1, s2 \in fresh : f[s1] = f[s2] => s1 = s2
      /\ ptr' = [ptr EXCEPT ![t] = f]
      /\ DOMAIN memory' = DOMAIN memory \cup {f[s] : s \in fresh}
  BY DEF Allocate
<1>2. /\ \A s \in PtrSlots : ptr'[t][s] = f[s]
      /\ \A u \in Threads \ {t} : ptr'[u] = ptr[u]
  BY <1>1 DEF TypeOK
<1>3. NoLeak'
  <2> SUFFICES ASSUME NEW a \in DOMAIN memory'
               PROVE  \E u \in Threads, s \in PtrSlots : ptr'[u][s] = a /\ a # NULL
    BY DEF NoLeak, Holds
  <2>1. CASE a \in DOMAIN memory
    <3>1. PICK u \in Threads, s \in PtrSlots : ptr[u][s] = a /\ a # NULL
      BY <2>1 DEF Ownership, NoLeak, Holds
    <3>2. u # t
      BY <3>1
    <3> QED
      BY <1>2, <3>1, <3>2
  <2>2. CASE \E s \in fresh : a = f[s]
    BY <1>2, <2>2
  <2> QED
    BY <1>1, <2>1, <2>2
<1>4. NoDangling'
  <2> SUFFICES ASSUME NEW u \in Threads, NEW s \in PtrSlots, ptr'[u][s] # NULL
               PROVE  ptr'[u][s] \in DOMAIN memory'
    BY DEF NoDangling
  <2> QED
    BY <1>1, <1>2 DEF Ownership, NoDangling
<1>5. ExclusiveOwner'
  <2> SUFFICES ASSUME NEW u1 \in Threads, NEW u2 \in Threads,
                      NEW s1 \in PtrSlots, NEW s2 \in PtrSlots,
                      ptr'[u1][s1] # NULL, ptr'[u1][s1] = ptr'[u2][s2]
               PROVE  u1 = u2 /\ s1 = s2
    BY DEF ExclusiveOwner
  <2>1. CASE u1 = t /\ u2 = t
    BY <1>1, <1>2, <2>1
  <2>2. CASE u1 # t /\ u2 # t
    BY <1>2, <2>2 DEF Ownership, ExclusiveOwner
  <2>3. CASE u1 = t /\ u2 # t
    BY <1>2, <2>3 DEF Ownership, NoDangling
  <2>4. CASE u1 # t /\ u2 = t
    BY <1>2, <2>4 DEF Ownership, NoDangling
  <2> QED
    BY <2>1, <2>2, <2>3, <2>4
<1> QED
  BY <1>2, <1>3, <1>4, <1>5 DEF Ownership

(* Freeing what one slot points to, and forgetting the pointer, keeps it. *)
LEMMA FreeKeepsOwnership ==
  ASSUME TypeOK, Ownership, NEW t \in Threads, NEW slot \in PtrSlots, Free(t, slot)
  PROVE  /\ Ownership'
         /\ \A s \in PtrSlots : ptr'[t][s] = IF s = slot THEN NULL ELSE ptr[t][s]
         /\ \A u \in Threads \ {t} : ptr'[u] = ptr[u]
<1>1. /\ DOMAIN memory' = DOMAIN memory \ {ptr[t][slot]}
      /\ ptr' = [ptr EXCEPT ![t][slot] = NULL]
  BY DEF Free
<1>2. /\ \A s \in PtrSlots : ptr'[t][s] = IF s = slot THEN NULL ELSE ptr[t][s]
      /\ \A u \in Threads \ {t} : ptr'[u] = ptr[u]
  BY <1>1 DEF TypeOK
<1>3. \A u \in Threads, s \in PtrSlots :
        ptr'[u][s] # NULL => ptr'[u][s] = ptr[u][s] /\ ~(u = t /\ s = slot)
  BY <1>2
<1>4. NoLeak'
  <2> SUFFICES ASSUME NEW a \in DOMAIN memory'
               PROVE  \E u \in Threads, s \in PtrSlots : ptr'[u][s] = a /\ a # NULL
    BY DEF NoLeak, Holds
  <2>1. PICK u \in Threads, s \in PtrSlots : ptr[u][s] = a /\ a # NULL
    BY <1>1 DEF Ownership, NoLeak, Holds
  <2>2. ~(u = t /\ s = slot)
    BY <1>1, <2>1
  <2> QED
    BY <1>2, <2>1, <2>2
<1>5. NoDangling'
  <2> SUFFICES ASSUME NEW u \in Threads, NEW s \in PtrSlots, ptr'[u][s] # NULL
               PROVE  ptr'[u][s] \in DOMAIN memory'
    BY DEF NoDangling
  <2>1. ptr[u][s] # NULL /\ ptr[u][s] = ptr'[u][s] /\ ~(u = t /\ s = slot)
    BY <1>3
  <2>2. ptr[u][s] \in DOMAIN memory /\ ptr[u][s] # ptr[t][slot]
    BY <2>1 DEF Ownership, NoDangling, ExclusiveOwner
  <2> QED
    BY <1>1, <2>1, <2>2
<1>6. ExclusiveOwner'
  BY <1>3 DEF Ownership, ExclusiveOwner
<1> QED
  BY <1>2, <1>4, <1>5, <1>6 DEF Ownership

(* A step that writes neither pointers nor native memory keeps ownership. *)
LEMMA UntouchedKeepsOwnership ==
  ASSUME Ownership, UNCHANGED << memory, ptr >>
  PROVE  Ownership'
BY DEF Ownership, NoLeak, NoDangling, ExclusiveOwner, Holds

(* A step of one thread leaves the frames of the others tidy. *)
LEMMA OthersStayTidy ==
  ASSUME TypeOK, FramesTidy, NEW t \in Threads, FrameTidy(t)',
         \A u \in Threads \ {t} :
           pc'[u] = pc[u] /\ call'[u] = call[u] /\ ptr'[u] = ptr[u]
  PROVE  FramesTidy'
BY DEF FramesTidy, FrameTidy, LiveSlots

(* A step that keeps call and moves t only, written with Goto. *)
LEMMA StepStaysTidy ==
  ASSUME TypeOK, FramesTidy, NEW t \in Threads, NEW step \in Steps, Goto(t, step),
         UNCHANGED call, \A u \in Threads \ {t} : ptr'[u] = ptr[u], FrameTidy(t)'
  PROVE  FramesTidy'
<1>1. \A u \in Threads \ {t} : pc'[u] = pc[u] /\ call'[u] = call[u]
  BY DEF Goto, TypeOK
<1> QED
  BY <1>1, OthersStayTidy

IInv == Ownership /\ FramesTidy

(***************************************************************************)
(* The inductive invariant: one owner for each allocation, and in every    *)
(* frame only the pointers its step still has to free.                     *)
(***************************************************************************)
THEOREM OwnershipInvariant == Spec => []IInv
<1>1. Init => IInv
  <2> SUFFICES ASSUME Init PROVE IInv
    OBVIOUS
  <2>1. DOMAIN memory = {} /\ \A t \in Threads, s \in PtrSlots : ptr[t][s] = NULL
    BY DEF Init, Nothing, NoPointers
  <2> QED
    BY <2>1 DEF IInv, Ownership, NoLeak, NoDangling, ExclusiveOwner, FramesTidy, FrameTidy
<1>2. ASSUME TypeOK, IInv, [Next]_vars PROVE IInv'
  <2> USE <1>2 DEF IInv
  <2>1. ASSUME NEW a \in Arrays, NEW v \in Contents, Write(a, v) PROVE IInv'
    BY <2>1, UntouchedKeepsOwnership DEF Write, FramesTidy, FrameTidy, LiveSlots
  <2>2. ASSUME NEW t \in Threads, NEW c \in Calls, Invoke(t, c) PROVE IInv'
    <3>1. Ownership'
      BY <2>2, UntouchedKeepsOwnership DEF Invoke
    <3>2. FrameTidy(t)'
      BY <2>2 DEF Invoke, Goto, TypeOK, FramesTidy, FrameTidy, LiveSlots
    <3>3. \A u \in Threads \ {t} : pc'[u] = pc[u] /\ call'[u] = call[u] /\ ptr'[u] = ptr[u]
      BY <2>2 DEF Invoke, Goto, TypeOK
    <3> QED
      BY <3>1, <3>2, <3>3, OthersStayTidy
  <2>3. ASSUME NEW t \in Threads, Collect(t) PROVE IInv'
    <3>1. Ownership'
      BY <2>3, UntouchedKeepsOwnership DEF Collect
    <3>2. FrameTidy(t)'
      BY <2>3 DEF Collect, Goto, TypeOK, FramesTidy, FrameTidy, LiveSlots
    <3>3. \A u \in Threads \ {t} : pc'[u] = pc[u] /\ call'[u] = call[u] /\ ptr'[u] = ptr[u]
      BY <2>3 DEF Collect, Goto, TypeOK
    <3> QED
      BY <3>1, <3>2, <3>3, OthersStayTidy
  <2>4. ASSUME NEW t \in Threads, ConvertArgument(t) \/ ConversionFails(t) PROVE IInv'
    BY <2>4, UntouchedKeepsOwnership
       DEF ConvertArgument, ConversionFails, FramesTidy, FrameTidy, LiveSlots
  <2>5. ASSUME NEW t \in Threads, FfiAccepts(t) PROVE IInv'
    <3>1. pc[t] = "convert" /\ UNCHANGED call
      BY <2>5 DEF FfiAccepts
    <3>2. \A s \in PtrSlots : ptr[t][s] = NULL
      BY <3>1 DEF FramesTidy, FrameTidy, LiveSlots
    <3>3. CASE Goto(t, "return") /\ UNCHANGED << memory, ptr >>
      <4>1. FrameTidy(t)'
        BY <3>2, <3>3 DEF FrameTidy
      <4> QED
        BY <3>1, <3>3, <4>1, UntouchedKeepsOwnership, StepStaysTidy DEF Steps, NativeSteps
    <3>4. CASE /\ Goto(t, "copy")
               /\ \E a, b \in Addrs \cup {NULL} : \E c :
                    /\ a # NULL => a \notin DOMAIN memory
                    /\ b # NULL => b \notin DOMAIN memory /\ Kind(call[t].op) = "pair"
                    /\ Allocate(t, [first |-> a, second |-> b, err |-> NULL], c)
      <4>1. PICK a \in Addrs \cup {NULL}, b \in Addrs \cup {NULL} : \E c :
              /\ a # NULL => a \notin DOMAIN memory
              /\ b # NULL => b \notin DOMAIN memory /\ Kind(call[t].op) = "pair"
              /\ Allocate(t, [first |-> a, second |-> b, err |-> NULL], c)
        BY <3>4
      <4> DEFINE f == [first |-> a, second |-> b, err |-> NULL]
      <4>2. /\ f \in [PtrSlots -> Addrs \cup {NULL}]
            /\ f["first"] = a /\ f["second"] = b /\ f["err"] = NULL
            /\ \A s \in PtrSlots : f[s] # NULL => f[s] \notin DOMAIN memory
        BY <4>1, FrameTyped DEF PtrSlots
      <4>3. \E c : Allocate(t, f, c)
        BY <4>1
      <4> HIDE DEF f
      <4>4. /\ Ownership'
            /\ \A s \in PtrSlots : ptr'[t][s] = f[s]
            /\ \A u \in Threads \ {t} : ptr'[u] = ptr[u]
        BY <3>2, <4>2, <4>3, AllocateKeepsOwnership
      <4>5. pc'[t] = "copy" /\ Kind(call[t].op)' = Kind(call[t].op)
        BY <3>1, <3>4 DEF Goto, TypeOK
      <4>6. FrameTidy(t)'
        BY <4>1, <4>2, <4>4, <4>5 DEF FrameTidy, LiveSlots, PtrSlots
      <4> QED
        BY <3>1, <3>4, <4>4, <4>6, StepStaysTidy DEF Steps, NativeSteps
    <3> QED
      BY <2>5, <3>3, <3>4 DEF FfiAccepts, PointerFor
  <2>6. ASSUME NEW t \in Threads, FfiRejects(t) PROVE IInv'
    <3>1. pc[t] = "convert" /\ UNCHANGED call
      BY <2>6 DEF FfiRejects
    <3>2. \A s \in PtrSlots : ptr[t][s] = NULL
      BY <3>1 DEF FramesTidy, FrameTidy, LiveSlots
    <3>3. PICK e \in Addrs \cup {NULL} :
            /\ e # NULL => e \notin DOMAIN memory
            /\ \E c : Allocate(t, [NoPointers EXCEPT !["err"] = e], c)
      BY <2>6 DEF FfiRejects
    <3> DEFINE f == [NoPointers EXCEPT !["err"] = e]
    <3>4. /\ f \in [PtrSlots -> Addrs \cup {NULL}]
          /\ \A s \in PtrSlots : f[s] = IF s = "err" THEN e ELSE NULL
      BY FrameTyped DEF NoPointers, PtrSlots
    <3>5. \E c : Allocate(t, f, c)
      BY <3>3
    <3> HIDE DEF f
    <3>6. /\ Ownership'
          /\ \A s \in PtrSlots : ptr'[t][s] = f[s]
          /\ \A u \in Threads \ {t} : ptr'[u] = ptr[u]
      BY <3>2, <3>3, <3>4, <3>5, AllocateKeepsOwnership
    <3>7. Goto(t, "discard") \/ Goto(t, "message")
      BY <2>6 DEF FfiRejects
    <3>8. pc'[t] \in {"discard", "message"}
      BY <3>7 DEF Goto, TypeOK
    <3>9. FrameTidy(t)'
      BY <3>4, <3>6, <3>8 DEF FrameTidy, LiveSlots
    <3> QED
      BY <3>1, <3>6, <3>7, <3>9, StepStaysTidy DEF Steps, NativeSteps
  <2>7. ASSUME NEW t \in Threads, CopyBuffers(t) PROVE IInv'
    <3>1. FrameTidy(t)'
      BY <2>7 DEF CopyBuffers, Goto, TypeOK, FramesTidy, FrameTidy, LiveSlots
    <3> QED
      BY <2>7, <3>1, UntouchedKeepsOwnership, StepStaysTidy DEF CopyBuffers, Steps, NativeSteps
  <2>8. ASSUME NEW t \in Threads, FreeFirst(t) PROVE IInv'
    <3>1. /\ Free(t, "first") /\ UNCHANGED call /\ pc[t] = "free"
          /\ Goto(t, IF Kind(call[t].op) = "pair" THEN "freeSecond" ELSE "newArray")
      BY <2>8 DEF FreeFirst
    <3>2. /\ Ownership'
          /\ \A s \in PtrSlots : ptr'[t][s] = IF s = "first" THEN NULL ELSE ptr[t][s]
          /\ \A u \in Threads \ {t} : ptr'[u] = ptr[u]
      BY <3>1, FreeKeepsOwnership DEF PtrSlots
    <3>3. pc'[t] = IF Kind(call[t].op) = "pair" THEN "freeSecond" ELSE "newArray"
      BY <3>1 DEF Goto, TypeOK
    <3>4. FrameTidy(t)'
      BY <3>1, <3>2, <3>3 DEF FramesTidy, FrameTidy, LiveSlots
    <3> QED
      BY <3>1, <3>2, <3>4, StepStaysTidy DEF Steps, NativeSteps
  <2>9. ASSUME NEW t \in Threads, FreeSecond(t) PROVE IInv'
    <3>1. Free(t, "second") /\ UNCHANGED call /\ pc[t] = "freeSecond" /\ Goto(t, "newArray")
      BY <2>9 DEF FreeSecond
    <3>2. /\ Ownership'
          /\ \A s \in PtrSlots : ptr'[t][s] = IF s = "second" THEN NULL ELSE ptr[t][s]
          /\ \A u \in Threads \ {t} : ptr'[u] = ptr[u]
      BY <3>1, FreeKeepsOwnership DEF PtrSlots
    <3>3. FrameTidy(t)'
      BY <3>1, <3>2 DEF FramesTidy, FrameTidy, LiveSlots
    <3> QED
      BY <3>1, <3>2, <3>3, StepStaysTidy DEF Steps, NativeSteps
  <2>10. ASSUME NEW t \in Threads, FreeMessage(t) \/ DiscardMessage(t) PROVE IInv'
    <3>1. /\ Free(t, "err") /\ UNCHANGED call /\ pc[t] \in {"freeMessage", "discard"}
          /\ Goto(t, "throw") \/ Goto(t, "return")
      BY <2>10 DEF FreeMessage, DiscardMessage
    <3>2. /\ Ownership'
          /\ \A s \in PtrSlots : ptr'[t][s] = IF s = "err" THEN NULL ELSE ptr[t][s]
          /\ \A u \in Threads \ {t} : ptr'[u] = ptr[u]
      BY <3>1, FreeKeepsOwnership DEF PtrSlots
    <3>3. FrameTidy(t)'
      BY <3>1, <3>2 DEF FramesTidy, FrameTidy, LiveSlots
    <3> QED
      BY <3>1, <3>2, <3>3, StepStaysTidy DEF Steps, NativeSteps
  <2>11. ASSUME NEW t \in Threads, TakeMessage(t) PROVE IInv'
    <3>1. FrameTidy(t)'
      BY <2>11 DEF TakeMessage, Goto, TypeOK, FramesTidy, FrameTidy, LiveSlots
    <3> QED
      BY <2>11, <3>1, UntouchedKeepsOwnership, StepStaysTidy DEF TakeMessage, Steps, NativeSteps
  <2>12. ASSUME NEW t \in Threads, NewArray(t) \/ ThrowNew(t) \/ SplitPair(t) PROVE IInv'
    <3>1. /\ pc[t] \in {"newArray", "throw", "split"} /\ UNCHANGED << memory, ptr, call >>
          /\ Goto(t, "return") \/ Goto(t, "answered")
      BY <2>12 DEF NewArray, ThrowNew, SplitPair
    <3>2. FrameTidy(t)'
      BY <3>1 DEF FramesTidy, FrameTidy, LiveSlots
    <3> QED
      BY <3>1, <3>2, UntouchedKeepsOwnership, StepStaysTidy DEF Steps, NativeSteps
  <2>13. ASSUME NEW t \in Threads, ReturnToKotlin(t) PROVE IInv'
    <3>1. /\ pc[t] = "return" /\ UNCHANGED << memory, call >>
          /\ Goto(t, "split") \/ Goto(t, "answered")
          /\ ptr' = [ptr EXCEPT ![t] = NoPointers]
      BY <2>13 DEF ReturnToKotlin
    <3>2. \A s \in PtrSlots : ptr[t][s] = NULL
      BY <3>1 DEF FramesTidy, FrameTidy, LiveSlots
    <3>3. /\ \A s \in PtrSlots : ptr'[t][s] = NULL
          /\ \A u \in Threads \ {t} : ptr'[u] = ptr[u]
      BY <3>1 DEF TypeOK, NoPointers
    <3>4. \A u \in Threads, s \in PtrSlots : ptr'[u][s] = ptr[u][s]
      BY <3>2, <3>3
    <3>5. Ownership'
      BY <3>1, <3>4 DEF Ownership, NoLeak, NoDangling, ExclusiveOwner, Holds
    <3>6. FrameTidy(t)'
      BY <3>3 DEF FrameTidy
    <3> QED
      BY <3>1, <3>3, <3>5, <3>6, StepStaysTidy DEF Steps
  <2>14. CASE UNCHANGED vars
    BY <2>14, UntouchedKeepsOwnership DEF vars, FramesTidy, FrameTidy, LiveSlots
  <2> QED
    BY <2>1, <2>2, <2>3, <2>4, <2>5, <2>6, <2>7, <2>8, <2>9, <2>10, <2>11, <2>12,
       <2>13, <2>14 DEF Next, Step
<1> QED
  BY <1>1, <1>2, TypeCorrect, PTL DEF Spec

(***************************************************************************)
(* No interleaving of calls leaks a native buffer or message, frees one    *)
(* twice, reads one after it is freed, or leaves one behind for Kotlin.    *)
(***************************************************************************)
THEOREM NativeMemorySafe == Spec => []NativeMemoryOwned
<1>1. TypeOK /\ IInv => NativeMemoryOwned
  <2> SUFFICES ASSUME TypeOK, IInv, NEW t \in Threads, pc[t] \notin NativeSteps
               PROVE  ptr[t] = NoPointers
    BY DEF NativeMemoryOwned, KotlinOwnsNothing, IInv, Ownership
  <2>1. \A s \in PtrSlots : ptr[t][s] = NULL
    BY DEF IInv, FramesTidy, FrameTidy, LiveSlots, NativeSteps
  <2>2. ptr[t] \in [PtrSlots -> Addrs \cup {NULL}]
    BY DEF TypeOK
  <2> QED
    BY <2>1, <2>2 DEF NoPointers
<1> QED
  BY <1>1, TypeCorrect, OwnershipInvariant, PTL
============================================================================
