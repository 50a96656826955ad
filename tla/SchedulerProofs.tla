--------------------------- MODULE SchedulerProofs ---------------------------
(***************************************************************************)
(* Proofs about the scheduler for any number of threads and calls, for a   *)
(* build in which close_requested starts FALSE and the store of `closed`   *)
(* in ~Userdata survives.  The other builds are the hazards of the README. *)
(***************************************************************************)
EXTENDS Scheduler, SequenceTheorems, TLAPS

Built == InitialCloseRequested = {FALSE} /\ ClosedAfterDtor = {TRUE}

-----------------------------------------------------------------------------
(* Sequences                                                               *)

\* Appending to the last of three concatenated sequences appends to the whole.
LEMMA AppendToLast ==
  ASSUME NEW S, NEW a \in Seq(S), NEW b \in Seq(S), NEW c \in Seq(S), NEW e \in S
  PROVE  (a \o b) \o Append(c, e) = Append((a \o b) \o c, e)
<1>1. a \o b \in Seq(S) /\ (a \o b) \o c \in Seq(S) /\ <<e>> \in Seq(S)
  BY ConcatProperties
<1>2. Append(c, e) = c \o <<e>> /\ Append((a \o b) \o c, e) = ((a \o b) \o c) \o <<e>>
  BY <1>1, AppendIsConcat
<1>3. ((a \o b) \o c) \o <<e>> = (a \o b) \o (c \o <<e>>)
  BY <1>1, ConcatAssociative
<1> QED BY <1>2, <1>3

\* Moving the head of a sequence to the end of the one before it.
LEMMA MoveHead ==
  ASSUME NEW S, NEW a \in Seq(S), NEW b \in Seq(S), b # <<>>
  PROVE  Append(a, Head(b)) \o Tail(b) = a \o b
<1>1. Head(b) \in S /\ Tail(b) \in Seq(S) /\ b = <<Head(b)>> \o Tail(b)
  <2>1. Len(b) \in Nat \ {0}
    BY EmptySeq
  <2>2. b = <<b[1]>> \o SubSeq(b, 2, Len(b))
    BY <2>1, SubSeqRecursiveFirst, SubSeqFull
  <2>3. Tail(b) = SubSeq(b, 2, Len(b)) /\ Head(b) = b[1]
    BY TailIsSubSeq
  <2> QED BY <2>2, <2>3, HeadTailProperties
<1>2. <<Head(b)>> \in Seq(S)
  BY <1>1
<1>3. Append(a, Head(b)) = a \o <<Head(b)>>
  BY <1>1, AppendIsConcat
<1>4. (a \o <<Head(b)>>) \o Tail(b) = a \o (<<Head(b)>> \o Tail(b))
  BY <1>1, <1>2, ConcatAssociative
<1> QED BY <1>1, <1>3, <1>4

-----------------------------------------------------------------------------
(* The inductive invariant                                                 *)

LEMMA InitIndInv == ASSUME Built PROVE Init => IndInv
<1> SUFFICES ASSUME Init PROVE IndInv
  OBVIOUS
<1>1. closeRequested = FALSE
  BY DEF Init, Built
<1>2. pc \in [Threads -> {"idle", "send", "dtor"}] /\ Loop \in Threads
  BY DEF Init, Threads
<1>3. queue \in Seq(Fns) /\ batch \in Seq(Fns) /\ issued \in Seq(Fns) /\ done \in Seq(Fns)
  BY EmptySeq DEF Init
<1>4. TypeOK
  <2> USE <1>1, <1>2, <1>3 DEF Init, LoopStates
  <2>1. refs \in SUBSET Threads
    OBVIOUS
  <2>2. closeRequested \in BOOLEAN /\ closed \in BOOLEAN
    OBVIOUS
  <2>3. collected \in BOOLEAN /\ pending \in BOOLEAN
    OBVIOUS
  <2>4. destroyed \in 0..1
    OBVIOUS
  <2>5. async \in {"open", "closing", "closed"} /\ loop \in LoopStates
    OBVIOUS
  <2> QED BY <2>1, <2>2, <2>3, <2>4, <2>5 DEF TypeOK
<1> QED BY <1>1, <1>4 DEF Init, IndInv, FlagInv, CallInv, HandleInv, LoopInv

\* A thread's step keeps the invariant: a call is made only by a holder, and
\* only the last holder's release sets the flag.
LEMMA ThreadStepIndInv ==
  ASSUME Built, IndInv, NEW t \in Threads, ThreadStep(t)
  PROVE  IndInv'
<1> USE DEF IndInv, TypeOK, FlagInv, CallInv, HandleInv, LoopInv,
            threadVars, dataVars, loopVars, history
<1>1. ASSUME NEW f \in Fns, Push(t, f)  PROVE IndInv'
  BY <1>1, AppendProperties DEF Push, CanCall
<1>2. CASE Send(t)
  BY <1>2 DEF Send, SendAsync
<1>3. ASSUME NEW u \in Threads, Share(t, u)  PROVE IndInv'
  BY <1>3 DEF Share, CanCall
<1>4. CASE Release(t)
  BY <1>4 DEF Release, CanCall
<1>5. CASE ReleaseLast(t)
  BY <1>5 DEF ReleaseLast, CanCall
<1> QED BY <1>1, <1>2, <1>3, <1>4, <1>5 DEF ThreadStep

\* A step of the loop keeps it: the handle is closed only behind the flag,
\* and ~Userdata runs in the close callback and not again.
LEMMA LoopStepIndInv ==
  ASSUME Built, IndInv, LoopStep
  PROVE  IndInv'
<1> USE DEF IndInv, TypeOK, FlagInv, CallInv, HandleInv, LoopInv,
            threadVars, dataVars, loopVars, history, LoopStates
<1>1. CASE Wake
  BY <1>1 DEF Wake
<1>2. CASE CheckClose
  BY <1>2 DEF CheckClose
<1>3. CASE DoWork
  BY <1>3, EmptySeq DEF DoWork
<1>4. CASE RunNext
  BY <1>4, HeadTailProperties, AppendProperties DEF RunNext
<1>5. CASE RunRaises
  BY <1>5 DEF RunRaises
<1>6. CASE EndWork
  BY <1>6 DEF EndWork
<1>7. CASE OnClosed
  <2>1. ~closed
    BY <1>7 DEF OnClosed
  <2>2. closed' = TRUE /\ destroyed' = 1 /\ queue' = <<>>
    BY <1>7, <2>1 DEF OnClosed, CloseUserdata, DestroyUserdata, Built
  <2> QED BY <1>7, <2>2, EmptySeq DEF OnClosed
<1>8. CASE Collect
  BY <1>8 DEF Collect, CloseUserdata
<1> QED BY <1>1, <1>2, <1>3, <1>4, <1>5, <1>6, <1>7, <1>8 DEF LoopStep

LEMMA NextIndInv ==
  ASSUME Built, IndInv, [Next]_vars
  PROVE  IndInv'
<1>1. CASE UNCHANGED vars
  BY <1>1 DEF vars, threadVars, dataVars, loopVars, history,
              IndInv, TypeOK, FlagInv, CallInv, HandleInv, LoopInv
<1>2. CASE Finished
  BY <1>2, <1>1 DEF Finished
<1> QED BY <1>1, <1>2, ThreadStepIndInv, LoopStepIndInv DEF Next

LEMMA Inductive == ASSUME Built PROVE Spec => []IndInv
<1>1. Init => IndInv
  BY InitIndInv
<1>2. IndInv /\ [Next]_vars => IndInv'
  BY NextIndInv
<1> QED BY <1>1, <1>2, PTL DEF Spec

-----------------------------------------------------------------------------
(* Safety                                                                  *)

\* Every variable keeps its type, and ~Userdata runs at most once whatever
\* the order of the close callback and the collector.
THEOREM TypeCorrect == ASSUME Built PROVE Spec => []TypeOK
<1>1. IndInv => TypeOK
  BY DEF IndInv
<1> QED BY <1>1, Inductive, PTL

\* No thread that holds the scheduler or is inside invoke(), nor the Lua thread
\* inside ~Scheduler, can find the handle closing or the userdata destroyed.
THEOREM HeldIsAlive == ASSUME Built PROVE Spec => []HeldMeansAlive
<1>1. IndInv => HeldMeansAlive
  <2> SUFFICES ASSUME IndInv,
                      refs # {} \/ (\E t \in Threads : pc[t] = "send") \/ pc[Loop] = "dtor"
               PROVE  async = "open" /\ destroyed = 0
    BY DEF HeldMeansAlive
  <2>1. Loop \in Threads
    BY DEF Threads
  <2>2. pc[Loop] = "dtor" => async = "open"
    BY <2>1 DEF IndInv, CallInv
  <2>3. refs # {} \/ (\E t \in Threads : pc[t] = "send") => async = "open"
    BY DEF IndInv, CallInv, FlagInv, HandleInv
  <2>4. async = "open"
    BY <2>2, <2>3
  <2> QED BY <2>4 DEF IndInv, TypeOK, HandleInv
<1> QED BY <1>1, Inductive, PTL

\* No function runs once the callback has chosen to close the handle.
THEOREM QuietOnceClosing == ASSUME Built PROVE Spec => NothingRunsOnceClosing
<1>1. IndInv /\ [Next]_vars => [async # "open" => done' = done]_vars
  <2> SUFFICES ASSUME IndInv, Next, async # "open"  PROVE done' = done
    OBVIOUS
  <2>1. loop # "working"
    BY DEF IndInv, LoopInv
  <2>2. ASSUME NEW t \in Threads, ThreadStep(t)  PROVE done' = done
    BY <2>2 DEF ThreadStep, Push, Send, Share, Release, ReleaseLast, loopVars, history
  <2>3. CASE LoopStep
    BY <2>1, <2>3 DEF LoopStep, Wake, CheckClose, DoWork, RunNext, RunRaises, EndWork,
                      OnClosed, Collect, history
  <2>4. CASE Finished
    BY <2>4 DEF Finished, vars, history
  <2> QED BY <2>2, <2>3, <2>4 DEF Next
<1> QED BY <1>1, Inductive, PTL DEF Spec, NothingRunsOnceClosing

-----------------------------------------------------------------------------
(* Order                                                                   *)

\* Until the queue is torn down every function issued is run, being run or
\* queued, in the order of issue.
THEOREM OrderKept == ASSUME Built PROVE Spec => []NoneLostInOrder
<1>1. Init => NoneLostInOrder
  BY DEF Init, NoneLostInOrder
<1>2. IndInv /\ NoneLostInOrder /\ [Next]_vars => NoneLostInOrder'
  <2> SUFFICES ASSUME IndInv, NoneLostInOrder, [Next]_vars, destroyed' = 0
               PROVE  issued' = (done' \o batch') \o queue'
    BY DEF NoneLostInOrder
  <2> USE DEF threadVars, dataVars, loopVars, history
  <2>1. CASE UNCHANGED <<issued, done, batch, queue>> /\ destroyed = destroyed'
    BY <2>1 DEF NoneLostInOrder
  <2>2. ASSUME NEW t \in Threads, NEW f \in Fns, Push(t, f)
        PROVE  issued' = (done' \o batch') \o queue'
    <3>1. issued = (done \o batch) \o queue
      BY <2>2 DEF Push, NoneLostInOrder
    <3>2. (done \o batch) \o Append(queue, f) = Append((done \o batch) \o queue, f)
      BY AppendToLast, SMTT(20) DEF IndInv, TypeOK
    <3> QED BY <2>2, <3>1, <3>2 DEF Push
  <2>3. CASE DoWork
    <3>1. batch = <<>>
      BY <2>3 DEF DoWork, IndInv, LoopInv
    <3>2. done \o <<>> = done /\ (done \o queue) \o <<>> = done \o queue
      BY ConcatEmptySeq, ConcatProperties DEF IndInv, TypeOK
    <3> QED BY <2>3, <3>1, <3>2 DEF DoWork, NoneLostInOrder
  <2>4. CASE RunNext
    BY <2>4, MoveHead DEF RunNext, NoneLostInOrder, IndInv, TypeOK
  <2>5. CASE OnClosed \/ Collect
    <3>1. destroyed' # destroyed + 1
      BY DEF IndInv, TypeOK
    <3>2. UNCHANGED <<closed, destroyed, queue>>
      BY <2>5, <3>1 DEF OnClosed, Collect, CloseUserdata, DestroyUserdata
    <3> QED BY <2>1, <2>5, <3>2 DEF OnClosed, Collect
  <2>6. ASSUME NEW t \in Threads,
               \/ Send(t) \/ Release(t) \/ ReleaseLast(t)
               \/ \E u \in Threads : Share(t, u)
        PROVE  UNCHANGED <<issued, done, batch, queue>> /\ destroyed = destroyed'
    BY <2>6 DEF Send, Share, Release, ReleaseLast
  <2>7. ASSUME Wake \/ CheckClose \/ RunRaises \/ EndWork \/ Finished \/ UNCHANGED vars
        PROVE  UNCHANGED <<issued, done, batch, queue>> /\ destroyed = destroyed'
    BY <2>7 DEF Wake, CheckClose, RunRaises, EndWork, Finished, vars
  <2> QED BY <2>1, <2>2, <2>3, <2>4, <2>5, <2>6, <2>7 DEF Next, ThreadStep, LoopStep
<1> QED BY <1>1, <1>2, Inductive, PTL DEF Spec
-----------------------------------------------------------------------------
(* Wake-ups                                                                *)

\* Whatever is queued, somebody is on the way to take it.
THEOREM WakeupKept == ASSUME Built PROVE Spec => []NoLostWakeup
<1>1. Init => NoLostWakeup
  BY DEF Init, NoLostWakeup
<1>2. IndInv /\ NoLostWakeup /\ [Next]_vars => NoLostWakeup'
  <2> SUFFICES ASSUME IndInv, NoLostWakeup, [Next]_vars, queue' # <<>>
               PROVE  NoLostWakeup'
    BY DEF NoLostWakeup
  <2> USE DEF NoLostWakeup, threadVars, dataVars, loopVars, history
  <2>1. ASSUME NEW t \in Threads, NEW f \in Fns, Push(t, f)  PROVE NoLostWakeup'
    <3>1. pc'[t] = "send"
      BY <2>1 DEF Push, IndInv, TypeOK
    <3> QED BY <3>1
  <2>2. ASSUME NEW t \in Threads, Send(t)  PROVE NoLostWakeup'
    <3>1. pending' \/ async' # "open"
      BY <2>2 DEF Send, SendAsync
    <3> QED BY <3>1
  <2>3. ASSUME NEW t \in Threads, NEW u \in Threads, Share(t, u) \/ Release(t)
        PROVE  NoLostWakeup'
    BY <2>3 DEF Share, Release
  <2>4. ASSUME NEW t \in Threads, ReleaseLast(t)  PROVE NoLostWakeup'
    <3>1. pc'[t] = "dtor"
      BY <2>4 DEF ReleaseLast, IndInv, TypeOK
    <3> QED BY <3>1
  <2>5. CASE Wake \/ CheckClose
    BY <2>5 DEF Wake, CheckClose
  <2>6. CASE DoWork \/ OnClosed \/ Collect
    BY <2>6 DEF DoWork, OnClosed, Collect, CloseUserdata, DestroyUserdata
  <2>7. CASE RunNext \/ RunRaises \/ EndWork
    BY <2>7 DEF RunNext, RunRaises, EndWork
  <2>8. CASE Finished \/ UNCHANGED vars
    BY <2>8 DEF Finished, vars
  <2> QED BY <2>1, <2>2, <2>3, <2>4, <2>5, <2>6, <2>7, <2>8
          DEF Next, ThreadStep, LoopStep
<1> QED BY <1>1, <1>2, Inductive, PTL DEF Spec

-----------------------------------------------------------------------------
(* Refinement                                                              *)

\* The elements of a concatenation.
LEMMA ToSetConcat ==
  ASSUME NEW S, NEW a \in Seq(S), NEW b \in Seq(S)
  PROVE  ToSet(a \o b) = ToSet(a) \cup ToSet(b)
<1>1. a \o b \in Seq(S) /\ Len(a \o b) = Len(a) + Len(b)
  BY ConcatProperties
<1>2. /\ DOMAIN a = 1 .. Len(a) /\ DOMAIN b = 1 .. Len(b)
      /\ DOMAIN (a \o b) = 1 .. Len(a) + Len(b)
      /\ Len(a) \in Nat /\ Len(b) \in Nat
  BY <1>1, LenProperties
<1>3. \A i \in 1 .. Len(a) + Len(b) : (a \o b)[i] = IF i <= Len(a) THEN a[i] ELSE b[i - Len(a)]
  BY ConcatProperties
<1>4. ASSUME NEW i \in 1 .. Len(a)
      PROVE  i \in 1 .. Len(a) + Len(b) /\ (a \o b)[i] = a[i]
  BY <1>2, <1>3
<1>5. ASSUME NEW i \in 1 .. Len(b)
      PROVE  i + Len(a) \in 1 .. Len(a) + Len(b) /\ (a \o b)[i + Len(a)] = b[i]
  BY <1>2, <1>3
<1>6. ToSet(a \o b) \subseteq ToSet(a) \cup ToSet(b)
  BY <1>2, <1>3 DEF ToSet
<1>7. ToSet(a) \subseteq ToSet(a \o b)
  BY <1>2, <1>4 DEF ToSet
<1>8. ToSet(b) \subseteq ToSet(a \o b)
  BY <1>2, <1>5 DEF ToSet
<1> QED BY <1>6, <1>7, <1>8

\* Head and tail of a concatenation whose first part is not empty.
LEMMA HeadTailOfConcat ==
  ASSUME NEW S, NEW a \in Seq(S), NEW b \in Seq(S), a # <<>>
  PROVE  a \o b # <<>> /\ Head(a \o b) = Head(a) /\ Tail(a \o b) = Tail(a) \o b
<1>1. Len(a) \in Nat \ {0} /\ Len(b) \in Nat
  BY EmptySeq, LenProperties
<1>2. a \o b \in Seq(S) /\ Tail(a) \in Seq(S) /\ Len(a \o b) = Len(a) + Len(b)
  BY ConcatProperties, HeadTailProperties
<1>3. a \o b # <<>>
  BY <1>1, <1>2, EmptySeq
<1>4. Head(a \o b) = Head(a)
  BY <1>1, <1>2, ConcatProperties
<1>5. /\ Tail(a \o b) \in Seq(S) /\ Tail(a) \o b \in Seq(S)
      /\ Len(Tail(a \o b)) = Len(a) + Len(b) - 1
      /\ Len(Tail(a) \o b) = Len(a) + Len(b) - 1
      /\ Len(Tail(a)) = Len(a) - 1
  BY <1>1, <1>2, <1>3, ConcatProperties, HeadTailProperties
<1>6. ASSUME NEW i \in 1 .. Len(a) + Len(b) - 1
      PROVE  Tail(a \o b)[i] = (Tail(a) \o b)[i]
  <2>1. Tail(a \o b)[i] = (a \o b)[i + 1]
    BY <1>2, <1>3, <1>5, HeadTailProperties
  <2>2. (a \o b)[i + 1] = IF i + 1 <= Len(a) THEN a[i + 1] ELSE b[i + 1 - Len(a)]
    BY <1>1, ConcatProperties
  <2>3. (Tail(a) \o b)[i] = IF i <= Len(a) - 1 THEN Tail(a)[i] ELSE b[i - (Len(a) - 1)]
    BY <1>1, <1>2, <1>5, ConcatProperties
  <2>4. i <= Len(a) - 1 => Tail(a)[i] = a[i + 1]
    BY <1>1, <1>5, HeadTailProperties
  <2> QED BY <1>1, <2>1, <2>2, <2>3, <2>4
<1>7. Tail(a \o b) = Tail(a) \o b
  BY <1>5, <1>6, SeqEqual
<1> QED BY <1>3, <1>4, <1>7
\* Every step of the scheduler is a step of the executor or leaves it alone:
\* a push submits, the last release stops, the close callback discards.
THEOREM ImplementsExecutor == ASSUME Built PROVE Spec => ExecutorSafety
<1> USE DEF Executor!vars, threadVars, dataVars, loopVars, history
<1>1. Init => Executor!Init
  <2> SUFFICES ASSUME Init PROVE Executor!Init
    OBVIOUS
  <2>1. batch \o queue = <<>>
    BY ConcatEmptySeq, EmptySeq DEF Init
  <2>2. ExecutorStatus = "open"
    BY DEF Init, Built, ExecutorStatus
  <2> QED BY <2>1, <2>2 DEF Init, Executor!Init
<1>2. IndInv /\ NoneLostInOrder /\ [Next]_vars => [Executor!Next]_(Executor!vars)
  <2> SUFFICES ASSUME IndInv, NoneLostInOrder, [Next]_vars
               PROVE  [Executor!Next]_(Executor!vars)
    OBVIOUS
  <2>0. /\ queue \in Seq(Fns) /\ batch \in Seq(Fns) /\ done \in Seq(Fns)
        /\ destroyed \in 0..1
    BY DEF IndInv, TypeOK
  \* the executor sees nothing when its three variables stay as they are
  <2>1. ASSUME UNCHANGED <<batch, queue, done>>,
               UNCHANGED <<closeRequested, destroyed, loop>>
               \/ (ExecutorStatus' = ExecutorStatus)
        PROVE  UNCHANGED Executor!vars
    BY <2>1 DEF ExecutorStatus
  <2>2. ASSUME NEW t \in Threads, NEW f \in Fns, Push(t, f)
        PROVE  Executor!Submit(f)
    <3>1. ~closeRequested /\ async = "open" /\ destroyed = 0 /\ loop # "exited"
      BY <2>0, <2>2 DEF Push, CanCall, IndInv, FlagInv, HandleInv
    <3>2. ExecutorStatus = "open" /\ ExecutorStatus' = ExecutorStatus
      BY <2>2, <3>1 DEF ExecutorStatus, Push
    <3>3. batch' \o queue' = Append(batch \o queue, f)
      <4>1. <<f>> \in Seq(Fns) /\ batch \o queue \in Seq(Fns)
        BY <2>0, ConcatProperties
      <4>2. Append(queue, f) = queue \o <<f>>
        BY <2>0, AppendIsConcat
      <4>3. Append(batch \o queue, f) = (batch \o queue) \o <<f>>
        BY <4>1, AppendIsConcat
      <4> QED BY <2>0, <2>2, <4>1, <4>2, <4>3, ConcatAssociative, SMTT(20) DEF Push
    <3>4. f \notin ToSet(batch \o queue) \cup ToSet(done)
      <4>1. issued = (done \o batch) \o queue
        BY <3>1 DEF NoneLostInOrder
      <4>2. done \o batch \in Seq(Fns)
        BY <2>0, ConcatProperties
      <4>3. ToSet(issued) = ToSet(done) \cup ToSet(batch) \cup ToSet(queue)
        <5>1. ToSet((done \o batch) \o queue) = ToSet(done \o batch) \cup ToSet(queue)
          BY <2>0, <4>2, ToSetConcat, ZenonT(40)
        <5>2. ToSet(done \o batch) = ToSet(done) \cup ToSet(batch)
          BY <2>0, ToSetConcat
        <5> QED BY <4>1, <5>1, <5>2
      <4>4. ToSet(batch \o queue) = ToSet(batch) \cup ToSet(queue)
        BY <2>0, ToSetConcat
      <4> QED BY <2>2, <4>3, <4>4 DEF Push
    <3>5. done' = done
      BY <2>2 DEF Push
    <3> QED BY <3>2, <3>3, <3>4, <3>5 DEF Executor!Submit, Executor!ToSet, ToSet
  <2>3. ASSUME NEW t \in Threads, ReleaseLast(t)  PROVE Executor!Stop
    <3>1. ~closeRequested /\ async = "open" /\ destroyed = 0 /\ loop # "exited"
      BY <2>0, <2>3 DEF ReleaseLast, CanCall, IndInv, FlagInv, HandleInv
    <3>2. ExecutorStatus = "open" /\ ExecutorStatus' = "stopping"
      BY <2>3, <3>1 DEF ExecutorStatus, ReleaseLast
    <3> QED BY <2>3, <3>2 DEF Executor!Stop, ReleaseLast
  <2>4. ASSUME NEW t \in Threads, NEW u \in Threads, Send(t) \/ Share(t, u) \/ Release(t)
        PROVE  UNCHANGED Executor!vars
    BY <2>1, <2>4 DEF Send, Share, Release
  <2>5. CASE Wake \/ CheckClose \/ EndWork
    <3>1. UNCHANGED <<batch, queue, done>> /\ ExecutorStatus' = ExecutorStatus
      BY <2>5 DEF Wake, CheckClose, EndWork, ExecutorStatus
    <3> QED BY <2>1, <3>1
  <2>6. CASE DoWork
    <3>1. batch = <<>>
      BY <2>6 DEF DoWork, IndInv, LoopInv
    <3>2. batch \o queue = queue /\ queue \o <<>> = queue
      BY <2>0, <3>1, ConcatEmptySeq
    <3>3. ExecutorStatus' = ExecutorStatus
      BY <2>6 DEF DoWork, ExecutorStatus
    <3> QED BY <2>6, <3>2, <3>3 DEF DoWork
  <2>7. ASSUME RunNext \/ RunRaises
        PROVE  batch # <<>> /\ loop = "working" /\ ExecutorStatus \in {"open", "stopping"}
    <3>1. async = "open" /\ loop = "working" /\ batch # <<>>
      BY <2>7 DEF RunNext, RunRaises, IndInv, LoopInv
    <3> QED BY <2>0, <3>1 DEF IndInv, HandleInv, ExecutorStatus
  <2>8. ASSUME RunNext  PROVE Executor!Run
    <3>1. /\ batch \o queue # <<>>
          /\ Head(batch \o queue) = Head(batch)
          /\ Tail(batch \o queue) = Tail(batch) \o queue
      BY <2>0, <2>7, <2>8, HeadTailOfConcat
    <3>2. ExecutorStatus' = ExecutorStatus
      BY <2>8 DEF RunNext, ExecutorStatus
    <3> QED BY <2>7, <2>8, <3>1, <3>2 DEF Executor!Run, RunNext
  <2>9. ASSUME RunRaises  PROVE Executor!Crash
    <3>1. batch \o queue # <<>>
      BY <2>0, <2>7, <2>9, HeadTailOfConcat
    <3>2. ExecutorStatus' = "crashed"
      BY <2>9 DEF RunRaises, ExecutorStatus
    <3> QED BY <2>7, <2>9, <3>1, <3>2 DEF Executor!Crash, RunRaises
  <2>10. ASSUME OnClosed  PROVE Executor!Discard
    <3>1. closeRequested /\ destroyed = 0 /\ ~closed /\ loop = "poll" /\ batch = <<>>
      BY <2>0, <2>10 DEF OnClosed, IndInv, HandleInv, LoopInv
    <3>2. destroyed' = 1 /\ queue' = <<>> /\ loop' = "poll"
      BY <2>10, <3>1 DEF OnClosed, CloseUserdata, DestroyUserdata
    <3>3. batch' \o queue' = <<>>
      BY <2>10, <3>1, <3>2, ConcatEmptySeq, EmptySeq DEF OnClosed
    <3>4. ExecutorStatus = "stopping" /\ ExecutorStatus' = "stopped"
      BY <3>1, <3>2 DEF ExecutorStatus
    <3> QED BY <2>10, <3>3, <3>4 DEF Executor!Discard, OnClosed
  <2>11. CASE Collect
    <3>1. closed
      BY <2>11 DEF Collect, IndInv, HandleInv
    <3>2. UNCHANGED <<batch, queue, done, closeRequested, destroyed, loop>>
      BY <2>11, <3>1 DEF Collect, CloseUserdata
    <3> QED BY <2>1, <3>2
  <2>12. CASE Finished \/ UNCHANGED vars
    BY <2>1, <2>12 DEF Finished, vars
  <2> QED BY <2>2, <2>3, <2>4, <2>5, <2>6, <2>8, <2>9, <2>10, <2>11, <2>12
          DEF Next, ThreadStep, LoopStep, Executor!Next
<1> QED BY <1>1, <1>2, Inductive, OrderKept, PTL DEF Spec, ExecutorSafety
=============================================================================
