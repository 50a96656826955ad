-------------------------- MODULE AppRequestsProofs --------------------------
(***************************************************************************)
(* Proofs about AppRequests, for any threads, calls and rounds:            *)
(*   - TypeCorrect: the variables' types;                                  *)
(*   - CurlIsReady: CurlGlobalGuard counts the requests under way, and     *)
(*     libcurl is initialized while there is one;                          *)
(*   - OneAnswer: a call returns with its callback called once.            *)
(* The stacks carry both arguments: only the innermost frame of a thread   *)
(* is at work, those below it wait in the phases of Waiting.               *)
(***************************************************************************)
EXTENDS AppRequests, FiniteSetTheorems, SequenceTheorems, TLAPS

Waiting == {"sent", "done", "running"}
Locked  == {"counted", "uncounted"}

\* What is so of each frame f of thread t when n is the number of the next call.
FrameOK(t, f, n) ==
  /\ f \in Frames
  /\ f.at # "callback" => f.left >= 1
  /\ t = Lua => f.call \in Calls /\ f.call < n
  /\ t # Lua => f.call = 0

StackInv ==
  /\ stack \in [Threads -> Seq(Frames)]
  /\ \A t \in Threads : \A i \in 1 .. Len(stack[t]) :
       /\ FrameOK(t, stack[t][i], next)
       /\ i < Len(stack[t]) => stack[t][i].phase \in Waiting

Types ==
  /\ mutex \in Threads \cup {None}
  /\ users \in Nat
  /\ curl \in BOOLEAN
  /\ next \in 1 .. MaxCalls + 1
  /\ registry \in SUBSET Calls
  /\ answers \in [Calls -> 0 .. 1]
  /\ state \in [Calls -> {"unused", "running", "returned", "raised"}]
  /\ refreshes \in 0 .. MaxRefreshes

\* The lock is held in two phases of the innermost frame.
Holds(t)  == stack[t] # <<>> /\ Top(t).phase \in Locked
MutexInv  == \A t \in Threads : mutex = t <=> Holds(t)

\* The count, and libcurl's state: the lock's holder is about to set it.
GuardInv ==
  /\ IsFiniteSet(Guards) /\ users = Cardinality(Guards)
  /\ mutex = None => (curl <=> Guards # {})
  /\ \A t \in Threads : mutex = t =>
       /\ Top(t).phase = "counted" => (curl <=> Guards # {<<t, Len(stack[t])>>})
       /\ Top(t).phase = "uncounted" => curl

\* A call that is running and not answered is at work in Lua's innermost frame.
Live == stack[Lua] # <<>> /\ Top(Lua).phase \notin Waiting \cup {"uncounted"}
CallInv == \A c \in Calls :
  /\ c >= next <=> state[c] = "unused"
  /\ c \in registry => state[c] = "running"
  /\ state[c] \in {"unused", "raised"} => answers[c] = 0
  /\ state[c] = "returned" => answers[c] = 1
  /\ state[c] = "running" /\ answers[c] = 0 => Live /\ Top(Lua).call = c
  /\ Live /\ Top(Lua).call = c => state[c] = "running" /\ answers[c] = 0 /\ c \in registry
  /\ \A i \in 1 .. Len(stack[Lua]) : stack[Lua][i].call = c =>
       /\ stack[Lua][i].at = "call" => state[c] = "running"
       /\ stack[Lua][i].at = "callback" => c \in registry /\ answers[c] = 1

\* A call has one frame.
OneFrame == \A i, j \in 1 .. Len(stack[Lua]) :
  stack[Lua][i].at = "call" /\ stack[Lua][j].at = "call" /\ stack[Lua][i].call = stack[Lua][j].call
    => i = j

IndInv == Types /\ StackInv /\ MutexInv /\ GuardInv /\ CallInv /\ OneFrame

-----------------------------------------------------------------------------
(* Stacks                                                                  *)

\* Thread t keeps its first n frames, and has those of r on them.
Shape(t, n, r) ==
  /\ stack' \in [Threads -> Seq(Frames)]
  /\ \A u \in Threads \ {t} : stack'[u] = stack[u]
  /\ Len(stack'[t]) = n + Len(r)
  /\ \A i \in 1 .. n : stack'[t][i] = stack[t][i]
  /\ \A j \in 1 .. Len(r) : stack'[t][n + j] = r[j]

\* The innermost frame and those below it.
LEMMA TopFrame ==
  ASSUME NEW t \in Threads, StackInv, stack[t] # <<>>
  PROVE  /\ Len(stack[t]) \in Nat /\ Len(stack[t]) >= 1
         /\ Len(stack[t]) \in 1 .. Len(stack[t])
         /\ Top(t) = stack[t][Len(stack[t])]
         /\ FrameOK(t, Top(t), next) /\ Top(t) \in Frames
         /\ Below(t) \in Seq(Frames) /\ Len(Below(t)) = Len(stack[t]) - 1
         /\ \A i \in 1 .. Len(stack[t]) - 1 : Below(t)[i] = stack[t][i]
<1> DEFINE l == Len(stack[t])
<1>1. stack[t] \in Seq(Frames)
  BY DEF StackInv
<1>2. l \in Nat /\ l >= 1 /\ l \in 1 .. l
  BY <1>1, EmptySeq
<1>3. FrameOK(t, stack[t][l], next)
  BY <1>2 DEF StackInv
<1>4. Below(t) = [i \in 1 .. l - 1 |-> stack[t][i]]
  BY <1>1, <1>2 DEF Below
<1>5. \A i \in 1 .. l - 1 : stack[t][i] \in Frames
  BY <1>1, <1>2
<1>6. Below(t) \in Seq(Frames) /\ Len(Below(t)) = l - 1
  BY <1>2, <1>4, <1>5
<1>7. QED
  BY <1>2, <1>3, <1>4, <1>6 DEF Top, FrameOK

\* Thread t's frames become r.
LEMMA SetShape ==
  ASSUME NEW t \in Threads, StackInv, NEW r \in Seq(Frames), stack' = [stack EXCEPT ![t] = r],
         NEW n \in Nat, NEW q, Len(r) = n + Len(q),
         \A i \in 1 .. n : r[i] = stack[t][i], \A j \in 1 .. Len(q) : r[n + j] = q[j]
  PROVE  Shape(t, n, q)
<1>1. stack \in [Threads -> Seq(Frames)]
  BY DEF StackInv
<1>2. stack' \in [Threads -> Seq(Frames)] /\ stack'[t] = r
  BY <1>1
<1>3. \A u \in Threads \ {t} : stack'[u] = stack[u]
  BY <1>1
<1>4. QED
  BY <1>2, <1>3 DEF Shape

\* Go with no frame or one frame on top, Pop, and a push.
LEMMA GoShape ==
  ASSUME NEW t \in Threads, StackInv, stack[t] # <<>>, NEW p,
         [Top(t) EXCEPT !.phase = p] \in Frames, Go(t, p, <<>>)
  PROVE  Shape(t, Len(stack[t]) - 1, <<[Top(t) EXCEPT !.phase = p]>>)
<1>1. PICK x : x = [Top(t) EXCEPT !.phase = p]
  OBVIOUS
<1>2. PICK r : r = Append(Below(t), x)
  OBVIOUS
<1>3. PICK n : n = Len(stack[t]) - 1
  OBVIOUS
<1>4. PICK q : q = <<x>>
  OBVIOUS
<1>5. n \in Nat /\ Len(q) = 1 /\ q[1] = x
  BY <1>3, <1>4, TopFrame
<1>6. r \in Seq(Frames) /\ Len(r) = n + 1 /\ r[n + 1] = x /\ \A i \in 1 .. n : r[i] = stack[t][i]
  BY <1>1, <1>2, <1>3, TopFrame
<1>7. r \o <<>> = r
  BY <1>6
<1>8. stack' = [stack EXCEPT ![t] = r]
  BY <1>1, <1>2, <1>7 DEF Go
<1>9. Len(r) = n + Len(q) /\ \A j \in 1 .. Len(q) : r[n + j] = q[j]
  BY <1>5, <1>6
<1>10. Shape(t, n, q)
  BY <1>5, <1>6, <1>8, <1>9, SetShape
<1>11. QED
  BY <1>1, <1>3, <1>4, <1>10

LEMMA GoOnShape ==
  ASSUME NEW t \in Threads, StackInv, stack[t] # <<>>, NEW p, NEW y \in Frames,
         [Top(t) EXCEPT !.phase = p] \in Frames, Go(t, p, <<y>>)
  PROVE  Shape(t, Len(stack[t]) - 1, <<[Top(t) EXCEPT !.phase = p], y>>)
<1>1. PICK x : x = [Top(t) EXCEPT !.phase = p]
  OBVIOUS
<1>2. PICK b : b = Append(Below(t), x)
  OBVIOUS
<1>3. PICK n : n = Len(stack[t]) - 1
  OBVIOUS
<1>4. PICK q : q = <<x, y>>
  OBVIOUS
<1>5. n \in Nat /\ Len(q) = 2 /\ q[1] = x /\ q[2] = y
  BY <1>3, <1>4, TopFrame
<1>6. b \in Seq(Frames) /\ Len(b) = n + 1 /\ b[n + 1] = x /\ \A i \in 1 .. n : b[i] = stack[t][i]
  BY <1>1, <1>2, <1>3, TopFrame
<1>7. PICK r : r = b \o <<y>>
  OBVIOUS
<1>8. r \in Seq(Frames) /\ Len(r) = n + 2 /\ r[n + 2] = y /\ \A i \in 1 .. n + 1 : r[i] = b[i]
  BY <1>5, <1>6, <1>7
<1>9. stack' = [stack EXCEPT ![t] = r]
  BY <1>1, <1>2, <1>7 DEF Go
<1>10. r[n + 1] = x /\ \A i \in 1 .. n : r[i] = stack[t][i]
  BY <1>5, <1>6, <1>8
<1>11. Len(r) = n + Len(q) /\ \A j \in 1 .. Len(q) : r[n + j] = q[j]
  BY <1>5, <1>8, <1>10
<1>12. Shape(t, n, q)
  BY <1>5, <1>8, <1>9, <1>10, <1>11, SetShape
<1>13. QED
  BY <1>1, <1>3, <1>4, <1>12

LEMMA PopShape ==
  ASSUME NEW t \in Threads, StackInv, stack[t] # <<>>, Pop(t)
  PROVE  Shape(t, Len(stack[t]) - 1, <<>>)
<1>1. PICK r : r = Below(t)
  OBVIOUS
<1>2. PICK n : n = Len(stack[t]) - 1
  OBVIOUS
<1>3. r \in Seq(Frames) /\ Len(r) = n /\ n \in Nat /\ \A i \in 1 .. n : r[i] = stack[t][i]
  BY <1>1, <1>2, TopFrame
<1>4. stack' = [stack EXCEPT ![t] = r]
  BY <1>1 DEF Pop
<1>5. PICK q : q = <<>> /\ Len(q) = 0
  OBVIOUS
<1>6. Len(r) = n + Len(q) /\ \A j \in 1 .. Len(q) : r[n + j] = q[j]
  BY <1>3, <1>5
<1>7. Shape(t, n, q)
  BY <1>3, <1>4, <1>6, SetShape
<1>8. QED
  BY <1>2, <1>5, <1>7

LEMMA PushShape ==
  ASSUME NEW t \in Threads, StackInv, NEW f \in Frames,
         stack' = [stack EXCEPT ![t] = Append(stack[t], f)]
  PROVE  Shape(t, Len(stack[t]), <<f>>)
<1>1. stack[t] \in Seq(Frames) /\ Len(stack[t]) \in Nat
  BY DEF StackInv
<1>2. PICK r : r = Append(stack[t], f)
  OBVIOUS
<1>3. PICK n : n = Len(stack[t])
  OBVIOUS
<1>4. PICK q : q = <<f>>
  OBVIOUS
<1>5. r \in Seq(Frames) /\ Len(r) = n + 1 /\ r[n + 1] = f /\ \A i \in 1 .. n : r[i] = stack[t][i]
  BY <1>1, <1>2, <1>3
<1>6. Len(r) = n + Len(q) /\ \A j \in 1 .. Len(q) : r[n + j] = q[j]
  BY <1>1, <1>3, <1>4, <1>5
<1>7. Shape(t, n, q)
  BY <1>1, <1>2, <1>3, <1>5, <1>6, SetShape
<1>8. QED
  BY <1>3, <1>4, <1>7

\* What is so of a frame stays so.
LEMMA FrameStays ==
  ASSUME NEW u \in Threads, NEW f, FrameOK(u, f, next), next \in Nat, next' \in Nat, next' >= next
  PROVE  FrameOK(u, f, next')
<1>1. ASSUME u = Lua PROVE f.call \in Calls /\ f.call < next'
  <2>1. f.call \in Nat /\ f.call \in Calls /\ f.call < next
    BY <1>1, RequestsAssumption DEF FrameOK, Calls, RequestsAssumption
  <2>2. QED
    BY <2>1
<1>2. QED
  BY <1>1 DEF FrameOK

\* The new frames are in order: so is the stack.
LEMMA ShapeKeeps ==
  ASSUME NEW t \in Threads, StackInv, NEW n \in 0 .. Len(stack[t]), NEW r, Shape(t, n, r),
         Len(r) \in Nat, next' >= next, next \in Nat, next' \in Nat,
         \A j \in 1 .. Len(r) : FrameOK(t, r[j], next') /\ (j < Len(r) => r[j].phase \in Waiting),
         Len(r) > 0 /\ n = Len(stack[t]) /\ n > 0 => stack[t][n].phase \in Waiting
  PROVE  StackInv'
<1>1. PICK s : s = stack'
  OBVIOUS
<1>2. /\ s \in [Threads -> Seq(Frames)]
      /\ \A u \in Threads \ {t} : s[u] = stack[u]
      /\ Len(s[t]) = n + Len(r)
      /\ \A i \in 1 .. n : s[t][i] = stack[t][i]
      /\ \A j \in 1 .. Len(r) : s[t][n + j] = r[j]
  BY <1>1 DEF Shape
<1>3. ASSUME NEW u \in Threads, u # t, NEW i \in 1 .. Len(s[u])
      PROVE  FrameOK(u, s[u][i], next') /\ (i < Len(s[u]) => s[u][i].phase \in Waiting)
  <2>1. s[u] = stack[u]
    BY <1>2, <1>3
  <2>2. FrameOK(u, stack[u][i], next) /\ (i < Len(stack[u]) => stack[u][i].phase \in Waiting)
    BY <2>1, <1>3 DEF StackInv
  <2>3. PICK f : f = stack[u][i]
    OBVIOUS
  <2>4. QED
    BY <2>1, <2>2, <2>3, FrameStays
<1>4. ASSUME NEW i \in 1 .. Len(s[t])
      PROVE  FrameOK(t, s[t][i], next') /\ (i < Len(s[t]) => s[t][i].phase \in Waiting)
  <2>1. stack[t] \in Seq(Frames) /\ Len(stack[t]) \in Nat /\ Len(s[t]) = n + Len(r)
    BY <1>2 DEF StackInv
  <2>2. CASE i \in 1 .. n
    <3>1. s[t][i] = stack[t][i] /\ i \in 1 .. Len(stack[t])
      BY <1>2, <2>1, <2>2
    <3>2. FrameOK(t, stack[t][i], next) /\ (i < Len(stack[t]) => stack[t][i].phase \in Waiting)
      BY <3>1 DEF StackInv
    <3>3. i < Len(s[t]) => i < Len(stack[t]) \/ (Len(r) > 0 /\ i = n /\ n = Len(stack[t]) /\ n > 0)
      BY <2>1, <2>2
    <3>4. i < Len(s[t]) => s[t][i].phase \in Waiting
      BY <3>1, <3>2, <3>3
    <3>5. FrameOK(t, stack[t][i], next')
      <4>1. PICK f : f = stack[t][i]
        OBVIOUS
      <4>2. QED
        BY <3>1, <3>2, <4>1, FrameStays
    <3>6. QED
      BY <3>1, <3>4, <3>5
  <2>3. CASE i \in n + 1 .. n + Len(r)
    <3>1. PICK j : j = i - n
      OBVIOUS
    <3>2. j \in 1 .. Len(r) /\ i = n + j /\ (i < Len(s[t]) => j < Len(r))
      BY <2>1, <2>3, <3>1
    <3>3. s[t][i] = r[j]
      BY <1>2, <3>2
    <3>4. QED
      BY <3>2, <3>3
  <2>4. QED
    BY <2>1, <2>2, <2>3
<1>5. QED
  BY <1>1, <1>2, <1>3, <1>4 DEF StackInv

\* Frames, and a frame that goes on.
LEMMA FrameFacts ==
  ASSUME NEW f \in Frames
  PROVE  /\ f.at \in {"call", "request", "callback"}
         /\ f.call \in Calls \cup {0} /\ f.left \in Nat
         /\ f.at = "call" => f.phase \in CallPhases /\ f.call \in Calls
         /\ f.at = "request" => f.phase \in RequestPhases
         /\ f.at = "callback" => f.phase = "running" /\ f.call \in Calls
  BY DEF Frames

\* A frame in its next phase is a frame.
LEMMA GoesOn ==
  ASSUME NEW f \in Frames, NEW p,
         \/ f.at = "call" /\ p \in CallPhases
         \/ f.at = "request" /\ p \in RequestPhases
  PROVE  /\ [f EXCEPT !.phase = p] \in Frames
         /\ [f EXCEPT !.phase = p].at = f.at
         /\ [f EXCEPT !.phase = p].call = f.call
         /\ [f EXCEPT !.phase = p].left = f.left
         /\ [f EXCEPT !.phase = p].phase = p
  BY DEF Frames

\* The innermost frame after a step, and the lock.
LEMMA NewTop ==
  ASSUME NEW t \in Threads, StackInv, NEW n \in 0 .. Len(stack[t]), NEW r, Shape(t, n, r),
         Len(r) \in Nat
  PROVE  /\ \A u \in Threads : u # t => (Holds(u)' <=> Holds(u)) /\ Top(u)' = Top(u)
         /\ Len(r) > 0 => /\ stack'[t] # <<>> /\ Top(t)' = r[Len(r)]
                          /\ Holds(t)' <=> r[Len(r)].phase \in Locked
         /\ Len(r) = 0 /\ n < Len(stack[t]) =>
              /\ ~Holds(t)'
              /\ stack'[t] # <<>> => Top(t)'.phase \in Waiting
<1>1. PICK s : s = stack'
  OBVIOUS
<1>2. /\ s \in [Threads -> Seq(Frames)]
      /\ \A u \in Threads \ {t} : s[u] = stack[u]
      /\ Len(s[t]) = n + Len(r)
      /\ \A i \in 1 .. n : s[t][i] = stack[t][i]
      /\ \A j \in 1 .. Len(r) : s[t][n + j] = r[j]
  BY <1>1 DEF Shape
<1>3. stack[t] \in Seq(Frames) /\ Len(stack[t]) \in Nat /\ n \in Nat
  BY DEF StackInv
<1>4. ASSUME NEW u \in Threads, u # t
      PROVE  s[u] = stack[u]
  BY <1>2, <1>4
<1>5. \A u \in Threads : u # t => (Holds(u)' <=> Holds(u)) /\ Top(u)' = Top(u)
  BY <1>1, <1>4 DEF Holds, Top
<1>6. ASSUME Len(r) > 0
      PROVE  /\ s[t] # <<>> /\ s[t][Len(s[t])] = r[Len(r)]
  BY <1>2, <1>3, <1>6
<1>7. ASSUME Len(r) = 0, n < Len(stack[t]), s[t] # <<>>
      PROVE  s[t][Len(s[t])].phase \in Waiting
  <2>1. Len(s[t]) = n /\ n >= 1
    BY <1>2, <1>3, <1>7, EmptySeq
  <2>2. s[t][n] = stack[t][n] /\ stack[t][n].phase \in Waiting
    BY <1>2, <1>3, <1>7, <2>1 DEF StackInv
  <2>3. QED
    BY <2>1, <2>2
<1>8. QED
  BY <1>1, <1>5, <1>6, <1>7 DEF Holds, Top, Waiting, Locked

-----------------------------------------------------------------------------
(* CurlGlobalGuard                                                         *)

IsGuard(f) == f.at = "request" /\ f.phase \notin {"constructing", "uncounted"}

\* A guard is a thread and the place of a guarding request in its stack.
LEMMA GuardsAre ==
  /\ \A g \in Guards : \E t \in Threads : \E i \in Nat : g = <<t, i>>
  /\ \A t \in Threads : \A i : <<t, i>> \in Guards <=> i \in 1 .. Len(stack[t]) /\ IsGuard(stack[t][i])
  BY DEF Guards, Guarding, IsGuard

\* Likewise after the step.
LEMMA GuardsWillBe ==
  /\ \A g \in Guards' : \E t \in Threads : \E i \in Nat : g = <<t, i>>
  /\ \A t \in Threads : \A i : <<t, i>> \in Guards' <=> i \in 1 .. Len(stack'[t]) /\ IsGuard(stack'[t][i])
  BY DEF Guards, Guarding, IsGuard

\* The guards of thread t after a step, by the frames it keeps and gets.
LEMMA GuardsMove ==
  ASSUME NEW t \in Threads, StackInv, NEW n \in 0 .. Len(stack[t]), NEW r, Shape(t, n, r),
         Len(r) \in Nat
  PROVE  \A u \in Threads : \A i :
           <<u, i>> \in Guards' <=>
             \/ (u # t \/ i \in 1 .. n) /\ <<u, i>> \in Guards
             \/ u = t /\ i \in n + 1 .. n + Len(r) /\ IsGuard(r[i - n])
<1>1. PICK s : s = stack'
  OBVIOUS
<1>2. /\ \A u \in Threads \ {t} : s[u] = stack[u]
      /\ Len(s[t]) = n + Len(r)
      /\ \A i \in 1 .. n : s[t][i] = stack[t][i]
      /\ \A j \in 1 .. Len(r) : s[t][n + j] = r[j]
  BY <1>1 DEF Shape
<1>3. Len(stack[t]) \in Nat /\ n \in Nat /\ n <= Len(stack[t])
  BY DEF StackInv
<1>4. TAKE u \in Threads
<1>5. TAKE i
<1>6. <<u, i>> \in Guards' <=> i \in 1 .. Len(s[u]) /\ IsGuard(s[u][i])
  BY <1>1, GuardsWillBe
<1>7. <<u, i>> \in Guards <=> i \in 1 .. Len(stack[u]) /\ IsGuard(stack[u][i])
  BY GuardsAre
<1>8. CASE u # t
  <2>1. s[u] = stack[u]
    BY <1>2, <1>8
  <2>2. QED
    BY <1>6, <1>7, <1>8, <2>1
<1>9. CASE u = t /\ i \in 1 .. n
  <2>1. i \in 1 .. Len(s[t]) /\ i \in 1 .. Len(stack[t]) /\ s[t][i] = stack[t][i]
        /\ i \notin n + 1 .. n + Len(r)
    BY <1>2, <1>3, <1>9
  <2>2. QED
    BY <1>6, <1>7, <1>9, <2>1
<1>10. CASE u = t /\ i \in n + 1 .. n + Len(r)
  <2>1. PICK j : j = i - n
    OBVIOUS
  <2>2. j \in 1 .. Len(r) /\ i = n + j /\ i \in 1 .. Len(s[t]) /\ i \notin 1 .. n
    BY <1>2, <1>3, <1>10, <2>1
  <2>3. s[t][i] = r[j]
    BY <1>2, <2>2
  <2>4. QED
    BY <1>6, <1>10, <2>1, <2>2, <2>3
<1>11. CASE u = t /\ i \notin 1 .. n + Len(r)
  <2>1. i \notin 1 .. n /\ i \notin n + 1 .. n + Len(r) /\ i \notin 1 .. Len(s[t])
    BY <1>2, <1>3, <1>11
  <2>2. QED
    BY <1>6, <1>11, <2>1
<1>12. QED
  BY <1>3, <1>8, <1>9, <1>10, <1>11

\* Nothing changes when the frame that goes was a guard just if the one that
\* comes in its place is, and no frame above it is one.
LEMMA SameGuards ==
  ASSUME NEW t \in Threads, StackInv, NEW n \in 0 .. Len(stack[t]), NEW r, Shape(t, n, r),
         Len(r) \in Nat,
         \A j \in 1 .. Len(r) : IsGuard(r[j]) => n + j <= Len(stack[t]) /\ IsGuard(stack[t][n + j]),
         \A i \in n + 1 .. Len(stack[t]) : IsGuard(stack[t][i]) => i - n <= Len(r) /\ IsGuard(r[i - n])
  PROVE  Guards' = Guards
<1>1. Len(stack[t]) \in Nat /\ n \in Nat /\ n <= Len(stack[t])
  BY DEF StackInv
<1>2. ASSUME NEW u \in Threads, NEW i \in Nat
      PROVE  <<u, i>> \in Guards' <=> <<u, i>> \in Guards
  <2>1. <<u, i>> \in Guards' <=>
             \/ (u # t \/ i \in 1 .. n) /\ <<u, i>> \in Guards
             \/ u = t /\ i \in n + 1 .. n + Len(r) /\ IsGuard(r[i - n])
    BY GuardsMove
  <2>2. <<u, i>> \in Guards <=> i \in 1 .. Len(stack[u]) /\ IsGuard(stack[u][i])
    BY GuardsAre
  <2>3. ASSUME u = t, i \in n + 1 .. n + Len(r), IsGuard(r[i - n])
        PROVE  i \in 1 .. Len(stack[t]) /\ IsGuard(stack[t][i])
    <3>1. PICK j : j = i - n
      OBVIOUS
    <3>2. j \in 1 .. Len(r) /\ i = n + j
      BY <1>1, <2>3, <3>1
    <3>3. IsGuard(r[j])
      BY <2>3, <3>1
    <3>4. n + j <= Len(stack[t]) /\ IsGuard(stack[t][n + j])
      BY <3>2, <3>3
    <3>5. QED
      BY <1>1, <3>2, <3>4
  <2>4. ASSUME u = t, i \in 1 .. Len(stack[t]), IsGuard(stack[t][i]), i \notin 1 .. n
        PROVE  i \in n + 1 .. n + Len(r) /\ IsGuard(r[i - n])
    <3>1. i \in n + 1 .. Len(stack[t])
      BY <1>1, <2>4
    <3>2. i - n <= Len(r) /\ IsGuard(r[i - n])
      BY <2>4, <3>1
    <3>3. QED
      BY <1>1, <3>1, <3>2
  <2>5. QED
    BY <2>1, <2>2, <2>3, <2>4
<1>3. ASSUME NEW g, g \in Guards PROVE g \in Guards'
  BY <1>2, <1>3, GuardsAre
<1>4. ASSUME NEW g, g \in Guards' PROVE g \in Guards
  BY <1>2, <1>4, GuardsWillBe
<1>5. QED
  BY <1>3, <1>4

\* A step outside the lock that makes no guard and ends none.
LEMMA OutsideLock ==
  ASSUME NEW t \in Threads, StackInv, MutexInv, GuardInv, ~Holds(t),
         NEW n \in 0 .. Len(stack[t]), NEW r, Shape(t, n, r), Len(r) \in Nat,
         Guards' = Guards, ~Holds(t)', UNCHANGED curlVars
  PROVE  MutexInv' /\ GuardInv'
<1>1. \A u \in Threads : u # t => (Holds(u)' <=> Holds(u)) /\ Top(u)' = Top(u) /\ stack'[u] = stack[u]
  BY NewTop DEF Shape
<1>2. mutex' = mutex /\ users' = users /\ curl' = curl
  BY DEF curlVars
<1>3. MutexInv'
  BY <1>1, <1>2 DEF MutexInv
<1>4. mutex # t
  BY DEF MutexInv
<1>5. ASSUME NEW u \in Threads, mutex = u
      PROVE  /\ Top(u)'.phase = "counted" => (curl <=> Guards # {<<u, Len(stack'[u])>>})
             /\ Top(u)'.phase = "uncounted" => curl
  <2>1. u # t
    BY <1>4, <1>5
  <2>2. Top(u)' = Top(u) /\ stack'[u] = stack[u]
    BY <1>1, <2>1
  <2>3. QED
    BY <1>5, <2>2 DEF GuardInv
<1>6. GuardInv'
  BY <1>2, <1>5 DEF GuardInv
<1>7. QED
  BY <1>3, <1>6

\* The innermost frame of thread t, a request, goes on to phase p.
LEMMA Advance ==
  ASSUME NEW t \in Threads, StackInv, next \in Nat, next' = next,
         NEW q, In(t, "request", q), NEW p \in RequestPhases, Go(t, p, <<>>)
  PROVE  \E n, x, r :
           /\ n \in Nat /\ n + 1 = Len(stack[t]) /\ n \in 0 .. Len(stack[t])
           /\ r = <<x>> /\ Len(r) = 1 /\ r[1] = x
           /\ x.at = "request" /\ x.call = Top(t).call /\ x.left = Top(t).left /\ x.phase = p
           /\ Shape(t, n, r) /\ StackInv'
           /\ Top(t)' = x /\ Len(stack'[t]) = n + 1 /\ (Holds(t)' <=> p \in Locked)
           /\ stack[t][n + 1] = Top(t) /\ Top(t).phase = q /\ Top(t).at = "request"
<1>1. PICK n : n = Len(stack[t]) - 1
  OBVIOUS
<1>2. PICK x : x = [Top(t) EXCEPT !.phase = p]
  OBVIOUS
<1>3. PICK r : r = <<x>>
  OBVIOUS
<1>4. /\ stack[t] # <<>> /\ Top(t).at = "request" /\ Top(t).phase = q
      /\ FrameOK(t, Top(t), next) /\ Top(t) \in Frames
  BY TopFrame DEF In
<1>5. n \in Nat /\ n + 1 = Len(stack[t]) /\ n \in 0 .. Len(stack[t]) /\ stack[t][n + 1] = Top(t)
  BY <1>1, <1>4, TopFrame
<1>6. x \in Frames /\ x.at = "request" /\ x.call = Top(t).call /\ x.left = Top(t).left /\ x.phase = p
  BY <1>2, <1>4, GoesOn
<1>7. Shape(t, n, r)
  BY <1>1, <1>2, <1>3, <1>4, <1>6, GoShape
<1>8. Len(r) = 1 /\ r[1] = x
  BY <1>3
<1>9. FrameOK(t, x, next')
  BY <1>4, <1>6 DEF FrameOK
<1>10. StackInv'
  <2>1. \A j \in 1 .. Len(r) : FrameOK(t, r[j], next') /\ (j < Len(r) => r[j].phase \in Waiting)
    BY <1>8, <1>9
  <2>2. next' >= next /\ next' \in Nat /\ Len(r) \in Nat
    BY <1>8
  <2>3. ~(n = Len(stack[t]))
    BY <1>5
  <2>4. QED
    BY <1>5, <1>7, <2>1, <2>2, <2>3, ShapeKeeps
<1>11. Top(t)' = x /\ (Holds(t)' <=> p \in Locked)
  <2>1. Len(r) \in Nat /\ Len(r) > 0 /\ r[Len(r)] = x
    BY <1>8
  <2>2. /\ stack'[t] # <<>> /\ Top(t)' = r[Len(r)]
        /\ Holds(t)' <=> r[Len(r)].phase \in Locked
    BY <1>5, <1>7, <2>1, NewTop
  <2>3. QED
    BY <1>6, <2>1, <2>2
<1>12. Len(stack'[t]) = n + 1
  BY <1>7, <1>8 DEF Shape
<1>13. QED
  BY <1>3, <1>4, <1>5, <1>6, <1>7, <1>8, <1>10, <1>11, <1>12

\* Taking the lock, and giving it back.
LEMMA Lock ==
  ASSUME NEW t \in Threads, MutexInv, mutex = None, mutex' = t, Holds(t)',
         \A u \in Threads : u # t => (Holds(u)' <=> Holds(u))
  PROVE  MutexInv'
  BY RequestsAssumption DEF MutexInv, RequestsAssumption

LEMMA Unlock ==
  ASSUME NEW t \in Threads, MutexInv, Holds(t), mutex' = None, ~Holds(t)',
         \A u \in Threads : u # t => (Holds(u)' <=> Holds(u))
  PROVE  MutexInv'
  BY RequestsAssumption DEF MutexInv, RequestsAssumption

Invs == Types /\ StackInv /\ MutexInv /\ GuardInv
Guarded == StackInv' /\ MutexInv' /\ GuardInv'

\* The request becomes the newest guard.
LEMMA CountGuards ==
  ASSUME NEW t \in Threads, Invs, Count(t)
  PROVE  Guarded
<1>1. /\ In(t, "request", "constructing") /\ mutex = None /\ mutex' = t /\ users' = users + 1
      /\ Go(t, "counted", <<>>) /\ curl' = curl /\ next' = next
  BY DEF Count, callVars
<1>2. StackInv /\ MutexInv /\ GuardInv /\ next \in Nat /\ users \in Nat
  BY RequestsAssumption DEF Invs, Types, RequestsAssumption
<1>3. PICK n, x, r :
           /\ n \in Nat /\ n + 1 = Len(stack[t]) /\ n \in 0 .. Len(stack[t])
           /\ r = <<x>> /\ Len(r) = 1 /\ r[1] = x
           /\ x.at = "request" /\ x.phase = "counted"
           /\ Shape(t, n, r) /\ StackInv'
           /\ Top(t)' = x /\ Len(stack'[t]) = n + 1 /\ Holds(t)'
           /\ stack[t][n + 1] = Top(t) /\ Top(t).phase = "constructing"
  BY <1>1, <1>2, Advance DEF RequestPhases, Locked
<1>4. \A u \in Threads : u # t => (Holds(u)' <=> Holds(u))
  BY <1>2, <1>3, NewTop
<1>5. MutexInv'
  BY <1>1, <1>2, <1>3, <1>4, Lock
<1>6. PICK G, H, e : G = Guards /\ H = Guards' /\ e = <<t, n + 1>>
  OBVIOUS
<1>7. e \notin G
  <2>1. ~IsGuard(stack[t][n + 1])
    BY <1>3 DEF IsGuard
  <2>2. QED
    BY <1>6, <2>1, GuardsAre
<1>8. H = G \cup {e}
  <2>1. IsGuard(r[1])
    BY <1>3 DEF IsGuard
  <2>2. \A u \in Threads : \A i :
           <<u, i>> \in H <=>
             \/ (u # t \/ i \in 1 .. n) /\ <<u, i>> \in G
             \/ u = t /\ i \in n + 1 .. n + 1 /\ IsGuard(r[i - n])
    <3>1. \A u \in Threads : \A i :
           <<u, i>> \in Guards' <=>
             \/ (u # t \/ i \in 1 .. n) /\ <<u, i>> \in Guards
             \/ u = t /\ i \in n + 1 .. n + Len(r) /\ IsGuard(r[i - n])
      <4>1. Len(r) \in Nat
        BY <1>3
      <4>2. QED
        BY <1>2, <1>3, <4>1, GuardsMove
    <3>2. QED
      BY <1>3, <1>6, <3>1
  <2>3. \A u \in Threads : \A i \in Nat : <<u, i>> \in G => i \in 1 .. Len(stack[u])
    BY <1>6, GuardsAre
  <2>4. ASSUME NEW u \in Threads, NEW i \in Nat
        PROVE  <<u, i>> \in H <=> <<u, i>> \in G \/ <<u, i>> = e
    <3>1. i \in n + 1 .. n + 1 <=> i = n + 1
      BY <1>3
    <3>2. i = n + 1 => i - n = 1
      BY <1>3
    <3>3. u = t /\ <<u, i>> \in G => i \in 1 .. n
      <4>1. i \in 1 .. n + 1 => i \in 1 .. n \/ i = n + 1
        BY <1>3
      <4>2. QED
        BY <1>3, <1>6, <1>7, <2>3, <4>1
    <3>4. QED
      BY <1>6, <2>1, <2>2, <3>1, <3>2, <3>3
  <2>5. (\A g \in G : \E u \in Threads : \E i \in Nat : g = <<u, i>>) /\ (\A g \in H : \E u \in Threads : \E i \in Nat : g = <<u, i>>)
    BY <1>6, GuardsAre, GuardsWillBe
  <2>6. e = <<t, n + 1>> /\ n + 1 \in Nat
    BY <1>3, <1>6
  <2>7. ASSUME NEW g, g \in H PROVE g \in G \cup {e}
    BY <2>4, <2>5, <2>7
  <2>8. ASSUME NEW g, g \in G \cup {e} PROVE g \in H
    BY <2>4, <2>5, <2>6, <2>8
  <2>9. QED
    BY <2>7, <2>8
<1>9. IsFiniteSet(G) /\ users = Cardinality(G) /\ (curl <=> G # {})
  BY <1>1, <1>2, <1>6 DEF GuardInv
<1>10. IsFiniteSet(H) /\ users' = Cardinality(H)
  BY <1>1, <1>7, <1>8, <1>9, FS_AddElement
<1>11. curl' <=> H # {e}
  BY <1>1, <1>7, <1>8, <1>9
<1>12. GuardInv'
  <2>1. ASSUME NEW u \in Threads, mutex' = u
        PROVE  /\ Top(u)'.phase = "counted" => (curl' <=> Guards' # {<<u, Len(stack'[u])>>})
               /\ Top(u)'.phase = "uncounted" => curl'
    <3>1. u = t
      BY <1>1, <2>1
    <3>2. Top(u)'.phase = "counted" /\ <<u, Len(stack'[u])>> = e
      BY <1>3, <1>6, <3>1
    <3>3. QED
      BY <1>6, <1>11, <3>2
  <2>2. mutex' # None
    BY <1>1, RequestsAssumption DEF RequestsAssumption
  <2>3. QED
    BY <1>6, <1>10, <2>1, <2>2 DEF GuardInv
<1>13. QED
  BY <1>3, <1>5, <1>12 DEF Guarded

\* Frame n + 1, the innermost, is replaced by one that is a guard just if it was.
LEMMA ReplacedGuard ==
  ASSUME NEW t \in Threads, StackInv, NEW n \in Nat, n + 1 = Len(stack[t]),
         NEW r, Len(r) = 1, Shape(t, n, r), IsGuard(r[1]) <=> IsGuard(stack[t][n + 1])
  PROVE  Guards' = Guards
<1>1. \A j \in 1 .. Len(r) : IsGuard(r[j]) => n + j <= Len(stack[t]) /\ IsGuard(stack[t][n + j])
  <2>1. \A j \in 1 .. Len(r) : j = 1
    OBVIOUS
  <2>2. n + 1 <= Len(stack[t])
    OBVIOUS
  <2>3. QED
    BY <2>1, <2>2
<1>2. \A i \in n + 1 .. Len(stack[t]) : IsGuard(stack[t][i]) => i - n <= Len(r) /\ IsGuard(r[i - n])
  <2>1. \A i \in n + 1 .. Len(stack[t]) : i = n + 1 /\ i - n = 1
    OBVIOUS
  <2>2. QED
    BY <2>1
<1>3. Len(r) \in Nat /\ n \in 0 .. Len(stack[t])
  OBVIOUS
<1>4. QED
  BY <1>1, <1>2, <1>3, SameGuards

\* The holder of the lock brings libcurl's state up to the count.
LEMMA InitializeGuards ==
  ASSUME NEW t \in Threads, Invs, Initialize(t)
  PROVE  Guarded
<1>1. /\ In(t, "request", "counted") /\ curl' = (curl \/ users = 1) /\ mutex' = None
      /\ Go(t, "guarded", <<>>) /\ users' = users /\ next' = next
  BY DEF Initialize, callVars
<1>2. StackInv /\ MutexInv /\ GuardInv /\ next \in Nat /\ users \in Nat /\ curl \in BOOLEAN
  BY RequestsAssumption DEF Invs, Types, RequestsAssumption
<1>3. PICK n, x, r :
           /\ n \in Nat /\ n + 1 = Len(stack[t]) /\ n \in 0 .. Len(stack[t])
           /\ r = <<x>> /\ Len(r) = 1 /\ r[1] = x
           /\ x.at = "request" /\ x.phase = "guarded"
           /\ Shape(t, n, r) /\ StackInv'
           /\ ~Holds(t)'
           /\ stack[t][n + 1] = Top(t) /\ Top(t).phase = "counted" /\ Top(t).at = "request"
  BY <1>1, <1>2, Advance DEF RequestPhases, Locked
<1>4. \A u \in Threads : u # t => (Holds(u)' <=> Holds(u))
  BY <1>2, <1>3, NewTop
<1>5. Holds(t) /\ mutex = t
  BY <1>1, <1>2 DEF In, Holds, Locked, MutexInv
<1>6. MutexInv'
  BY <1>1, <1>2, <1>3, <1>4, <1>5, Unlock
<1>7. IsGuard(r[1]) /\ IsGuard(stack[t][n + 1])
  BY <1>3 DEF IsGuard
<1>8. Guards' = Guards
  BY <1>2, <1>3, <1>7, ReplacedGuard
<1>9. PICK G, e : G = Guards /\ e = <<t, n + 1>>
  OBVIOUS
<1>10. e \in G
  <2>1. n + 1 \in 1 .. Len(stack[t])
    BY <1>3
  <2>2. QED
    BY <1>7, <1>9, <2>1, GuardsAre
<1>11. IsFiniteSet(G) /\ users = Cardinality(G) /\ (curl <=> G # {e})
  BY <1>2, <1>3, <1>5, <1>9 DEF GuardInv
<1>12. G = {e} => users = 1
  BY <1>11, FS_Singleton
<1>13. curl'
  BY <1>1, <1>2, <1>11, <1>12
<1>14. mutex' \notin Threads
  BY <1>1, RequestsAssumption DEF RequestsAssumption
<1>15. GuardInv'
  BY <1>1, <1>8, <1>9, <1>10, <1>11, <1>13, <1>14 DEF GuardInv
<1>16. QED
  BY <1>3, <1>6, <1>15 DEF Guarded

\* The request is no guard any more.
LEMMA UncountGuards ==
  ASSUME NEW t \in Threads, Invs, Uncount(t)
  PROVE  Guarded /\ users' \in Nat
<1>1. /\ In(t, "request", "done") /\ mutex = None /\ mutex' = t /\ users' = users - 1
      /\ Go(t, "uncounted", <<>>) /\ curl' = curl /\ next' = next
  BY DEF Uncount, callVars
<1>2. StackInv /\ MutexInv /\ GuardInv /\ next \in Nat /\ users \in Nat
  BY RequestsAssumption DEF Invs, Types, RequestsAssumption
<1>3. PICK n, x, r :
           /\ n \in Nat /\ n + 1 = Len(stack[t]) /\ n \in 0 .. Len(stack[t])
           /\ r = <<x>> /\ Len(r) = 1 /\ r[1] = x
           /\ x.at = "request" /\ x.phase = "uncounted"
           /\ Shape(t, n, r) /\ StackInv'
           /\ Top(t)' = x /\ Holds(t)'
           /\ stack[t][n + 1] = Top(t) /\ Top(t).phase = "done" /\ Top(t).at = "request"
  BY <1>1, <1>2, Advance DEF RequestPhases, Locked
<1>4. \A u \in Threads : u # t => (Holds(u)' <=> Holds(u))
  BY <1>2, <1>3, NewTop
<1>5. MutexInv'
  BY <1>1, <1>2, <1>3, <1>4, Lock
<1>6. PICK G, H, e : G = Guards /\ H = Guards' /\ e = <<t, n + 1>>
  OBVIOUS
<1>7. e \in G
  <2>1. IsGuard(stack[t][n + 1]) /\ n + 1 \in 1 .. Len(stack[t])
    BY <1>3 DEF IsGuard
  <2>2. QED
    BY <1>6, <2>1, GuardsAre
<1>8. H = G \ {e}
  <2>1. ~IsGuard(r[1])
    BY <1>3 DEF IsGuard
  <2>2. \A u \in Threads : \A i :
           <<u, i>> \in H <=>
             \/ (u # t \/ i \in 1 .. n) /\ <<u, i>> \in G
             \/ u = t /\ i \in n + 1 .. n + 1 /\ IsGuard(r[i - n])
    <3>1. Len(r) \in Nat
      BY <1>3
    <3>2. \A u \in Threads : \A i :
           <<u, i>> \in Guards' <=>
             \/ (u # t \/ i \in 1 .. n) /\ <<u, i>> \in Guards
             \/ u = t /\ i \in n + 1 .. n + Len(r) /\ IsGuard(r[i - n])
      BY <1>2, <1>3, <3>1, GuardsMove
    <3>3. QED
      BY <1>3, <1>6, <3>2
  <2>3. \A u \in Threads : \A i \in Nat : <<u, i>> \in G => i \in 1 .. Len(stack[u])
    BY <1>6, GuardsAre
  <2>4. ASSUME NEW u \in Threads, NEW i \in Nat
        PROVE  <<u, i>> \in H <=> <<u, i>> \in G /\ <<u, i>> # e
    <3>1. i \in n + 1 .. n + 1 => i - n = 1
      BY <1>3
    <3>2. u = t /\ <<u, i>> \in G => (i \in 1 .. n <=> i # n + 1)
      <4>1. i \in 1 .. n + 1 => (i \in 1 .. n <=> i # n + 1)
        BY <1>3
      <4>2. QED
        BY <1>3, <2>3, <4>1
    <3>3. QED
      BY <1>6, <2>1, <2>2, <3>1, <3>2
  <2>5. (\A g \in G : \E u \in Threads : \E i \in Nat : g = <<u, i>>) /\ (\A g \in H : \E u \in Threads : \E i \in Nat : g = <<u, i>>)
    BY <1>6, GuardsAre, GuardsWillBe
  <2>6. ASSUME NEW g, g \in H PROVE g \in G \ {e}
    BY <2>4, <2>5, <2>6
  <2>7. ASSUME NEW g, g \in G \ {e} PROVE g \in H
    BY <2>4, <2>5, <2>7
  <2>8. QED
    BY <2>6, <2>7
<1>9. IsFiniteSet(G) /\ users = Cardinality(G) /\ (curl <=> G # {})
  BY <1>1, <1>2, <1>6 DEF GuardInv
<1>10. IsFiniteSet(H) /\ users' = Cardinality(H)
  BY <1>1, <1>7, <1>8, <1>9, FS_RemoveElement
<1>11. curl'
  BY <1>1, <1>7, <1>9
<1>12. GuardInv'
  <2>1. ASSUME NEW u \in Threads, mutex' = u
        PROVE  /\ Top(u)'.phase = "counted" => (curl' <=> Guards' # {<<u, Len(stack'[u])>>})
               /\ Top(u)'.phase = "uncounted" => curl'
    <3>1. u = t
      BY <1>1, <2>1
    <3>2. Top(u)'.phase = "uncounted"
      BY <1>3, <3>1
    <3>3. QED
      BY <1>11, <3>2
  <2>2. mutex' # None
    BY <1>1, RequestsAssumption DEF RequestsAssumption
  <2>3. QED
    BY <1>6, <1>10, <2>1, <2>2 DEF GuardInv
<1>13. users' \in Nat
  BY <1>10, FS_CardinalityType
<1>14. QED
  BY <1>3, <1>5, <1>12, <1>13 DEF Guarded

\* The innermost frame of thread t goes.
LEMMA Popped ==
  ASSUME NEW t \in Threads, StackInv, next \in Nat, next' = next, stack[t] # <<>>, Pop(t)
  PROVE  \E n, r :
           /\ n \in Nat /\ n + 1 = Len(stack[t]) /\ n \in 0 .. Len(stack[t])
           /\ Len(r) = 0 /\ Shape(t, n, r) /\ StackInv'
           /\ ~Holds(t)' /\ (stack'[t] # <<>> => Top(t)'.phase \in Waiting)
           /\ ~IsGuard(Top(t)) => Guards' = Guards
<1>1. PICK n : n = Len(stack[t]) - 1
  OBVIOUS
<1>2. PICK r : r = <<>> /\ Len(r) = 0
  OBVIOUS
<1>3. n \in Nat /\ n + 1 = Len(stack[t]) /\ n \in 0 .. Len(stack[t]) /\ stack[t][n + 1] = Top(t)
  BY <1>1, TopFrame
<1>4. Shape(t, n, r)
  BY <1>1, <1>2, PopShape
<1>5. Len(r) \in Nat /\ n < Len(stack[t]) /\ next' >= next /\ next' \in Nat
  BY <1>2, <1>3
<1>6. StackInv'
  <2>1. \A j \in 1 .. Len(r) : FrameOK(t, r[j], next') /\ (j < Len(r) => r[j].phase \in Waiting)
    BY <1>2
  <2>2. ~(n = Len(stack[t]))
    BY <1>3
  <2>3. QED
    BY <1>3, <1>4, <1>5, <2>1, <2>2, ShapeKeeps
<1>7. ~Holds(t)' /\ (stack'[t] # <<>> => Top(t)'.phase \in Waiting)
  BY <1>2, <1>3, <1>4, <1>5, NewTop
<1>8. ASSUME ~IsGuard(Top(t)) PROVE Guards' = Guards
  <2>1. \A j \in 1 .. Len(r) : FALSE
    BY <1>2
  <2>2. \A i \in n + 1 .. Len(stack[t]) : ~IsGuard(stack[t][i])
    <3>1. \A i \in n + 1 .. Len(stack[t]) : i = n + 1
      BY <1>3
    <3>2. QED
      BY <1>3, <1>8, <3>1
  <2>3. QED
    BY <1>3, <1>4, <1>5, <2>1, <2>2, SameGuards
<1>9. QED
  BY <1>2, <1>3, <1>4, <1>6, <1>7, <1>8

\* The holder of the lock brings libcurl's state down to the count.
LEMMA CleanUpGuards ==
  ASSUME NEW t \in Threads, Invs, CleanUp(t)
  PROVE  Guarded
<1>1. /\ In(t, "request", "uncounted") /\ curl' = (curl /\ users # 0) /\ mutex' = None
      /\ Pop(t) /\ users' = users /\ next' = next
  BY DEF CleanUp, callVars
<1>2. StackInv /\ MutexInv /\ GuardInv /\ next \in Nat /\ users \in Nat /\ curl \in BOOLEAN
  BY RequestsAssumption DEF Invs, Types, RequestsAssumption
<1>3. stack[t] # <<>> /\ Top(t).at = "request" /\ Top(t).phase = "uncounted"
  BY <1>1 DEF In
<1>4. PICK n, r :
           /\ n \in Nat /\ n + 1 = Len(stack[t]) /\ n \in 0 .. Len(stack[t])
           /\ Len(r) = 0 /\ Shape(t, n, r) /\ StackInv' /\ ~Holds(t)'
           /\ ~IsGuard(Top(t)) => Guards' = Guards
  BY <1>1, <1>2, <1>3, Popped
<1>5. Guards' = Guards
  BY <1>3, <1>4 DEF IsGuard
<1>6. \A u \in Threads : u # t => (Holds(u)' <=> Holds(u))
  <2>1. Len(r) \in Nat
    BY <1>4
  <2>2. QED
    BY <1>2, <1>4, <2>1, NewTop
<1>7. Holds(t) /\ mutex = t
  BY <1>2, <1>3 DEF Holds, Locked, MutexInv
<1>8. MutexInv'
  BY <1>1, <1>2, <1>4, <1>6, <1>7, Unlock
<1>9. PICK G : G = Guards
  OBVIOUS
<1>10. IsFiniteSet(G) /\ users = Cardinality(G) /\ curl
  BY <1>2, <1>3, <1>7, <1>9 DEF GuardInv
<1>11. users # 0 <=> G # {}
  BY <1>10, FS_EmptySet
<1>12. mutex' \notin Threads
  BY <1>1, RequestsAssumption DEF RequestsAssumption
<1>13. GuardInv'
  BY <1>1, <1>5, <1>9, <1>10, <1>11, <1>12 DEF GuardInv
<1>14. QED
  BY <1>4, <1>8, <1>13 DEF Guarded

\* The innermost frame of thread t goes on to phase p, and y comes on top of it.
LEMMA GoneOn ==
  ASSUME NEW t \in Threads, StackInv, next \in Nat, next' = next, stack[t] # <<>>,
         NEW p, p \in Waiting, NEW y \in Frames, FrameOK(t, y, next), Go(t, p, <<y>>),
         \/ Top(t).at = "call" /\ p \in CallPhases
         \/ Top(t).at = "request" /\ p \in RequestPhases
  PROVE  \E n, x, r :
           /\ n \in Nat /\ n + 1 = Len(stack[t]) /\ n \in 0 .. Len(stack[t])
           /\ Len(r) = 2 /\ r[1] = x /\ r[2] = y
           /\ x.at = Top(t).at /\ x.call = Top(t).call /\ x.phase = p
           /\ Shape(t, n, r) /\ StackInv'
           /\ stack'[t] # <<>> /\ Top(t)' = y /\ (Holds(t)' <=> y.phase \in Locked)
           /\ stack[t][n + 1] = Top(t)
           /\ (IsGuard(x) <=> IsGuard(Top(t))) /\ ~IsGuard(y) => Guards' = Guards
<1>1. PICK n : n = Len(stack[t]) - 1
  OBVIOUS
<1>2. PICK x : x = [Top(t) EXCEPT !.phase = p]
  OBVIOUS
<1>3. PICK r : r = <<x, y>>
  OBVIOUS
<1>4. FrameOK(t, Top(t), next) /\ Top(t) \in Frames
  BY TopFrame
<1>5. n \in Nat /\ n + 1 = Len(stack[t]) /\ n \in 0 .. Len(stack[t]) /\ stack[t][n + 1] = Top(t)
  BY <1>1, TopFrame
<1>6. x \in Frames /\ x.at = Top(t).at /\ x.call = Top(t).call /\ x.left = Top(t).left /\ x.phase = p
  BY <1>2, <1>4, GoesOn
<1>7. Shape(t, n, r)
  BY <1>1, <1>2, <1>3, <1>6, GoOnShape
<1>8. Len(r) = 2 /\ r[1] = x /\ r[2] = y
  BY <1>3
<1>9. FrameOK(t, x, next')
  BY <1>4, <1>6 DEF FrameOK
<1>10. StackInv'
  <2>1. \A j \in 1 .. Len(r) : FrameOK(t, r[j], next') /\ (j < Len(r) => r[j].phase \in Waiting)
    <3>1. \A j \in 1 .. Len(r) : j = 1 \/ (j = 2 /\ ~(j < Len(r)))
      BY <1>8
    <3>2. QED
      BY <1>6, <1>8, <1>9, <3>1
  <2>2. next' >= next /\ next' \in Nat /\ Len(r) \in Nat
    BY <1>8
  <2>3. ~(n = Len(stack[t]))
    BY <1>5
  <2>4. QED
    BY <1>5, <1>7, <2>1, <2>2, <2>3, ShapeKeeps
<1>11. stack'[t] # <<>> /\ Top(t)' = y /\ (Holds(t)' <=> y.phase \in Locked)
  <2>1. Len(r) \in Nat /\ Len(r) > 0 /\ r[Len(r)] = y
    BY <1>8
  <2>2. /\ stack'[t] # <<>> /\ Top(t)' = r[Len(r)]
        /\ Holds(t)' <=> r[Len(r)].phase \in Locked
    BY <1>5, <1>7, <2>1, NewTop
  <2>3. QED
    BY <2>1, <2>2
<1>12. ASSUME IsGuard(x) <=> IsGuard(Top(t)), ~IsGuard(y) PROVE Guards' = Guards
  <2>1. \A j \in 1 .. Len(r) : IsGuard(r[j]) => n + j <= Len(stack[t]) /\ IsGuard(stack[t][n + j])
    <3>1. \A j \in 1 .. Len(r) : j = 1 \/ j = 2
      BY <1>8
    <3>2. n + 1 <= Len(stack[t])
      BY <1>5
    <3>3. QED
      BY <1>5, <1>8, <1>12, <3>1, <3>2
  <2>2. \A i \in n + 1 .. Len(stack[t]) : IsGuard(stack[t][i]) => i - n <= Len(r) /\ IsGuard(r[i - n])
    <3>1. \A i \in n + 1 .. Len(stack[t]) : i = n + 1 /\ i - n = 1 /\ i - n <= Len(r)
      BY <1>5, <1>8
    <3>2. QED
      BY <1>5, <1>8, <1>12, <3>1
  <2>3. Len(r) \in Nat
    BY <1>8
  <2>4. QED
    BY <1>5, <1>7, <2>1, <2>2, <2>3, SameGuards
<1>13. QED
  BY <1>5, <1>6, <1>7, <1>8, <1>10, <1>11, <1>12

\* Frame y comes on the stack of thread t.
LEMMA Pushed ==
  ASSUME NEW t \in Threads, StackInv, next \in Nat, next' \in Nat, next' >= next,
         stack[t] # <<>> => Top(t).phase \in Waiting,
         NEW y \in Frames, FrameOK(t, y, next'), stack' = [stack EXCEPT ![t] = Append(stack[t], y)]
  PROVE  \E n, r :
           /\ n \in Nat /\ n = Len(stack[t]) /\ n \in 0 .. Len(stack[t])
           /\ Len(r) = 1 /\ r[1] = y /\ Shape(t, n, r) /\ StackInv'
           /\ stack'[t] # <<>> /\ Top(t)' = y /\ (Holds(t)' <=> y.phase \in Locked)
           /\ ~IsGuard(y) => Guards' = Guards
<1>1. PICK n : n = Len(stack[t])
  OBVIOUS
<1>2. PICK r : r = <<y>>
  OBVIOUS
<1>3. stack[t] \in Seq(Frames) /\ n \in Nat /\ n \in 0 .. Len(stack[t])
  BY <1>1 DEF StackInv
<1>4. Len(r) = 1 /\ r[1] = y
  BY <1>2
<1>5. Shape(t, n, r)
  BY <1>1, <1>2, PushShape
<1>6. StackInv'
  <2>1. \A j \in 1 .. Len(r) : FrameOK(t, r[j], next') /\ (j < Len(r) => r[j].phase \in Waiting)
    <3>1. \A j \in 1 .. Len(r) : j = 1 /\ ~(j < Len(r))
      BY <1>4
    <3>2. QED
      BY <1>4, <3>1
  <2>2. n > 0 => stack[t][n].phase \in Waiting
    <3>1. n > 0 => stack[t] # <<>>
      BY <1>1
    <3>2. QED
      BY <1>1, <3>1 DEF Top
  <2>3. Len(r) \in Nat
    BY <1>4
  <2>4. QED
    BY <1>3, <1>5, <2>1, <2>2, <2>3, ShapeKeeps
<1>7. stack'[t] # <<>> /\ Top(t)' = y /\ (Holds(t)' <=> y.phase \in Locked)
  <2>1. Len(r) \in Nat /\ Len(r) > 0 /\ r[Len(r)] = y
    BY <1>4
  <2>2. /\ stack'[t] # <<>> /\ Top(t)' = r[Len(r)]
        /\ Holds(t)' <=> r[Len(r)].phase \in Locked
    BY <1>3, <1>5, <2>1, NewTop
  <2>3. QED
    BY <2>1, <2>2
<1>8. ASSUME ~IsGuard(y) PROVE Guards' = Guards
  <2>1. \A j \in 1 .. Len(r) : ~IsGuard(r[j])
    BY <1>4, <1>8
  <2>2. \A i \in n + 1 .. Len(stack[t]) : FALSE
    BY <1>1, <1>3
  <2>3. Len(r) \in Nat
    BY <1>4
  <2>4. QED
    BY <1>3, <1>5, <2>1, <2>2, <2>3, SameGuards
<1>9. QED
  BY <1>1, <1>3, <1>4, <1>5, <1>6, <1>7, <1>8
-----------------------------------------------------------------------------
(* The app's calls                                                         *)

\* Frames of the kinds A stay where they are if the new ones replace their like.
LEMMA FramesKept ==
  ASSUME NEW t \in Threads, StackInv, NEW n \in 0 .. Len(stack[t]), NEW r, Shape(t, n, r),
         Len(r) \in Nat, NEW A,
         \A j \in 1 .. Len(r) : r[j].at \in A =>
           /\ n + j \in 1 .. Len(stack[t])
           /\ r[j].at = stack[t][n + j].at /\ r[j].call = stack[t][n + j].call
  PROVE  \A i \in 1 .. Len(stack'[t]) : stack'[t][i].at \in A =>
           /\ i \in 1 .. Len(stack[t])
           /\ stack'[t][i].at = stack[t][i].at /\ stack'[t][i].call = stack[t][i].call
<1>1. PICK s : s = stack'[t]
  OBVIOUS
<1>2. /\ Len(s) = n + Len(r)
      /\ \A i \in 1 .. n : s[i] = stack[t][i]
      /\ \A j \in 1 .. Len(r) : s[n + j] = r[j]
  BY <1>1 DEF Shape
<1>3. Len(stack[t]) \in Nat
  BY DEF StackInv
<1>4. ASSUME NEW i \in 1 .. Len(s), s[i].at \in A
      PROVE  i \in 1 .. Len(stack[t]) /\ s[i].at = stack[t][i].at /\ s[i].call = stack[t][i].call
  <2>1. CASE i \in 1 .. n
    BY <1>2, <1>3, <2>1
  <2>2. CASE i \notin 1 .. n
    <3>1. PICK j : j = i - n
      OBVIOUS
    <3>2. j \in 1 .. Len(r) /\ i = n + j
      BY <1>2, <2>2, <3>1
    <3>3. s[i] = r[j]
      BY <1>2, <3>2
    <3>4. QED
      BY <1>4, <3>2, <3>3
  <2>3. QED
    BY <2>1, <2>2
<1>5. QED
  BY <1>1, <1>4

\* A step that leaves the call at work what it is.
LEMMA SameCall ==
  ASSUME NEW t \in Threads, StackInv, CallInv, OneFrame, UNCHANGED callVars,
         NEW n \in 0 .. Len(stack[t]), NEW r, Shape(t, n, r), Len(r) \in Nat,
         t = Lua => /\ Live' <=> Live
                    /\ Live => Top(Lua)'.call = Top(Lua).call
                    /\ \A j \in 1 .. Len(r) : r[j].at \in {"call", "callback"} =>
                         /\ n + j \in 1 .. Len(stack[t])
                         /\ r[j].at = stack[t][n + j].at /\ r[j].call = stack[t][n + j].call
  PROVE  CallInv' /\ OneFrame'
<1>1. next' = next /\ registry' = registry /\ answers' = answers /\ state' = state
  BY DEF callVars
<1>2. /\ Live' <=> Live
      /\ Live => Top(Lua)'.call = Top(Lua).call
      /\ \A i \in 1 .. Len(stack'[Lua]) : stack'[Lua][i].at \in {"call", "callback"} =>
           /\ i \in 1 .. Len(stack[Lua])
           /\ stack'[Lua][i].at = stack[Lua][i].at /\ stack'[Lua][i].call = stack[Lua][i].call
  <2>1. CASE t = Lua
    <3>1. PICK A : A = {"call", "callback"}
      OBVIOUS
    <3>2. \A j \in 1 .. Len(r) : r[j].at \in A =>
            /\ n + j \in 1 .. Len(stack[t])
            /\ r[j].at = stack[t][n + j].at /\ r[j].call = stack[t][n + j].call
      BY <2>1, <3>1
    <3>3. \A i \in 1 .. Len(stack'[t]) : stack'[t][i].at \in A =>
            /\ i \in 1 .. Len(stack[t])
            /\ stack'[t][i].at = stack[t][i].at /\ stack'[t][i].call = stack[t][i].call
      BY <3>2, FramesKept
    <3>4. QED
      BY <2>1, <3>1, <3>3
  <2>2. CASE t # Lua
    <3>1. stack'[Lua] = stack[Lua]
      BY <2>2 DEF Shape, Threads
    <3>2. Live' <=> Live
      BY <3>1 DEF Live, Top
    <3>3. Top(Lua)' = Top(Lua)
      BY <3>1 DEF Top
    <3>4. QED
      BY <3>1, <3>2, <3>3
  <2>3. QED
    BY <2>1, <2>2
<1>3. OneFrame'
  BY <1>2 DEF OneFrame
<1>4. CallInv'
  <2>1. ASSUME NEW c \in Calls, NEW i \in 1 .. Len(stack'[Lua]), stack'[Lua][i].call = c
        PROVE  /\ stack'[Lua][i].at = "call" => state[c] = "running"
               /\ stack'[Lua][i].at = "callback" => c \in registry /\ answers[c] = 1
    BY <1>2, <2>1 DEF CallInv
  <2>2. ASSUME NEW c \in Calls, Live', Top(Lua)'.call = c
        PROVE  state[c] = "running" /\ answers[c] = 0 /\ c \in registry
    BY <1>2, <2>2 DEF CallInv
  <2>3. ASSUME NEW c \in Calls, state[c] = "running", answers[c] = 0
        PROVE  Live' /\ Top(Lua)'.call = c
    BY <1>2, <2>3 DEF CallInv
  <2>4. QED
    BY <1>1, <2>1, <2>2, <2>3 DEF CallInv
<1>5. QED
  BY <1>3, <1>4

\* The phases in which a call is at work.
AtWork == (CallPhases \cup RequestPhases) \ (Waiting \cup {"uncounted"})

All == Invs /\ CallInv /\ OneFrame
Kept == Guarded /\ CallInv' /\ OneFrame'

\* A request goes on to its next phase, at work before and after, or neither.
LEMMA AdvanceCall ==
  ASSUME NEW t \in Threads, StackInv, CallInv, OneFrame, next \in Nat, UNCHANGED callVars,
         NEW q \in RequestPhases, In(t, "request", q), NEW p \in RequestPhases, Go(t, p, <<>>),
         t = Lua => (p \in AtWork <=> q \in AtWork)
  PROVE  CallInv' /\ OneFrame'
<1>1. next' = next
  BY DEF callVars
<1>2. PICK n, x, r :
           /\ n \in Nat /\ n + 1 = Len(stack[t]) /\ n \in 0 .. Len(stack[t])
           /\ Len(r) = 1 /\ r[1] = x
           /\ x.at = "request" /\ x.call = Top(t).call /\ x.phase = p
           /\ Shape(t, n, r) /\ Top(t)' = x /\ Len(stack'[t]) = n + 1
           /\ Top(t).phase = q
  BY <1>1, Advance
<1>3. Len(r) \in Nat
  BY <1>2
<1>4. ASSUME t = Lua PROVE (Live' <=> Live) /\ Top(Lua)'.call = Top(Lua).call
  <2>1. stack[t] # <<>>
    BY DEF In
  <2>2. stack'[t] # <<>>
    BY <1>2
  <2>3. Live <=> q \in AtWork
    BY <1>2, <1>4, <2>1 DEF Live, AtWork, RequestPhases
  <2>4. Live' <=> p \in AtWork
    BY <1>2, <1>4, <2>2 DEF Live, AtWork, RequestPhases
  <2>5. QED
    BY <1>2, <1>4, <2>3, <2>4
<1>5. \A j \in 1 .. Len(r) : r[j].at \notin {"call", "callback"}
  <2>1. \A j \in 1 .. Len(r) : j = 1
    BY <1>2
  <2>2. QED
    BY <1>2, <2>1
<1>6. QED
  BY <1>2, <1>3, <1>4, <1>5, SameCall
-----------------------------------------------------------------------------
(* The steps of a request                                                  *)

\* The parts of the invariant, and the types used most.
LEMMA Given ==
  ASSUME All
  PROVE  /\ Invs /\ StackInv /\ MutexInv /\ GuardInv /\ CallInv /\ OneFrame
         /\ next \in Nat /\ users \in Nat /\ curl \in BOOLEAN
         /\ MaxCalls \in Nat /\ MaxRefreshes \in Nat
  BY RequestsAssumption DEF All, Invs, Types, RequestsAssumption

\* CurlGlobalGuard() and its destructor: the lock, the count, libcurl's state.
LEMMA CountKeeps ==
  ASSUME All, NEW t \in Threads, Count(t)
  PROVE  Types' /\ Kept
<1>1. Guarded
  BY Given, CountGuards
<1>2. CallInv' /\ OneFrame'
  BY Given, AdvanceCall DEF Count, callVars, RequestPhases, CallPhases, AtWork, Waiting
<1>3. Types'
  BY Given DEF All, Invs, Types, Count, callVars
<1>4. QED
  BY <1>1, <1>2, <1>3 DEF Kept

LEMMA InitializeKeeps ==
  ASSUME All, NEW t \in Threads, Initialize(t)
  PROVE  Types' /\ Kept
<1>1. Guarded
  BY Given, InitializeGuards
<1>2. CallInv' /\ OneFrame'
  BY Given, AdvanceCall DEF Initialize, callVars, RequestPhases, CallPhases, AtWork, Waiting
<1>3. Types'
  BY Given DEF All, Invs, Types, Initialize, callVars
<1>4. QED
  BY <1>1, <1>2, <1>3 DEF Kept

LEMMA UncountKeeps ==
  ASSUME All, NEW t \in Threads, Uncount(t)
  PROVE  Types' /\ Kept
<1>1. Guarded /\ users' \in Nat
  BY Given, UncountGuards
<1>2. CallInv' /\ OneFrame'
  BY Given, AdvanceCall DEF Uncount, callVars, RequestPhases, CallPhases, AtWork, Waiting
<1>3. Types'
  BY <1>1, Given DEF All, Invs, Types, Uncount, callVars
<1>4. QED
  BY <1>1, <1>2, <1>3 DEF Kept

\* A request that holds no lock goes on, a guard before and after.
LEMMA GuardGoesOn ==
  ASSUME All, NEW t \in Threads, NEW q \in {"guarded", "ok", "error"}, In(t, "request", q),
         NEW p \in {"ok", "error", "done"}, Go(t, p, <<>>),
         UNCHANGED <<curlVars, callVars, refreshes>>,
         t = Lua => (p \in AtWork <=> q \in AtWork)
  PROVE  Types' /\ Kept
<1>1. next' = next /\ UNCHANGED curlVars /\ UNCHANGED callVars
  BY DEF callVars
<1>2. q \in RequestPhases /\ p \in RequestPhases /\ p \notin Locked /\ q \notin Locked
  BY DEF RequestPhases, Locked
<1>3. PICK n, x, r :
           /\ n \in Nat /\ n + 1 = Len(stack[t]) /\ n \in 0 .. Len(stack[t])
           /\ Len(r) = 1 /\ r[1] = x
           /\ x.at = "request" /\ x.phase = p
           /\ Shape(t, n, r) /\ StackInv' /\ ~Holds(t)'
           /\ stack[t][n + 1] = Top(t) /\ Top(t).phase = q /\ Top(t).at = "request"
  BY <1>1, <1>2, Given, Advance
<1>4. IsGuard(r[1]) /\ IsGuard(stack[t][n + 1])
  BY <1>3 DEF IsGuard
<1>5. Guards' = Guards
  BY <1>3, <1>4, Given, ReplacedGuard
<1>6. ~Holds(t) /\ Len(r) \in Nat
  BY <1>2, <1>3 DEF Holds
<1>7. MutexInv' /\ GuardInv'
  BY <1>1, <1>3, <1>5, <1>6, Given, OutsideLock
<1>8. CallInv' /\ OneFrame'
  BY <1>1, <1>2, Given, AdvanceCall
<1>9. Types'
  BY Given DEF All, Invs, Types, curlVars, callVars
<1>10. QED
  BY <1>3, <1>7, <1>8, <1>9 DEF Kept, Guarded

\* The request is made: only the phase changes.
LEMMA PerformKeeps ==
  ASSUME All, NEW t \in Threads, Perform(t)
  PROVE  Types' /\ Kept
<1>1. PICK p \in {"ok", "error"} : Go(t, p, <<>>)
  BY DEF Perform
<1>2. In(t, "request", "guarded") /\ UNCHANGED <<curlVars, callVars, refreshes>>
  BY DEF Perform
<1>3. p \in AtWork /\ "guarded" \in AtWork
  BY DEF AtWork, RequestPhases, CallPhases, Waiting
<1>4. QED
  BY <1>1, <1>2, <1>3, GuardGoesOn

\* A request of a call is a request of Lua's thread, and no other.
LEMMA Whose ==
  ASSUME All, NEW t \in Threads, stack[t] # <<>>
  PROVE  /\ t = Lua <=> Top(t).call # 0
         /\ t = Lua => Top(t).call \in Calls /\ Top(t).call < next
<1>1. FrameOK(t, Top(t), next)
  BY Given, TopFrame
<1>2. 0 \notin Calls
  BY DEF Calls
<1>3. QED
  BY <1>1, <1>2 DEF FrameOK

\* A refresh ends without a callback.
LEMMA RefreshedKeeps ==
  ASSUME All, NEW t \in Threads, Refreshed(t)
  PROVE  Types' /\ Kept
<1>1. PICK q \in {"ok", "error"} : In(t, "request", q)
  BY DEF Refreshed, Completed
<1>2. Go(t, "done", <<>>) /\ UNCHANGED <<curlVars, callVars, refreshes>> /\ Top(t).call = 0
  BY DEF Refreshed
<1>3. t # Lua
  BY <1>1, <1>2, Whose DEF In
<1>4. QED
  BY <1>1, <1>2, <1>3, GuardGoesOn

\* A frame that is not at work and is no call's goes.
LEMMA PoppedCall ==
  ASSUME NEW t \in Threads, StackInv, CallInv, OneFrame, UNCHANGED callVars, stack[t] # <<>>,
         NEW n \in Nat, NEW r, n + 1 = Len(stack[t]), Len(r) = 0, Shape(t, n, r),
         stack'[t] # <<>> => Top(t)'.phase \in Waiting,
         Top(t).phase \in Waiting \cup {"uncounted"}
  PROVE  CallInv' /\ OneFrame'
<1>1. n \in 0 .. Len(stack[t]) /\ Len(r) \in Nat /\ \A j \in 1 .. Len(r) : FALSE
  OBVIOUS
<1>2. t = Lua => ~Live /\ ~Live'
  BY DEF Live
<1>3. QED
  BY <1>1, <1>2, SameCall

\* The destructor's end: the request leaves the stack.
LEMMA CleanUpKeeps ==
  ASSUME All, NEW t \in Threads, CleanUp(t)
  PROVE  Types' /\ Kept
<1>1. Guarded
  BY Given, CleanUpGuards
<1>2. stack[t] # <<>> /\ Top(t).phase = "uncounted" /\ Pop(t) /\ next' = next /\ UNCHANGED callVars
  BY DEF CleanUp, In, callVars
<1>3. PICK n, r :
           /\ n \in Nat /\ n + 1 = Len(stack[t]) /\ Len(r) = 0 /\ Shape(t, n, r)
           /\ (stack'[t] # <<>> => Top(t)'.phase \in Waiting)
  BY <1>2, Given, Popped
<1>4. CallInv' /\ OneFrame'
  BY <1>2, <1>3, Given, PoppedCall
<1>5. Types'
  BY Given DEF All, Invs, Types, CleanUp, callVars
<1>6. QED
  BY <1>1, <1>4, <1>5 DEF Kept

\* A call at work sends a request.
LEMMA Sends ==
  ASSUME All, NEW t \in Threads, stack[t] # <<>>, NEW p,
         \/ Top(t).at = "call" /\ Top(t).phase = "start" /\ p = "sent"
         \/ Top(t).at = "request" /\ Top(t).phase = "ok" /\ p = "done",
         NEW m \in Nat \ {0}, Go(t, p, <<Request(Top(t).call, m)>>),
         UNCHANGED <<curlVars, callVars, refreshes>>
  PROVE  Types' /\ Kept
<1>1. next' = next /\ UNCHANGED curlVars /\ UNCHANGED callVars
  BY DEF callVars
<1>2. PICK y : y = Request(Top(t).call, m)
  OBVIOUS
<1>3. FrameOK(t, Top(t), next) /\ Top(t).call \in Calls \cup {0}
  BY Given, TopFrame, FrameFacts
<1>4. y.at = "request" /\ y.call = Top(t).call /\ y.left = m /\ y.phase = "constructing"
  BY <1>2 DEF Request
<1>5. y \in Frames
  BY <1>2, <1>3 DEF Request, Frames, RequestPhases
<1>6. FrameOK(t, y, next)
  BY <1>3, <1>4, <1>5 DEF FrameOK
<1>7. p \in Waiting
  BY DEF Waiting
<1>8. \/ Top(t).at = "call" /\ p \in CallPhases
      \/ Top(t).at = "request" /\ p \in RequestPhases
  <2>1. "sent" \in CallPhases /\ "done" \in RequestPhases
    BY DEF CallPhases, RequestPhases
  <2>2. QED
    BY <2>1
<1>9. Go(t, p, <<y>>)
  BY <1>2
<1>10. PICK n, x, r :
           /\ n \in Nat /\ n + 1 = Len(stack[t]) /\ n \in 0 .. Len(stack[t])
           /\ Len(r) = 2 /\ r[1] = x /\ r[2] = y
           /\ x.at = Top(t).at /\ x.call = Top(t).call /\ x.phase = p
           /\ Shape(t, n, r) /\ StackInv'
           /\ stack'[t] # <<>> /\ Top(t)' = y /\ (Holds(t)' <=> y.phase \in Locked)
           /\ stack[t][n + 1] = Top(t)
           /\ (IsGuard(x) <=> IsGuard(Top(t))) /\ ~IsGuard(y) => Guards' = Guards
  BY <1>1, <1>5, <1>6, <1>7, <1>8, <1>9, Given, GoneOn
<1>11. Guards' = Guards
  <2>1. IsGuard(x) <=> IsGuard(Top(t))
    BY <1>10 DEF IsGuard
  <2>2. ~IsGuard(y)
    BY <1>4 DEF IsGuard
  <2>3. QED
    BY <1>10, <2>1, <2>2
<1>12. ~Holds(t) /\ ~Holds(t)' /\ Len(r) \in Nat
  BY <1>4, <1>10 DEF Holds, Locked
<1>13. MutexInv' /\ GuardInv'
  BY <1>1, <1>10, <1>11, <1>12, Given, OutsideLock
<1>14. CallInv' /\ OneFrame'
  <2>1. t = Lua => Live /\ Live' /\ Top(Lua)'.call = Top(Lua).call
    BY <1>4, <1>10 DEF Live, Waiting
  <2>2. \A j \in 1 .. Len(r) : r[j].at \in {"call", "callback"} =>
          /\ n + j \in 1 .. Len(stack[t])
          /\ r[j].at = stack[t][n + j].at /\ r[j].call = stack[t][n + j].call
    <3>1. \A j \in 1 .. Len(r) : j = 1 \/ j = 2
      BY <1>10
    <3>2. n + 1 \in 1 .. Len(stack[t])
      BY <1>10
    <3>3. QED
      BY <1>4, <1>10, <3>1, <3>2
  <2>3. QED
    BY <1>1, <1>10, <1>12, <2>1, <2>2, Given, SameCall
<1>15. Types'
  BY Given DEF All, Invs, Types, curlVars, callVars
<1>16. QED
  BY <1>10, <1>13, <1>14, <1>15 DEF Kept, Guarded

\* A call sends its first request, and a request the next one.
LEMMA SendKeeps ==
  ASSUME All, Send
  PROVE  Types' /\ Kept
<1>1. Lua \in Threads
  BY DEF Threads
<1>2. /\ stack[Lua] # <<>> /\ Top(Lua).at = "call" /\ Top(Lua).phase = "start"
      /\ Go(Lua, "sent", <<Request(Top(Lua).call, Top(Lua).left)>>)
      /\ UNCHANGED <<curlVars, callVars, refreshes>>
  BY DEF Send, In
<1>3. FrameOK(Lua, Top(Lua), next) /\ Top(Lua).left \in Nat
  BY <1>1, <1>2, Given, TopFrame, FrameFacts
<1>4. Top(Lua).left \in Nat \ {0}
  BY <1>2, <1>3 DEF FrameOK
<1>5. QED
  BY <1>1, <1>2, <1>4, Sends

LEMMA SendNextKeeps ==
  ASSUME All, NEW t \in Threads, SendNext(t)
  PROVE  Types' /\ Kept
<1>1. /\ stack[t] # <<>> /\ Top(t).at = "request" /\ Top(t).phase = "ok" /\ Top(t).left # 1
      /\ Go(t, "done", <<Request(Top(t).call, Top(t).left - 1)>>)
      /\ UNCHANGED <<curlVars, callVars, refreshes>>
  BY DEF SendNext, In, Last
<1>2. FrameOK(t, Top(t), next) /\ Top(t).left \in Nat
  BY <1>1, Given, TopFrame, FrameFacts
<1>3. Top(t).left - 1 \in Nat \ {0}
  BY <1>1, <1>2 DEF FrameOK
<1>4. QED
  BY <1>1, <1>3, Sends

\* The answer: the call at work is answered once, and its callback runs.
LEMMA AnswerKeeps ==
  ASSUME All, NEW t \in Threads, Answer(t)
  PROVE  Types' /\ Kept
<1>1. PICK c : c = Top(t).call
  OBVIOUS
<1>2. PICK y : y = Callback(c)
  OBVIOUS
<1>3. /\ stack[t] # <<>> /\ Top(t).at = "request" /\ Top(t).phase \in {"ok", "error"}
      /\ c # 0 /\ answers' = [answers EXCEPT ![c] = @ + 1] /\ Go(t, "done", <<y>>)
      /\ UNCHANGED curlVars /\ next' = next /\ registry' = registry /\ state' = state
      /\ refreshes' = refreshes
  BY <1>1, <1>2 DEF Answer, Completed, In
<1>4. t = Lua /\ c \in Calls /\ c < next
  BY <1>1, <1>3, Whose
<1>5. Live
  BY <1>3, <1>4 DEF Live, Waiting
<1>6. state[c] = "running" /\ answers[c] = 0 /\ c \in registry
  BY <1>1, <1>4, <1>5, Given DEF CallInv
<1>7. y \in Frames /\ y.at = "callback" /\ y.call = c /\ y.phase = "running"
  BY <1>2, <1>4 DEF Callback, Frames
<1>8. FrameOK(t, y, next)
  BY <1>4, <1>7 DEF FrameOK
<1>9. "done" \in Waiting /\ "done" \in RequestPhases
  BY DEF Waiting, RequestPhases
<1>10. PICK n, x, r :
           /\ n \in Nat /\ n + 1 = Len(stack[t]) /\ n \in 0 .. Len(stack[t])
           /\ Len(r) = 2 /\ r[1] = x /\ r[2] = y
           /\ x.at = Top(t).at /\ x.call = Top(t).call /\ x.phase = "done"
           /\ Shape(t, n, r) /\ StackInv'
           /\ stack'[t] # <<>> /\ Top(t)' = y /\ (Holds(t)' <=> y.phase \in Locked)
           /\ stack[t][n + 1] = Top(t)
           /\ (IsGuard(x) <=> IsGuard(Top(t))) /\ ~IsGuard(y) => Guards' = Guards
  BY <1>3, <1>7, <1>8, <1>9, Given, GoneOn
<1>11. Guards' = Guards
  <2>1. IsGuard(x) /\ IsGuard(Top(t)) /\ ~IsGuard(y)
    BY <1>3, <1>7, <1>10 DEF IsGuard
  <2>2. QED
    BY <1>10, <2>1
<1>12. ~Holds(t) /\ ~Holds(t)' /\ Len(r) \in Nat
  BY <1>3, <1>7, <1>10 DEF Holds, Locked
<1>13. MutexInv' /\ GuardInv'
  BY <1>3, <1>10, <1>11, <1>12, Given, OutsideLock
<1>14. answers \in [Calls -> 0 .. 1] /\ answers' \in [Calls -> 0 .. 1] /\ answers'[c] = 1
       /\ \A d \in Calls : d # c => answers'[d] = answers[d]
  BY <1>3, <1>4, <1>6 DEF All, Invs, Types
<1>15. Types'
  BY <1>3, <1>14, Given DEF All, Invs, Types, curlVars
<1>16. ~Live'
  BY <1>4, <1>7, <1>10 DEF Live, Waiting
<1>17. \A i \in 1 .. Len(stack'[t]) :
         \/ stack'[t][i].at = "callback" /\ stack'[t][i].call = c
         \/ stack'[t][i].at = "request"
         \/ /\ i \in 1 .. Len(stack[t])
            /\ stack'[t][i].at = stack[t][i].at /\ stack'[t][i].call = stack[t][i].call
  <2>1. PICK s : s = stack'[t]
    OBVIOUS
  <2>2. /\ Len(s) = n + Len(r)
        /\ \A i \in 1 .. n : s[i] = stack[t][i]
        /\ \A j \in 1 .. Len(r) : s[n + j] = r[j]
    BY <1>10, <2>1 DEF Shape
  <2>3. s[n + 1] = x /\ s[n + 2] = y /\ Len(s) = n + 2
    BY <1>10, <2>2
  <2>4. \A i \in 1 .. n + 2 : i \in 1 .. n \/ i = n + 1 \/ i = n + 2
    BY <1>10
  <2>5. \A i \in 1 .. n : i \in 1 .. Len(stack[t])
    BY <1>10
  <2>6. QED
    BY <1>3, <1>7, <1>10, <2>1, <2>2, <2>3, <2>4, <2>5
<1>18. OneFrame'
  BY <1>4, <1>17, Given, ZenonT(40) DEF OneFrame
<1>19. CallInv'
  <2>1. ASSUME NEW d \in Calls, NEW i \in 1 .. Len(stack'[Lua]), stack'[Lua][i].call = d
        PROVE  /\ stack'[Lua][i].at = "call" => state[d] = "running"
               /\ stack'[Lua][i].at = "callback" => d \in registry /\ answers'[d] = 1
    <3>1. CASE stack'[Lua][i].at = "callback" /\ d = c
      BY <1>6, <1>14, <3>1
    <3>2. CASE stack'[Lua][i].at = "request"
      BY <3>2
    <3>3. CASE /\ i \in 1 .. Len(stack[Lua])
               /\ stack'[Lua][i].at = stack[Lua][i].at /\ stack[Lua][i].call = d
      <4>1. /\ stack[Lua][i].at = "call" => state[d] = "running"
            /\ stack[Lua][i].at = "callback" => d \in registry /\ answers[d] = 1
        BY <3>3, Given DEF CallInv
      <4>2. answers[d] = 1 => answers'[d] = 1
        BY <1>6, <1>14
      <4>3. QED
        BY <3>3, <4>1, <4>2
    <3>4. QED
      BY <1>4, <1>17, <2>1, <3>1, <3>2, <3>3
  <2>2. ASSUME NEW d \in Calls, state[d] = "running" PROVE answers'[d] # 0
    BY <1>1, <1>4, <1>14, <2>2, Given DEF CallInv
  <2>3. ASSUME NEW d \in Calls
        PROVE  /\ state[d] \in {"unused", "raised"} => answers'[d] = 0
               /\ state[d] = "returned" => answers'[d] = 1
    BY <1>6, <1>14, Given DEF CallInv
  <2>4. ASSUME NEW d \in Calls
        PROVE  /\ d >= next <=> state[d] = "unused"
               /\ d \in registry => state[d] = "running"
    BY Given DEF CallInv
  <2>5. QED
    BY <1>3, <1>16, <2>1, <2>2, <2>3, <2>4 DEF CallInv
<1>20. QED
  BY <1>10, <1>13, <1>15, <1>18, <1>19 DEF Kept, Guarded

\* A thread of the core starts a refresh.
LEMMA RefreshKeeps ==
  ASSUME All, NEW t \in Others, Refresh(t)
  PROVE  Types' /\ Kept
<1>1. t \in Threads /\ t # Lua
  BY RequestsAssumption DEF Threads, RequestsAssumption
<1>2. PICK y : y = Request(0, 1)
  OBVIOUS
<1>3. /\ stack[t] = <<>> /\ refreshes < MaxRefreshes /\ refreshes' = refreshes + 1
      /\ stack' = [stack EXCEPT ![t] = <<y>>] /\ UNCHANGED curlVars /\ UNCHANGED callVars
      /\ next' = next
  BY <1>2 DEF Refresh, callVars
<1>4. y.at = "request" /\ y.call = 0 /\ y.left = 1 /\ y.phase = "constructing" /\ y \in Frames
  BY <1>2 DEF Request, Frames, RequestPhases
<1>5. FrameOK(t, y, next')
  BY <1>1, <1>4 DEF FrameOK
<1>6. stack' = [stack EXCEPT ![t] = Append(stack[t], y)]
  <2>1. Append(stack[t], y) = <<y>>
    BY <1>3, <1>4
  <2>2. QED
    BY <1>3, <2>1
<1>7. PICK n, r :
           /\ n = Len(stack[t]) /\ n \in 0 .. Len(stack[t])
           /\ Len(r) = 1 /\ r[1] = y /\ Shape(t, n, r) /\ StackInv'
           /\ stack'[t] # <<>> /\ Top(t)' = y /\ (Holds(t)' <=> y.phase \in Locked)
           /\ ~IsGuard(y) => Guards' = Guards
  <2>1. next' >= next /\ next' \in Nat
    BY <1>3, Given
  <2>2. QED
    BY <1>1, <1>3, <1>4, <1>5, <1>6, <2>1, Given, Pushed
<1>8. Guards' = Guards /\ ~Holds(t) /\ ~Holds(t)' /\ Len(r) \in Nat
  BY <1>3, <1>4, <1>7 DEF IsGuard, Holds, Locked
<1>9. MutexInv' /\ GuardInv'
  BY <1>1, <1>3, <1>7, <1>8, Given, OutsideLock
<1>10. CallInv' /\ OneFrame'
  BY <1>1, <1>3, <1>7, <1>8, Given, SameCall
<1>11. Types'
  BY <1>3, Given DEF All, Invs, Types, curlVars, callVars
<1>12. QED
  BY <1>7, <1>9, <1>10, <1>11 DEF Kept, Guarded

-----------------------------------------------------------------------------
(* The steps of a call                                                     *)

\* Lua's thread is no thread of the core.
LEMMA LuaThread == Lua \in Threads
  BY DEF Threads

\* The program calls the app, at top level or in a callback.
LEMMA CallKeeps ==
  ASSUME All, NEW op \in DOMAIN Rounds, Call(op)
  PROVE  Types' /\ Kept
<1>1. PICK c : c = next
  OBVIOUS
<1>2. PICK y : y = [at |-> "call", call |-> c, left |-> Rounds[op], phase |-> "start"]
  OBVIOUS
<1>3. /\ LuaRuns /\ c \in Calls /\ next' = c + 1 /\ registry' = registry \cup {c}
      /\ state' = [state EXCEPT ![c] = "running"]
      /\ stack' = [stack EXCEPT ![Lua] = Append(stack[Lua], y)]
      /\ UNCHANGED curlVars /\ answers' = answers /\ refreshes' = refreshes
  BY <1>1, <1>2 DEF Call
<1>4. Rounds[op] \in Nat \ {0}
  BY RequestsAssumption DEF RequestsAssumption
<1>5. y.at = "call" /\ y.call = c /\ y.left >= 1 /\ y.phase = "start" /\ y \in Frames
  BY <1>2, <1>3, <1>4 DEF Frames, CallPhases
<1>6. c \in Nat /\ next' \in Nat /\ next' >= next
  BY <1>1, <1>3, Given
<1>7. FrameOK(Lua, y, next')
  BY <1>3, <1>5, <1>6 DEF FrameOK
<1>8. stack[Lua] # <<>> => Top(Lua).phase = "running"
  BY <1>3 DEF LuaRuns, In
<1>9. ~Live /\ ~Holds(Lua) /\ (stack[Lua] # <<>> => Top(Lua).phase \in Waiting)
  BY <1>8 DEF Live, Holds, Waiting, Locked
<1>10. PICK n, r :
           /\ n = Len(stack[Lua]) /\ n \in 0 .. Len(stack[Lua])
           /\ Len(r) = 1 /\ r[1] = y /\ Shape(Lua, n, r) /\ StackInv'
           /\ stack'[Lua] # <<>> /\ Top(Lua)' = y /\ (Holds(Lua)' <=> y.phase \in Locked)
           /\ ~IsGuard(y) => Guards' = Guards
  BY <1>3, <1>5, <1>6, <1>7, <1>9, LuaThread, Given, Pushed, ZenonT(40)
<1>11. Guards' = Guards /\ ~Holds(Lua)' /\ Len(r) \in Nat
  BY <1>5, <1>10 DEF IsGuard, Locked
<1>12. MutexInv' /\ GuardInv'
  BY <1>3, <1>9, <1>10, <1>11, LuaThread, Given, OutsideLock
<1>13. state[c] = "unused" /\ answers[c] = 0 /\ c \notin registry
  BY <1>1, <1>3, <1>6, Given DEF CallInv
<1>14. state \in [Calls -> {"unused", "running", "returned", "raised"}] /\ state'[c] = "running"
       /\ state' \in [Calls -> {"unused", "running", "returned", "raised"}]
       /\ \A d \in Calls : d # c => state'[d] = state[d]
  BY <1>3 DEF All, Invs, Types
<1>15. Types'
  <2>1. next' \in 1 .. MaxCalls + 1
    BY <1>3, <1>6, Given DEF Calls
  <2>2. QED
    BY <1>3, <1>14, <2>1, Given DEF All, Invs, Types, curlVars
<1>16. /\ Live'
       /\ Top(Lua)'.call = c
  BY <1>5, <1>10 DEF Live, Waiting
<1>17. \A i \in 1 .. Len(stack'[Lua]) :
         \/ i = n + 1 /\ stack'[Lua][i].at = "call" /\ stack'[Lua][i].call = c
         \/ /\ i \in 1 .. Len(stack[Lua]) /\ stack'[Lua][i] = stack[Lua][i]
            /\ stack[Lua][i].call # c
  <2>1. PICK s : s = stack'[Lua]
    OBVIOUS
  <2>2. /\ Len(s) = n + Len(r)
        /\ \A i \in 1 .. n : s[i] = stack[Lua][i]
        /\ \A j \in 1 .. Len(r) : s[n + j] = r[j]
    BY <1>10, <2>1 DEF Shape
  <2>3. n \in Nat
    BY <1>10, LuaThread, Given DEF StackInv
  <2>4. s[n + 1] = y /\ Len(s) = n + 1
    BY <1>10, <2>2, <2>3
  <2>5. \A i \in 1 .. n + 1 : i \in 1 .. n \/ i = n + 1
    BY <2>3
  <2>6. \A i \in 1 .. n : stack[Lua][i].call # c
    <3>1. TAKE i \in 1 .. n
    <3>2. FrameOK(Lua, stack[Lua][i], next)
      BY <1>10, LuaThread, Given DEF StackInv
    <3>3. stack[Lua][i].call < c /\ stack[Lua][i].call \in Nat
      BY <1>1, <3>2 DEF FrameOK, Calls
    <3>4. QED
      BY <1>6, <3>3
  <2>7. QED
    BY <1>5, <1>10, <2>1, <2>2, <2>4, <2>5, <2>6
<1>18. OneFrame'
  BY <1>17, Given DEF OneFrame
<1>19. CallInv'
  <2>1. ASSUME NEW d \in Calls, NEW i \in 1 .. Len(stack'[Lua]), stack'[Lua][i].call = d
        PROVE  /\ stack'[Lua][i].at = "call" => state'[d] = "running"
               /\ stack'[Lua][i].at = "callback" => d \in registry' /\ answers'[d] = 1
    <3>1. CASE stack'[Lua][i].at = "call" /\ d = c
      BY <1>14, <3>1
    <3>2. CASE i \in 1 .. Len(stack[Lua]) /\ stack'[Lua][i] = stack[Lua][i] /\ d # c
      <4>1. /\ stack[Lua][i].at = "call" => state[d] = "running"
            /\ stack[Lua][i].at = "callback" => d \in registry /\ answers[d] = 1
        BY <2>1, <3>2, Given DEF CallInv
      <4>2. QED
        BY <1>3, <1>14, <3>2, <4>1
    <3>3. QED
      BY <1>17, <2>1, <3>1, <3>2
  <2>2. ASSUME NEW d \in Calls, state'[d] = "running", answers'[d] = 0 PROVE d = c
    BY <1>3, <1>9, <1>14, <2>2, Given DEF CallInv
  <2>3. ASSUME NEW d \in Calls
        PROVE  /\ state'[d] \in {"unused", "raised"} => answers'[d] = 0
               /\ state'[d] = "returned" => answers'[d] = 1
               /\ d \in registry' => state'[d] = "running"
    BY <1>3, <1>13, <1>14, Given DEF CallInv
  <2>4. ASSUME NEW d \in Calls
        PROVE  d >= next' <=> state'[d] = "unused"
    <3>1. d >= next <=> state[d] = "unused"
      BY Given DEF CallInv
    <3>2. d >= c + 1 <=> d >= c /\ d # c
      BY <1>6 DEF Calls
    <3>3. QED
      BY <1>1, <1>3, <1>14, <3>1, <3>2
  <2>5. c \in registry' /\ state'[c] = "running" /\ answers'[c] = 0
    BY <1>3, <1>13, <1>14
  <2>6. QED
    BY <1>16, <2>1, <2>2, <2>3, <2>4, <2>5 DEF CallInv
<1>20. QED
  BY <1>10, <1>12, <1>15, <1>18, <1>19 DEF Kept, Guarded

\* A call or a callback, in which no lock is held, leaves Lua's stack.
LEMMA PoppedGuards ==
  ASSUME All, stack[Lua] # <<>>, Top(Lua).at # "request", Top(Lua).phase \notin Locked,
         Pop(Lua), next' = next, UNCHANGED curlVars
  PROVE  /\ Guarded
         /\ \E n, r :
              /\ n \in Nat /\ n + 1 = Len(stack[Lua]) /\ Len(r) = 0 /\ Shape(Lua, n, r)
              /\ stack'[Lua] # <<>> => Top(Lua)'.phase \in Waiting
<1>1. PICK n, r :
           /\ n \in Nat /\ n + 1 = Len(stack[Lua]) /\ n \in 0 .. Len(stack[Lua])
           /\ Len(r) = 0 /\ Shape(Lua, n, r) /\ StackInv'
           /\ ~Holds(Lua)' /\ (stack'[Lua] # <<>> => Top(Lua)'.phase \in Waiting)
           /\ ~IsGuard(Top(Lua)) => Guards' = Guards
  BY LuaThread, Given, Popped
<1>2. Guards' = Guards /\ ~Holds(Lua) /\ Len(r) \in Nat
  BY <1>1 DEF IsGuard, Holds
<1>3. MutexInv' /\ GuardInv'
  BY <1>1, <1>2, LuaThread, Given, OutsideLock
<1>4. QED
  BY <1>1, <1>3 DEF Guarded

\* A callback ends.
LEMMA EndCallbackKeeps ==
  ASSUME All, EndCallback
  PROVE  Types' /\ Kept
<1>1. /\ stack[Lua] # <<>> /\ Top(Lua).at = "callback" /\ Top(Lua).phase = "running" /\ Pop(Lua)
      /\ UNCHANGED curlVars /\ UNCHANGED callVars /\ next' = next
  BY DEF EndCallback, In, callVars
<1>2. "running" \in Waiting /\ "running" \notin Locked
  BY DEF Waiting, Locked
<1>3. /\ Guarded
      /\ \E n, r :
           /\ n \in Nat /\ n + 1 = Len(stack[Lua]) /\ Len(r) = 0 /\ Shape(Lua, n, r)
           /\ stack'[Lua] # <<>> => Top(Lua)'.phase \in Waiting
  BY <1>1, <1>2, PoppedGuards
<1>4. CallInv' /\ OneFrame'
  BY <1>1, <1>2, <1>3, LuaThread, Given, PoppedCall
<1>5. Types'
  BY Given DEF All, Invs, Types, EndCallback, curlVars, callVars
<1>6. QED
  BY <1>3, <1>4, <1>5 DEF Kept

\* The frame of call c goes, and c with it.
LEMMA CallEnds ==
  ASSUME All, NEW c \in Calls, stack[Lua] # <<>>, Top(Lua).at = "call", Top(Lua).call = c,
         Top(Lua).phase \in CallPhases, Pop(Lua), UNCHANGED curlVars,
         next' = next, answers' = answers, refreshes' = refreshes, registry' = registry \ {c},
         NEW s \in {"returned", "raised"}, state' = [state EXCEPT ![c] = s],
         s = "returned" => answers[c] = 1, s = "raised" => answers[c] = 0,
         c \in registry => answers[c] = 0,
         \A d \in Calls : d # c /\ state[d] = "running" => answers[d] # 0
  PROVE  Types' /\ Kept
<1>1. Top(Lua).phase \notin Locked
  BY DEF CallPhases, Locked
<1>2. Guarded
  BY <1>1, PoppedGuards
<1>3. PICK n, r :
           /\ n \in Nat /\ n + 1 = Len(stack[Lua]) /\ Len(r) = 0 /\ Shape(Lua, n, r)
           /\ stack'[Lua] # <<>> => Top(Lua)'.phase \in Waiting
  BY <1>1, PoppedGuards
<1>4. state \in [Calls -> {"unused", "running", "returned", "raised"}] /\ state'[c] = s
       /\ state' \in [Calls -> {"unused", "running", "returned", "raised"}]
       /\ \A d \in Calls : d # c => state'[d] = state[d]
  BY DEF All, Invs, Types
<1>5. Types'
  BY <1>4, Given DEF All, Invs, Types, curlVars
<1>6. stack[Lua][n + 1] = Top(Lua) /\ n + 1 \in 1 .. Len(stack[Lua])
  BY <1>3 DEF Top
<1>7. state[c] = "running"
  BY <1>6, Given DEF CallInv
<1>8. ~Live'
  BY <1>3 DEF Live
<1>9. \A i \in 1 .. Len(stack'[Lua]) :
        /\ i \in 1 .. Len(stack[Lua]) /\ stack'[Lua][i] = stack[Lua][i] /\ i # n + 1
  <2>1. Len(stack'[Lua]) = n /\ \A i \in 1 .. n : stack'[Lua][i] = stack[Lua][i]
    BY <1>3 DEF Shape
  <2>2. \A i \in 1 .. n : i \in 1 .. Len(stack[Lua]) /\ i # n + 1
    BY <1>3
  <2>3. QED
    BY <2>1, <2>2
<1>10. OneFrame'
  BY <1>9, Given DEF OneFrame
<1>11. CallInv'
  <2>1. ASSUME NEW d \in Calls, NEW i \in 1 .. Len(stack'[Lua]), stack'[Lua][i].call = d
        PROVE  /\ stack'[Lua][i].at = "call" => state'[d] = "running"
               /\ stack'[Lua][i].at = "callback" => d \in registry' /\ answers'[d] = 1
    <3>1. /\ i \in 1 .. Len(stack[Lua]) /\ i # n + 1 /\ stack[Lua][i].call = d
          /\ stack'[Lua][i] = stack[Lua][i]
      BY <1>9, <2>1
    <3>2. /\ stack[Lua][i].at = "call" => state[d] = "running"
          /\ stack[Lua][i].at = "callback" => d \in registry /\ answers[d] = 1
      BY <3>1, Given DEF CallInv
    <3>3. stack[Lua][i].at = "call" => d # c
      BY <1>6, <3>1, Given DEF OneFrame
    <3>4. stack[Lua][i].at = "callback" => d # c
      BY <3>2
    <3>5. QED
      BY <1>4, <3>1, <3>2, <3>3, <3>4
  <2>2. ASSUME NEW d \in Calls, state'[d] = "running" PROVE answers'[d] # 0
    BY <1>4, <2>2
  <2>3. ASSUME NEW d \in Calls
        PROVE  /\ state'[d] \in {"unused", "raised"} => answers'[d] = 0
               /\ state'[d] = "returned" => answers'[d] = 1
               /\ d \in registry' => state'[d] = "running"
               /\ d >= next' <=> state'[d] = "unused"
    BY <1>4, <1>7, Given DEF CallInv
  <2>4. QED
    BY <1>8, <2>1, <2>2, <2>3 DEF CallInv
<1>12. QED
  BY <1>2, <1>5, <1>10, <1>11 DEF Kept

\* Whose frame it is, and what is known of its call.
LEMMA TopCall ==
  ASSUME All, stack[Lua] # <<>>, Top(Lua).at = "call"
  PROVE  /\ Top(Lua).call \in Calls /\ Top(Lua).phase \in CallPhases
         /\ state[Top(Lua).call] = "running"
<1>1. Top(Lua) \in Frames /\ Len(stack[Lua]) \in 1 .. Len(stack[Lua])
  BY LuaThread, Given, TopFrame
<1>2. Top(Lua).call \in Calls /\ Top(Lua).phase \in CallPhases
  BY <1>1, FrameFacts
<1>3. QED
  BY <1>1, <1>2, Given DEF CallInv, Top

\* The two ways a call ends: an error raised, a return.
LEMMA RefuseKeeps ==
  ASSUME All, Refuse
  PROVE  Types' /\ Kept
<1>1. PICK c : c = Top(Lua).call
  OBVIOUS
<1>2. /\ stack[Lua] # <<>> /\ Top(Lua).at = "call" /\ Top(Lua).phase = "start"
      /\ Pop(Lua) /\ UNCHANGED curlVars
      /\ next' = next /\ answers' = answers /\ refreshes' = refreshes /\ registry' = registry \ {c}
      /\ state' = [state EXCEPT ![c] = "raised"]
  BY <1>1 DEF Refuse, In
<1>3. c \in Calls /\ Top(Lua).phase \in CallPhases /\ Live
  BY <1>1, <1>2, TopCall DEF Live, Waiting
<1>4. answers[c] = 0 /\ \A d \in Calls : d # c /\ state[d] = "running" => answers[d] # 0
  BY <1>1, <1>3, Given DEF CallInv
<1>5. QED
  BY <1>1, <1>2, <1>3, <1>4, CallEnds

LEMMA ReturnKeeps ==
  ASSUME All, Return
  PROVE  Types' /\ Kept
<1>1. PICK c : c = Top(Lua).call
  OBVIOUS
<1>2. /\ stack[Lua] # <<>> /\ Top(Lua).at = "call" /\ Top(Lua).phase = "sent"
      /\ c \notin registry /\ Pop(Lua) /\ UNCHANGED curlVars
      /\ next' = next /\ answers' = answers /\ refreshes' = refreshes /\ registry' = registry
      /\ state' = [state EXCEPT ![c] = "returned"]
  BY <1>1 DEF Return, In
<1>3. c \in Calls /\ Top(Lua).phase \in CallPhases /\ ~Live /\ state[c] = "running"
  BY <1>1, <1>2, TopCall DEF Live, Waiting
<1>4. \A d \in Calls : state[d] = "running" => answers[d] # 0
  BY <1>3, Given DEF CallInv
<1>5. answers[c] = 1
  BY <1>3, <1>4 DEF All, Invs, Types
<1>6. registry' = registry \ {c}
  BY <1>2
<1>7. QED
  BY <1>1, <1>2, <1>3, <1>4, <1>5, <1>6, CallEnds

\* The registry lets go of a callback that cannot be called any more.
LEMMA FreeKeeps ==
  ASSUME All, NEW c \in Calls, Free(c)
  PROVE  Types' /\ Kept
<1>1. /\ Answered(c) /\ registry' = registry \ {c} /\ UNCHANGED stack /\ UNCHANGED curlVars
      /\ next' = next /\ answers' = answers /\ state' = state /\ refreshes' = refreshes
  BY DEF Free
<1>2. Types'
  BY <1>1, Given DEF All, Invs, Types, curlVars
<1>3. Guarded
  <2>1. StackInv'
    BY <1>1, Given DEF StackInv, FrameOK
  <2>2. MutexInv' /\ GuardInv'
    BY <1>1, Given DEF MutexInv, GuardInv, Holds, Top, Guards, Guarding, curlVars
  <2>3. QED
    BY <2>1, <2>2 DEF Guarded
<1>4. OneFrame'
  BY <1>1, Given DEF OneFrame
<1>5. Live' <=> Live
  BY <1>1 DEF Live, Top
<1>6. Live => Top(Lua).call # c
  <2>1. SUFFICES ASSUME Live PROVE Top(Lua).call # c
    OBVIOUS
  <2>2. Len(stack[Lua]) \in 1 .. Len(stack[Lua])
    BY <2>1, LuaThread, Given, TopFrame DEF Live
  <2>3. QED
    BY <1>1, <2>1, <2>2 DEF Answered, Live, Top, Waiting
<1>7. \A i \in 1 .. Len(stack[Lua]) : stack[Lua][i].at = "callback" => stack[Lua][i].call # c
  <2>1. SUFFICES ASSUME NEW i \in 1 .. Len(stack[Lua]), stack[Lua][i].at = "callback"
                 PROVE  stack[Lua][i].call # c
    OBVIOUS
  <2>2. stack[Lua][i].phase = "running"
    BY <2>1, LuaThread, Given, FrameFacts DEF StackInv, FrameOK
  <2>3. QED
    BY <1>1, <2>2 DEF Answered
<1>8. CallInv'
  <2>1. ASSUME NEW d \in Calls, NEW i \in 1 .. Len(stack[Lua]), stack[Lua][i].call = d
        PROVE  /\ stack[Lua][i].at = "call" => state[d] = "running"
               /\ stack[Lua][i].at = "callback" => d \in registry' /\ answers[d] = 1
    BY <1>1, <1>7, <2>1, Given DEF CallInv
  <2>2. ASSUME NEW d \in Calls, Live, Top(Lua).call = d
        PROVE  state[d] = "running" /\ answers[d] = 0 /\ d \in registry'
    BY <1>1, <1>6, <2>2, Given DEF CallInv
  <2>3. Top(Lua)' = Top(Lua)
    BY <1>1 DEF Top
  <2>4. QED
    BY <1>1, <1>5, <2>1, <2>2, <2>3, Given DEF CallInv
<1>9. QED
  BY <1>2, <1>3, <1>4, <1>8 DEF Kept
-----------------------------------------------------------------------------
(* The invariant                                                           *)

\* The invariant holds at first.
LEMMA Initially == Init => IndInv
<1>1. SUFFICES ASSUME Init PROVE IndInv
  OBVIOUS
<1>2. \A t \in Threads : stack[t] = <<>>
  BY <1>1 DEF Init
<1>3. stack[Lua] = <<>> /\ ~Live
  BY <1>2, LuaThread DEF Live
<1>4. Types
  <2>1. mutex \in Threads \cup {None} /\ users \in Nat /\ curl \in BOOLEAN /\ registry \in SUBSET Calls
    BY <1>1 DEF Init
  <2>2. next \in 1 .. MaxCalls + 1 /\ refreshes \in 0 .. MaxRefreshes
    BY <1>1, RequestsAssumption DEF Init, RequestsAssumption
  <2>3. answers \in [Calls -> 0 .. 1]
    BY <1>1 DEF Init
  <2>4. state \in [Calls -> {"unused", "running", "returned", "raised"}]
    BY <1>1 DEF Init
  <2>5. QED
    BY <2>1, <2>2, <2>3, <2>4 DEF Types
<1>5. StackInv
  BY <1>1, <1>2 DEF Init, StackInv
<1>6. MutexInv
  BY <1>1, <1>2, RequestsAssumption DEF Init, MutexInv, Holds, RequestsAssumption
<1>7. GuardInv
  <2>1. \A g \in Guards : FALSE
    BY <1>2, GuardsAre
  <2>2. Guards = {}
    BY <2>1
  <2>3. IsFiniteSet(Guards) /\ Cardinality(Guards) = 0
    BY <2>2, FS_EmptySet
  <2>4. \A t \in Threads : mutex # t
    BY <1>1, RequestsAssumption DEF Init, RequestsAssumption
  <2>5. QED
    BY <1>1, <2>2, <2>3, <2>4 DEF Init, GuardInv
<1>8. CallInv
  <2>1. \A c \in Calls : c >= next
    BY <1>1 DEF Init, Calls
  <2>2. QED
    BY <1>1, <1>3, <2>1 DEF Init, CallInv
<1>9. OneFrame
  BY <1>3 DEF OneFrame
<1>10. QED
  BY <1>4, <1>5, <1>6, <1>7, <1>8, <1>9 DEF IndInv

\* A step that changes nothing keeps it.
LEMMA StutterKeeps ==
  ASSUME All, UNCHANGED vars
  PROVE  Types' /\ Kept
<1>1. /\ stack' = stack /\ mutex' = mutex /\ users' = users /\ curl' = curl /\ next' = next
      /\ registry' = registry /\ answers' = answers /\ state' = state /\ refreshes' = refreshes
  BY DEF vars, curlVars, callVars
<1>2. Types'
  BY <1>1, Given DEF All, Invs, Types
<1>3. StackInv'
  BY <1>1, Given DEF StackInv, FrameOK
<1>4. MutexInv' /\ GuardInv'
  BY <1>1, Given DEF MutexInv, GuardInv, Holds, Top, Guards, Guarding
<1>5. CallInv' /\ OneFrame'
  BY <1>1, Given DEF CallInv, OneFrame, Live, Top
<1>6. QED
  BY <1>2, <1>3, <1>4, <1>5 DEF Kept, Guarded

\* Every step keeps it: one case per action of Next.
LEMMA Step == IndInv /\ [Next]_vars => IndInv'
<1>1. SUFFICES ASSUME IndInv, [Next]_vars PROVE IndInv'
  OBVIOUS
<1>2. All
  BY <1>1 DEF All, Invs, IndInv
<1>3. SUFFICES Types' /\ Kept
  BY DEF Kept, Guarded, IndInv
<1>4. ASSUME NEW t \in Threads, InRequest(t) PROVE Types' /\ Kept
  BY <1>2, <1>4, CountKeeps, InitializeKeeps, PerformKeeps, SendNextKeeps, RefreshedKeeps,
     AnswerKeeps, UncountKeeps, CleanUpKeeps DEF InRequest
<1>5. CASE InCall
  BY <1>2, <1>5, SendKeeps, RefuseKeeps, EndCallbackKeeps, ReturnKeeps DEF InCall
<1>6. ASSUME NEW op \in DOMAIN Rounds, Call(op) PROVE Types' /\ Kept
  BY <1>2, <1>6, CallKeeps
<1>7. ASSUME NEW c \in Calls, Free(c) PROVE Types' /\ Kept
  BY <1>2, <1>7, FreeKeeps
<1>8. ASSUME NEW t \in Others, Refresh(t) PROVE Types' /\ Kept
  BY <1>2, <1>8, RefreshKeeps
<1>9. CASE Finished \/ UNCHANGED vars
  BY <1>2, <1>9, StutterKeeps DEF Finished
<1>10. QED
  BY <1>1, <1>4, <1>5, <1>6, <1>7, <1>8, <1>9 DEF Next

\* The inductive invariant holds in every state.
THEOREM Invariant == Spec => []IndInv
  BY Initially, Step, PTL DEF Spec

-----------------------------------------------------------------------------
(* What it implies                                                         *)

\* A thread of the core has frames of call 0, which are requests.
LEMMA TypesHold == IndInv => TypeOK
<1>1. SUFFICES ASSUME IndInv PROVE TypeOK
  OBVIOUS
<1>2. ASSUME NEW t \in Others, NEW i \in 1 .. Len(stack[t]) PROVE stack[t][i].at = "request"
  <2>1. t \in Threads /\ t # Lua
    BY <1>2, RequestsAssumption DEF Threads, RequestsAssumption
  <2>2. FrameOK(t, stack[t][i], next)
    BY <1>1, <1>2, <2>1 DEF IndInv, StackInv
  <2>3. stack[t][i] \in Frames /\ stack[t][i].call = 0
    BY <2>1, <2>2 DEF FrameOK
  <2>4. 0 \notin Calls
    BY DEF Calls
  <2>5. QED
    BY <2>3, <2>4, FrameFacts
<1>3. QED
  BY <1>1, <1>2 DEF IndInv, StackInv, Types, TypeOK

\* A guard other than the lock's holder implies libcurl's state.
LEMMA CurlHolds == IndInv => CurlReady
<1>1. SUFFICES ASSUME IndInv PROVE CurlReady
  OBVIOUS
<1>2. StackInv /\ MutexInv /\ GuardInv /\ mutex \in Threads \cup {None}
  BY <1>1 DEF IndInv, Types
<1>3. ASSUME NEW g \in Guards, stack[g[1]][g[2]].phase # "counted" PROVE curl
  <2>1. PICK t \in Threads, i \in Nat : g = <<t, i>>
    BY GuardsAre
  <2>2. stack[t][i].phase # "counted" /\ <<t, i>> \in Guards
    BY <1>3, <2>1
  <2>3. CASE mutex = None
    BY <1>2, <2>2, <2>3 DEF GuardInv
  <2>4. CASE mutex \in Threads
    <3>1. PICK u \in Threads : mutex = u
      BY <2>4
    <3>2. Holds(u)
      BY <1>2, <3>1 DEF MutexInv
    <3>3. CASE Top(u).phase = "uncounted"
      BY <1>2, <3>1, <3>3 DEF GuardInv
    <3>4. CASE Top(u).phase = "counted"
      <4>1. curl <=> Guards # {<<u, Len(stack[u])>>}
        BY <1>2, <3>1, <3>4 DEF GuardInv
      <4>2. <<t, i>> # <<u, Len(stack[u])>>
        BY <2>2, <3>4 DEF Top
      <4>3. QED
        BY <2>2, <4>1, <4>2
    <3>5. QED
      BY <3>2, <3>3, <3>4 DEF Holds, Locked
  <2>5. QED
    BY <1>2, <2>3, <2>4
<1>4. users = Cardinality(Guards) /\ (mutex = None => (curl <=> Guards # {}))
  BY <1>2 DEF GuardInv
<1>5. QED
  BY <1>3, <1>4 DEF CurlReady

\* What a call's state says of its answers and of its callback.
LEMMA AnswersHold == IndInv => AnsweredOnce
<1>1. SUFFICES ASSUME IndInv, NEW c \in Calls
               PROVE  /\ state[c] = "returned" => answers[c] = 1
                      /\ state[c] = "raised" => answers[c] = 0
                      /\ c \in registry => state[c] = "running"
                      /\ \A i \in 1 .. Len(stack[Lua]) : stack[Lua][i] = Callback(c) => c \in registry
  BY DEF AnsweredOnce
<1>2. Callback(c).at = "callback" /\ Callback(c).call = c
  BY DEF Callback
<1>3. QED
  BY <1>1, <1>2 DEF IndInv, CallInv

-----------------------------------------------------------------------------
(* Theorems                                                                *)

\* However calls nest and threads interleave, every variable keeps its type: no
\* callback is called twice, and none runs on a thread of the core.
THEOREM TypeCorrect == Spec => []TypeOK
  BY Invariant, TypesHold, PTL

\* CurlGlobalGuard's count is the number of the requests under way, on all
\* threads and nested in callbacks, and libcurl is initialized for each.
THEOREM CurlIsReady == Spec => []CurlReady
  BY Invariant, CurlHolds, PTL

\* App:registerEmail and App:logIn return after their callback was called, once;
\* one that raises has not called it; and the registry holds it meanwhile.
THEOREM OneAnswer == Spec => []AnsweredOnce
  BY Invariant, AnswersHold, PTL
=============================================================================
