--------------------------- MODULE ContextProofs ---------------------------
(* Proofs about Context for every chain length and every index width.      *)
EXTENDS Context, SequenceTheorems, TLAPS

\* Replacing the top frame.
LEMMA SetTopFacts ==
    ASSUME NEW s \in Seq(Frame), s # <<>>, NEW f \in Frame,
           NEW t, t = [s EXCEPT ![Len(s)] = f]
    PROVE  /\ t \in Seq(Frame)
           /\ Len(t) = Len(s)
           /\ t[Len(s)] = f
           /\ \A i \in 1..(Len(s) - 1) : t[i] = s[i]
OBVIOUS

\* Calling Next pushes a frame and marks the caller's.
LEMMA PushFacts ==
    ASSUME NEW s \in Seq(Frame), s # <<>>,
           NEW t, t = Append([s EXCEPT ![Len(s)].next = TRUE], NewFrame)
    PROVE  /\ t \in Seq(Frame)
           /\ Len(t) = Len(s) + 1
           /\ t[Len(t)] = NewFrame
           /\ t[Len(s)].next
           /\ t[Len(s)].pos = s[Len(s)].pos
           /\ t[Len(s)].pc = s[Len(s)].pc
           /\ \A i \in 1..(Len(s) - 1) : t[i] = s[i]
<1> DEFINE f == [s[Len(s)] EXCEPT !.next = TRUE]
           u == [s EXCEPT ![Len(s)] = f]
<1>1. Len(s) \in 1..Len(s) /\ s[Len(s)] \in Frame
  OBVIOUS
<1>2. /\ f \in Frame /\ f.next
      /\ f.pos = s[Len(s)].pos
      /\ f.pc = s[Len(s)].pc
  BY <1>1 DEF Frame
<1>3. NewFrame \in Frame
  BY ContextAssumption DEF NewFrame, Frame
<1>4. t = Append(u, NewFrame)
  OBVIOUS
<1> HIDE DEF f
<1>5. /\ u \in Seq(Frame)
      /\ Len(u) = Len(s)
      /\ u[Len(s)] = f
      /\ \A i \in 1..(Len(s) - 1) : u[i] = s[i]
  BY <1>2, SetTopFacts
<1> HIDE DEF u
<1>6. /\ t \in Seq(Frame)
      /\ Len(t) = Len(u) + 1
      /\ t[Len(u) + 1] = NewFrame
      /\ \A i \in 1..Len(u) : t[i] = u[i]
  BY ONLY <1>3, <1>4, <1>5, AppendProperties
<1>7. QED
  BY <1>1, <1>2, <1>5, <1>6

\* Returning from Next pops the top frame.
LEMMA PopFacts ==
    ASSUME NEW s \in Seq(Frame), s # <<>>,
           NEW t, t = SubSeq(s, 1, Len(s) - 1)
    PROVE  /\ t \in Seq(Frame)
           /\ Len(t) = Len(s) - 1
           /\ \A i \in 1..(Len(s) - 1) : t[i] = s[i]
           /\ t = <<>> <=> Len(s) = 1
<1> DEFINE n == Len(s) - 1
<1>1. n \in Nat /\ Len(s) = n + 1
  OBVIOUS
<1>2. \A i \in 1..n : s[i] \in Frame
  BY <1>1
<1>3. t = SubSeq(s, 1, n)
  OBVIOUS
<1> HIDE DEF n
<1>4. /\ t \in Seq(Frame)
      /\ Len(t) = IF 1 <= n THEN n - 1 + 1 ELSE 0
      /\ \A i \in 1..(n - 1 + 1) : t[i] = s[1 + i - 1]
  BY ONLY <1>1, <1>2, <1>3, SubSeqProperties, 1 \in Int, n \in Int
<1>5. Len(t) = n /\ \A i \in 1..n : t[i] = s[i]
  BY ONLY <1>1, <1>4
<1>6. t = <<>> <=> Len(t) = 0
  BY ONLY <1>4, EmptySeq
<1>7. QED
  BY <1>1, <1>4, <1>5, <1>6

\* A group Match can return is a sequence of handlers within the bound.
LEMMA GroupFacts ==
    ASSUME NEW g \in Groups
    PROVE  g \in Seq(Kinds) /\ Len(g) <= MaxGroup
BY ContextAssumption DEF Groups

\* The uint8 operations stay in the type.
LEMMA IndexFacts ==
    ASSUME NEW i \in 0..(IndexMod - 1)
    PROVE  Inc(i) \in 0..(IndexMod - 1) /\ Dec(i) \in 0..(IndexMod - 1)
BY ContextAssumption DEF Inc, Dec

\* PushNext and BackToLoop keep the index and the stack in their types.
LEMMA PushNextType ==
    ASSUME TypeOK, AtRun, PushNext, group' = group
    PROVE  /\ index' \in 0..(IndexMod - 1)
           /\ stack' \in Seq(Frame)
           /\ \A i \in 1..Len(stack') : stack'[i].pos <= Len(group')
<1>1. stack \in Seq(Frame) /\ stack # <<>> /\ group \in Seq(Kinds)
  BY DEF TypeOK, AtRun, Active
<1>2. index' \in 0..(IndexMod - 1)
  BY IndexFacts DEF TypeOK, PushNext
<1>3. /\ stack' \in Seq(Frame)
      /\ Len(stack') = Len(stack) + 1
      /\ stack'[Len(stack')] = NewFrame
      /\ stack'[Len(stack)].pos = stack[Len(stack)].pos
      /\ \A i \in 1..(Len(stack) - 1) : stack'[i] = stack[i]
  BY <1>1, PushFacts DEF PushNext
<1>4. /\ NewFrame.pos = 0 /\ Len(group) \in Nat
      /\ \A i \in 1..Len(stack) : stack[i].pos <= Len(group)
  BY <1>1 DEF TypeOK, NewFrame
<1>5. ASSUME NEW i \in 1..Len(stack')
      PROVE  stack'[i].pos <= Len(group)
  <2>1. CASE i < Len(stack)
    BY <1>1, <1>3, <1>4, <2>1
  <2>2. CASE i = Len(stack)
    BY <1>1, <1>3, <1>4, <2>2
  <2>3. CASE i = Len(stack')
    BY <1>3, <1>4, <2>3
  <2>4. QED
    BY <1>1, <1>3, <2>1, <2>2, <2>3
<1>6. QED
  BY <1>2, <1>3, <1>5

\* A handler's return keeps the types of the index and of the stack.
LEMMA BackToLoopType ==
    ASSUME TypeOK, AtRun, BackToLoop, group' = group
    PROVE  /\ index' \in 0..(IndexMod - 1)
           /\ stack' \in Seq(Frame)
           /\ \A i \in 1..Len(stack') : stack'[i].pos <= Len(group')
<1>1. stack \in Seq(Frame) /\ stack # <<>> /\ group \in Seq(Kinds)
  BY DEF TypeOK, AtRun, Active
<1>2. index' \in 0..(IndexMod - 1)
  BY IndexFacts DEF TypeOK, BackToLoop
<1>3. NewFrame \in Frame /\ NewFrame.pos = 0
  BY ContextAssumption DEF NewFrame, Frame
<1>4. /\ stack' \in Seq(Frame)
      /\ Len(stack') = Len(stack)
      /\ stack'[Len(stack)] = NewFrame
      /\ \A i \in 1..(Len(stack) - 1) : stack'[i] = stack[i]
  BY <1>1, <1>3, SetTopFacts DEF BackToLoop
<1>5. /\ Len(group) \in Nat
      /\ \A i \in 1..Len(stack) : stack[i].pos <= Len(group)
  BY <1>1 DEF TypeOK
<1>6. ASSUME NEW i \in 1..Len(stack')
      PROVE  stack'[i].pos <= Len(group)
  <2>1. CASE i < Len(stack)
    BY <1>1, <1>4, <1>5, <2>1
  <2>2. CASE i = Len(stack)
    BY <1>3, <1>4, <1>5, <2>2
  <2>3. QED
    BY <1>1, <1>4, <2>1, <2>2
<1>7. QED
  BY <1>2, <1>4, <1>6

\* Popping a frame keeps the stack in its type.
LEMMA PopType ==
    ASSUME TypeOK, stack # <<>>, stack' = Below, group' = group
    PROVE  /\ stack' \in Seq(Frame)
           /\ \A i \in 1..Len(stack') : stack'[i].pos <= Len(group')
<1>1. stack \in Seq(Frame) /\ stack # <<>>
  BY DEF TypeOK
<1>2. /\ stack' \in Seq(Frame)
      /\ Len(stack') = Len(stack) - 1
      /\ \A i \in 1..(Len(stack) - 1) : stack'[i] = stack[i]
  BY <1>1, PopFacts DEF Below
<1>3. QED
  BY <1>1, <1>2 DEF TypeOK

\* The running handler is at a position of the group.
LEMMA TopType ==
    ASSUME TypeOK, stack # <<>>
    PROVE  /\ Top \in Frame
           /\ Top.pos \in 0..MaxGroup
           /\ Top.pos <= Len(group)
<1>1. stack \in Seq(Frame) /\ Len(stack) \in 1..Len(stack)
  BY DEF TypeOK
<1>2. Top \in Frame
  BY <1>1 DEF Top
<1>3. Top.pos <= Len(group)
  BY <1>1 DEF TypeOK, Top
<1>4. QED
  BY <1>2, <1>3 DEF Frame

\* A status line sent is a code of the model.
LEMMA HeaderType ==
    ASSUME NEW h \in Codes \cup {0, StatusOK},
           NEW c \in Codes \cup {0, StatusOK}
    PROVE  /\ WriteHeader(h, c) \in Codes \cup {0, StatusOK}
           /\ BodyWrite(h) \in Codes \cup {0, StatusOK}
BY DEF WriteHeader, BodyWrite

\* TypeOK is inductive.
LEMMA TypeStep == TypeOK /\ [Next]_vars => TypeOK'
<1> SUFFICES ASSUME TypeOK, [Next]_vars PROVE TypeOK'
  OBVIOUS
<1> USE DEF chain, resp, ctl, hist
<1>1. ASSUME NEW g \in Groups, Serve(g) PROVE TypeOK'
  <2>1. g \in Seq(Kinds) /\ Len(g) <= MaxGroup
    BY GroupFacts
  <2>2. NewFrame \in Frame /\ NewFrame.pos = 0
    BY ContextAssumption DEF NewFrame, Frame
  <2>3. /\ stack' \in Seq(Frame) /\ Len(stack') = 1
        /\ stack'[1].pos = 0
    BY <1>1, <2>2 DEF Serve
  <2>4. index' \in 0..(IndexMod - 1)
    BY <1>1, IndexFacts DEF Serve, TypeOK
  <2>5. calls' \in Seq(1..MaxGroup)
    BY <1>1, EmptySeq DEF Serve
  <2>6. \A i \in 1..Len(stack') : stack'[i].pos <= Len(group')
    BY <1>1, <2>1, <2>3 DEF Serve
  <2>7. /\ extra' \in 0..MaxNext /\ abortBy' \in 0..MaxGroup
        /\ lostBy' \in 0..MaxGroup
    BY <1>1, ContextAssumption DEF Serve
  <2>8. QED
    BY <1>1, <2>1, <2>3, <2>4, <2>5, <2>6, <2>7 DEF Serve, TypeOK
<1>2. CASE CallHandler
  <2> DEFINE p == Dec(index) + 1
             f == [pos |-> p, pc |-> "run", next |-> FALSE]
  <2>1. p \in 1..MaxGroup /\ p <= Len(group)
    <3>1. /\ Dec(index) \in 0..(IndexMod - 1) /\ Dec(index) < Len(group)
          /\ group \in Seq(Kinds) /\ Len(group) <= MaxGroup
      BY <1>2, IndexFacts DEF CallHandler, InRange, TypeOK
    <3>2. Len(group) \in Nat
      BY <3>1
    <3>3. QED
      BY <3>1, <3>2, ContextAssumption
  <2>2. f \in Frame /\ f.pos = p
    BY <2>1 DEF Frame
  <2>3. stack \in Seq(Frame) /\ stack # <<>>
    BY <1>2 DEF CallHandler, AtLoop, Active, TypeOK
  <2>4. stack' = [stack EXCEPT ![Len(stack)] = f]
    BY <1>2 DEF CallHandler
  <2>5. calls' = Append(calls, p)
    BY <1>2 DEF CallHandler
  <2> HIDE DEF f, p
  <2>6. /\ stack' \in Seq(Frame)
        /\ Len(stack') = Len(stack)
        /\ stack'[Len(stack)] = f
        /\ \A i \in 1..(Len(stack) - 1) : stack'[i] = stack[i]
    BY <2>2, <2>3, <2>4, SetTopFacts
  <2>7. calls' \in Seq(1..MaxGroup)
    BY <2>1, <2>5 DEF TypeOK
  <2>8. \A i \in 1..Len(stack) : stack[i].pos <= Len(group)
    BY DEF TypeOK
  <2>9. ASSUME NEW i \in 1..Len(stack') PROVE stack'[i].pos <= Len(group)
    <3>1. CASE i < Len(stack)
      BY <2>3, <2>6, <2>8, <3>1
    <3>2. CASE i = Len(stack)
      BY <2>1, <2>2, <2>6, <3>2
    <3>3. QED
      BY <2>3, <2>6, <3>1, <3>2
  <2>10. group' = group
    BY <1>2 DEF CallHandler
  <2>11. \A i \in 1..Len(stack') : stack'[i].pos <= Len(group')
    BY <2>9, <2>10
  <2>12. UNCHANGED <<chain, resp, phase, panicking, extra, lastSet, output,
                     abortBy, abortAt, recovered, lostBy, refused>>
    BY <1>2 DEF CallHandler
  <2>13. QED
    BY <2>6, <2>7, <2>11, <2>12 DEF TypeOK
<1>3. CASE LoopPanic
  BY <1>3 DEF LoopPanic, TypeOK
<1>4. CASE ExitLoop
  <2>1. /\ stack' \in Seq(Frame)
        /\ \A i \in 1..Len(stack') : stack'[i].pos <= Len(group')
    BY <1>4, PopType DEF ExitLoop, AtLoop, Active
  <2>2. QED
    BY <1>4, <2>1 DEF ExitLoop, TypeOK
<1>5. CASE HandlerNext
  <2>1. /\ index' \in 0..(IndexMod - 1) /\ stack' \in Seq(Frame)
        /\ \A i \in 1..Len(stack') : stack'[i].pos <= Len(group')
    BY <1>5, PushNextType DEF HandlerNext, UserCode
  <2>2. extra' \in 0..MaxNext
    BY <1>5, ContextAssumption DEF HandlerNext, TypeOK
  <2>3. QED
    BY <1>5, <2>1, <2>2 DEF HandlerNext, TypeOK
<1>6. CASE Return \/ RecoverReturn \/ GZipSkip
  <2>1. /\ index' \in 0..(IndexMod - 1) /\ stack' \in Seq(Frame)
        /\ \A i \in 1..Len(stack') : stack'[i].pos <= Len(group')
    BY <1>6, BackToLoopType
       DEF Return, RecoverReturn, GZipSkip, UserCode, Middleware
  <2>2. QED
    BY <1>6, <2>1 DEF Return, RecoverReturn, GZipSkip, TypeOK
<1>7. CASE RecoverNext \/ GZipNext
  <2>1. /\ index' \in 0..(IndexMod - 1) /\ stack' \in Seq(Frame)
        /\ \A i \in 1..Len(stack') : stack'[i].pos <= Len(group')
    BY <1>7, PushNextType DEF RecoverNext, GZipNext, Middleware
  <2>2. QED
    BY <1>7, <2>1 DEF RecoverNext, GZipNext, TypeOK
<1>8. ASSUME NEW err \in BOOLEAN, GZipReturn(err) PROVE TypeOK'
  <2>1. hdr' \in Codes \cup {0, StatusOK}
    BY <1>8, HeaderType DEF GZipReturn, TypeOK
  <2>2. CASE err /\ ~InRange
    BY <1>8, <2>1, <2>2 DEF GZipReturn, TypeOK
  <2>3. CASE ~(err /\ ~InRange)
    <3>1. /\ index' \in 0..(IndexMod - 1) /\ stack' \in Seq(Frame)
          /\ \A i \in 1..Len(stack') : stack'[i].pos <= Len(group')
      BY <1>8, <2>3, BackToLoopType DEF GZipReturn, Middleware
    <3>2. QED
      BY <1>8, <2>1, <2>3, <3>1 DEF GZipReturn, TypeOK
  <2>4. QED
    BY <2>2, <2>3
<1>9. ASSUME UserCode, DoAbort
      PROVE  /\ abortIndex' \in 0..(IndexMod - 1)
             /\ abortBy' \in 0..MaxGroup /\ abortAt' \in Nat
  BY <1>9, TopType DEF DoAbort, UserCode, AtRun, Active, TypeOK
<1>10. CASE Abort
  BY <1>9, <1>10 DEF Abort, TypeOK
<1>11. ASSUME NEW code \in Codes, SetStatus(code) PROVE TypeOK'
  BY <1>11 DEF SetStatus, TypeOK
<1>12. ASSUME NEW code \in Codes, AbortWithStatus(code) PROVE TypeOK'
  BY <1>9, <1>12 DEF AbortWithStatus, TypeOK
<1>13. ASSUME UserCode, NEW code \in Codes \cup {0}, NEW body \in BOOLEAN,
              DoRender(code, body)
       PROVE  /\ status' \in Codes \cup {0} /\ written' \in BOOLEAN
              /\ hdr' \in Codes \cup {0, StatusOK}
              /\ output' \in BOOLEAN /\ refused' \in BOOLEAN
              /\ lostBy' \in 0..MaxGroup
  <2> DEFINE h == WriteHeader(hdr, status)
             r == WriteHeader(h, code)
  <2>1. /\ h \in Codes \cup {0, StatusOK}
        /\ r \in Codes \cup {0, StatusOK}
        /\ BodyWrite(r) \in Codes \cup {0, StatusOK}
    BY <1>13, HeaderType DEF TypeOK
  <2>2. Top.pos \in 0..MaxGroup
    BY <1>13, TopType DEF UserCode, AtRun, Active
  <2>3. hdr' \in {h, r, BodyWrite(r)}
    BY <1>13 DEF DoRender
  <2>4. lostBy' \in 0..MaxGroup
    BY <1>13, <2>2 DEF DoRender, LoseBody, TypeOK
  <2>5. /\ status' \in Codes \cup {0} /\ written' \in BOOLEAN
        /\ output' \in BOOLEAN /\ refused' \in BOOLEAN
    BY <1>13 DEF DoRender, TypeOK
  <2>6. QED
    BY <2>1, <2>3, <2>4, <2>5
<1>14. ASSUME NEW code \in Codes \cup {0}, NEW body \in BOOLEAN,
              Render(code, body)
       PROVE  TypeOK'
  BY <1>13, <1>14 DEF Render, TypeOK
<1>15. ASSUME NEW body \in BOOLEAN, AbortWithBody(body) PROVE TypeOK'
  BY <1>9, <1>13, <1>15 DEF AbortWithBody, TypeOK
<1>16. ASSUME NEW code \in Codes \cup {0}, Write(code) PROVE TypeOK'
  <2>1. Top.pos \in 0..MaxGroup
    BY <1>16, TopType DEF Write, UserCode, AtRun, Active
  <2>2. hdr' \in Codes \cup {0, StatusOK}
    BY <1>16, HeaderType DEF Write, TypeOK
  <2>3. lostBy' \in 0..MaxGroup
    BY <1>16, <2>1 DEF Write, LoseBody, TypeOK
  <2>4. QED
    BY <1>16, <2>2, <2>3 DEF Write, TypeOK
<1>17. CASE Panic
  BY <1>17 DEF Panic, TypeOK
<1>18. CASE Recover
  <2> DEFINE f == [Top EXCEPT !.pc = "rec"]
  <2>1. stack \in Seq(Frame) /\ stack # <<>> /\ Top \in Frame
    BY <1>18, TopType DEF Recover, Unwinding, TypeOK
  <2>2. f \in Frame /\ f.pos = Top.pos
    BY <2>1 DEF Frame
  <2>3. stack' = [stack EXCEPT ![Len(stack)] = f]
    BY <1>18 DEF Recover, Top
  <2> HIDE DEF f
  <2>4. /\ stack' \in Seq(Frame)
        /\ Len(stack') = Len(stack)
        /\ stack'[Len(stack)] = f
        /\ \A i \in 1..(Len(stack) - 1) : stack'[i] = stack[i]
    BY <2>1, <2>2, <2>3, SetTopFacts
  <2>5. \A i \in 1..Len(stack') : stack'[i].pos <= Len(group')
    BY <1>18, <2>1, <2>2, <2>4 DEF Recover, Top, TypeOK
  <2>6. QED
    BY <1>18, <2>4, <2>5 DEF Recover, TypeOK
<1>19. CASE Unwind
  <2>1. /\ stack' \in Seq(Frame)
        /\ \A i \in 1..Len(stack') : stack'[i].pos <= Len(group')
    BY <1>19, PopType DEF Unwind, Unwinding
  <2>2. hdr' \in Codes \cup {0, StatusOK}
    BY <1>19, HeaderType DEF Unwind, TypeOK
  <2>3. QED
    BY <1>19, <2>1, <2>2 DEF Unwind, TypeOK
<1>20. CASE Finish
  <2>1. hdr' \in Codes \cup {0, StatusOK}
    BY <1>20, HeaderType DEF Finish, TypeOK
  <2>2. QED
    BY <1>20, <2>1 DEF Finish, TypeOK
<1>21. CASE Recycle
  <2>1. index' = 0 /\ status' = 0 /\ written' = FALSE /\ abortIndex' = 0
    BY <1>21 DEF Recycle, ResetCtx
  <2>2. 0 \in 0..(IndexMod - 1)
    BY ContextAssumption
  <2>3. QED
    BY <1>21, <2>1, <2>2 DEF Recycle, TypeOK
<1>22. CASE UNCHANGED vars
  BY <1>22 DEF vars, TypeOK
<1>23. QED
  BY <1>1, <1>2, <1>3, <1>4, <1>5, <1>6, <1>7, <1>8, <1>10, <1>11, <1>12,
     <1>14, <1>15, <1>16, <1>17, <1>18, <1>19, <1>20, <1>21, <1>22
     DEF Next, Progress, Handler

\* Every reachable state of the context has the types of the Go fields: the
\* index never leaves the uint8 and no frame points beyond the group, for
\* every group length, index width and number of nested Next calls.
THEOREM TypeCorrect == Spec => []TypeOK
<1>1. Init => TypeOK
  <2>1. /\ <<>> \in Seq(Kinds) /\ <<>> \in Seq(Frame)
        /\ <<>> \in Seq(1..MaxGroup) /\ Len(<<>>) = 0
    BY EmptySeq
  <2>2. 0 \in 0..(IndexMod - 1) /\ 0 \in 0..MaxGroup /\ 0 \in 0..MaxNext
    BY ContextAssumption
  <2>3. ASSUME Init PROVE /\ Len(group) <= MaxGroup
                          /\ \A i \in 1..Len(stack) : stack[i].pos <= Len(group)
    <3>1. Len(group) = 0 /\ Len(stack) = 0
      BY <2>1, <2>3 DEF Init
    <3>2. QED
      BY <3>1, ContextAssumption
  <2>4. ASSUME Init PROVE /\ group \in Seq(Kinds) /\ stack \in Seq(Frame)
                          /\ calls \in Seq(1..MaxGroup)
    BY <2>1, <2>4, Zenon DEF Init
  <2>5. ASSUME Init PROVE /\ index \in 0..(IndexMod - 1)
                          /\ abortIndex \in 0..(IndexMod - 1)
                          /\ extra \in 0..MaxNext
                          /\ abortBy \in 0..MaxGroup /\ lostBy \in 0..MaxGroup
                          /\ abortAt \in Nat
    BY <2>2, <2>5 DEF Init
  <2>6. ASSUME Init PROVE /\ status \in Codes \cup {0}
                          /\ lastSet \in Codes \cup {0}
                          /\ hdr \in Codes \cup {0, StatusOK}
                          /\ zip \in {"off", "open", "closed"}
                          /\ phase \in {"idle", "serve", "finish", "done"}
    BY <2>6 DEF Init
  <2>7. ASSUME Init PROVE /\ written \in BOOLEAN /\ panicking \in BOOLEAN
                          /\ output \in BOOLEAN /\ recovered \in BOOLEAN
                          /\ refused \in BOOLEAN
    BY <2>7 DEF Init
  <2>8. QED
    BY <2>3, <2>4, <2>5, <2>6, <2>7, Zenon DEF TypeOK
<1>2. QED
  BY <1>1, TypeStep, PTL DEF Spec

-----------------------------------------------------------------------------
(* The shape of the stack.                                                 *)

\* A call of Next keeps the shape of the stack.
LEMMA PushStack ==
    ASSUME TypeOK, StackInv, AtRun, PushNext, UNCHANGED <<group, phase>>
    PROVE  StackInv'
<1>1. stack \in Seq(Frame) /\ stack # <<>> /\ Len(stack) \in Nat \ {0}
  BY DEF TypeOK, AtRun, Active
<1>2. /\ stack' \in Seq(Frame)
      /\ Len(stack') = Len(stack) + 1
      /\ stack'[Len(stack')] = NewFrame
      /\ stack'[Len(stack)].next
      /\ stack'[Len(stack)].pos = stack[Len(stack)].pos
      /\ stack'[Len(stack)].pc = stack[Len(stack)].pc
      /\ \A i \in 1..(Len(stack) - 1) : stack'[i] = stack[i]
  BY <1>1, PushFacts DEF PushNext
<1>3. stack' # <<>> /\ phase' = "serve"
  BY <1>1, <1>2, EmptySeq DEF AtRun, Active
<1>4. stack[Len(stack)].pc # "loop"
  BY DEF AtRun, Top
<1>5. NewFrame.pc = "loop"
  BY DEF NewFrame
<1>6. ASSUME NEW i \in 1..(Len(stack') - 1)
      PROVE  stack'[i].pc # "loop" /\ stack'[i].next
  <2>1. CASE i < Len(stack)
    BY <1>1, <1>2, <2>1 DEF StackInv
  <2>2. CASE i = Len(stack)
    BY <1>2, <1>4, <2>2
  <2>3. QED
    BY <1>1, <1>2, <2>1, <2>2
<1>7. ASSUME NEW i \in 1..Len(stack')
      PROVE  /\ stack'[i].pc = "rec" => stack'[i].next
             /\ stack'[i].pc # "loop" => stack'[i].pos # 0
  <2>1. CASE i < Len(stack)
    BY <1>1, <1>2, <2>1 DEF StackInv
  <2>2. CASE i = Len(stack)
    BY <1>1, <1>2, <1>4, <2>2 DEF StackInv
  <2>3. CASE i = Len(stack')
    BY <1>2, <1>5, <2>3
  <2>4. QED
    BY <1>1, <1>2, <2>1, <2>2, <2>3
<1>8. QED
  BY <1>3, <1>6, <1>7 DEF StackInv

\* Replacing the top frame by f keeps the shape.
LEMMA SetTopStack ==
    ASSUME TypeOK, StackInv, stack # <<>>, UNCHANGED phase,
           NEW f \in Frame, stack' = [stack EXCEPT ![Len(stack)] = f],
           f.pc = "rec" => f.next,
           f.pc # "loop" => f.pos # 0
    PROVE  StackInv'
<1>1. stack \in Seq(Frame) /\ Len(stack) \in Nat \ {0}
  BY DEF TypeOK
<1>2. /\ stack' \in Seq(Frame)
      /\ Len(stack') = Len(stack)
      /\ stack'[Len(stack)] = f
      /\ \A i \in 1..(Len(stack) - 1) : stack'[i] = stack[i]
  BY <1>1, SetTopFacts
<1>3. stack' # <<>> /\ phase' = "serve"
  BY <1>1, <1>2, EmptySeq DEF StackInv
<1>4. \A i \in 1..(Len(stack') - 1) : stack'[i].pc # "loop" /\ stack'[i].next
  BY <1>1, <1>2 DEF StackInv
<1>5. ASSUME NEW i \in 1..Len(stack')
      PROVE  /\ stack'[i].pc = "rec" => stack'[i].next
             /\ stack'[i].pc # "loop" => stack'[i].pos # 0
  <2>1. i \in 1..(Len(stack) - 1) \/ i = Len(stack)
    BY ONLY <1>1, <1>2, <1>5
  <2>2. CASE i \in 1..(Len(stack) - 1)
    <3>1. stack'[i] = stack[i] /\ i \in 1..Len(stack)
      BY ONLY <1>1, <1>2, <2>2
    <3>2. QED
      BY <3>1 DEF StackInv
  <2>3. CASE i = Len(stack)
    BY <1>2, <2>3
  <2>4. QED
    BY <2>1, <2>2, <2>3
<1>6. QED
  BY <1>3, <1>4, <1>5 DEF StackInv

\* Leaving a Next call keeps the shape of the stack.
LEMMA PopStack ==
    ASSUME TypeOK, StackInv, stack # <<>>, stack' = Below,
           phase' = IF Below = <<>> THEN "finish" ELSE phase
    PROVE  /\ StackInv'
           /\ Len(stack') = Len(stack) - 1
           /\ phase' = "serve" => /\ Len(stack') >= 1
                                  /\ Top'.pc # "loop"
                                  /\ Top'.next
           /\ phase' = "serve" \/ phase' = "finish"
<1>1. stack \in Seq(Frame) /\ Len(stack) \in Nat \ {0}
  BY DEF TypeOK
<1>2. /\ stack' \in Seq(Frame)
      /\ Len(stack') = Len(stack) - 1
      /\ \A i \in 1..(Len(stack) - 1) : stack'[i] = stack[i]
      /\ stack' = <<>> <=> Len(stack) = 1
  BY <1>1, PopFacts DEF Below
<1>3. /\ phase' = "serve" <=> stack' # <<>>
      /\ phase' = "serve" \/ phase' = "finish"
  BY DEF StackInv
<1>4. \A i \in 1..(Len(stack') - 1) : stack'[i].pc # "loop" /\ stack'[i].next
  BY <1>1, <1>2 DEF StackInv
<1>5. \A i \in 1..Len(stack') : /\ stack'[i].pc = "rec" => stack'[i].next
                                /\ stack'[i].pc # "loop" => stack'[i].pos # 0
  BY <1>1, <1>2 DEF StackInv
<1>6. ASSUME phase' = "serve"
      PROVE  Len(stack') >= 1 /\ Top'.pc # "loop" /\ Top'.next
  <2>1. Len(stack') \in 1..(Len(stack) - 1)
    BY <1>1, <1>2, <1>3, <1>6
  <2>2. Top' = stack[Len(stack')]
    BY <1>2, <2>1 DEF Top
  <2>3. QED
    BY <2>1, <2>2 DEF StackInv
<1>7. QED
  BY <1>2, <1>3, <1>4, <1>5, <1>6 DEF StackInv

-----------------------------------------------------------------------------
(* The index.                                                              *)

\* The integers the index argument is about.
LEMMA Numbers ==
    ASSUME TypeOK
    PROVE  /\ index \in Nat /\ index < IndexMod /\ abortIndex \in Nat
           /\ Len(group) \in Nat /\ Len(calls) \in Nat /\ Len(stack) \in Nat
           /\ extra \in Nat /\ IndexMod \in Nat
           /\ stack # <<>> => Len(stack) >= 1
           /\ Running \in Int /\ Pending \in {0, 1}
           /\ stack # <<>> => Running >= 0
<1>1. /\ index \in 0..(IndexMod - 1) /\ abortIndex \in 0..(IndexMod - 1)
      /\ extra \in 0..MaxNext
      /\ IndexMod \in Nat /\ MaxNext \in Nat
  BY ContextAssumption DEF TypeOK
<1>2. /\ Len(group) \in Nat /\ Len(calls) \in Nat /\ Len(stack) \in Nat
      /\ stack # <<>> => Len(stack) >= 1
  BY EmptySeq DEF TypeOK
<1>3. /\ Running \in Int /\ Pending \in {0, 1}
      /\ stack # <<>> => Running >= 0
  BY <1>2 DEF Running, Pending
<1>4. QED
  BY <1>1, <1>2, <1>3

\* The increment a Next call makes was accounted for.
LEMMA PushArithmetic ==
    ASSUME NEW i \in Int, NEW d \in Int, NEW p \in Int, NEW e \in Int,
           NEW e2 \in Int, NEW c \in Int, NEW n \in Int, NEW m \in Int,
           i + d + p <= 1 + e + 2 * c, e + 1 <= e2 + p, c <= n, d >= 1
    PROVE  /\ (i + 1) + d + 0 <= 1 + e2 + 2 * c
           /\ 2 * n + e2 + 1 < m => i + 1 < m
OBVIOUS

\* A call of Next keeps the index in step with the calls made.
LEMMA PushIndex ==
    ASSUME TypeOK, TypeOK', StackInv, Fits', Len(calls) <= Len(group),
           IndexInv, AtRun, PushNext,
           UNCHANGED <<group, phase, calls, abortIndex, panicking>>,
           extra + 1 <= extra' + Pending
    PROVE  IndexInv' /\ (Exhausted => Exhausted')
<1>0. extra' \in Nat
  BY ContextAssumption DEF TypeOK
<1>1. stack \in Seq(Frame) /\ stack # <<>>
  BY DEF TypeOK, AtRun, Active
<1>2. /\ Len(stack') = Len(stack) + 1
      /\ stack'[Len(stack')] = NewFrame
  BY <1>1, PushFacts DEF PushNext
<1>3. Top' = NewFrame /\ NewFrame.pc = "loop"
  BY <1>2 DEF Top, NewFrame
<1>4. Running = Len(stack) /\ Running' = Len(stack) /\ Pending' = 0
  <2>1. Running = Len(stack)
    BY DEF AtRun, Running
  <2>2. Running' = Len(stack') - 1
    BY <1>3 DEF Running
  <2>3. Pending' = 0
    BY <1>3 DEF Pending
  <2>4. QED
    BY <1>2, <2>1, <2>2, <2>3, Numbers
<1>5. /\ index >= 1
      /\ index + Running + Pending <= 1 + extra + 2 * Len(calls)
      /\ Running <= Len(calls)
      /\ index = Len(calls) \/ Exhausted
  BY DEF IndexInv, AtRun, Active
<1>6. index + 1 < IndexMod
  <2>1. 2 * Len(group) + extra' + 1 < IndexMod
    BY DEF Fits
  <2>2. /\ index \in Int /\ Len(calls) \in Int /\ Len(stack) \in Int
        /\ extra \in Int /\ extra' \in Int /\ Pending \in Int
        /\ Len(group) \in Int /\ Len(stack) >= 1 /\ IndexMod \in Int
    BY <1>0, <1>1, Numbers
  <2>3. index + Len(stack) + Pending <= 1 + extra + 2 * Len(calls)
    BY <1>4, <1>5
  <2>4. \A m \in Int : 2 * Len(group) + extra' + 1 < m => index + 1 < m
    BY <2>2, <2>3, PushArithmetic
  <2>5. 2 * Len(group) + extra' + 1 < IndexMod => index + 1 < IndexMod
    BY ONLY <2>2, <2>4
  <2>6. QED
    BY <2>1, <2>5
<1>7. index' = index + 1
  BY <1>6, Numbers DEF PushNext, Inc
<1>8. /\ index' >= 1
      /\ index' + Running' + Pending' <= 1 + extra' + 2 * Len(calls')
  <2>1. /\ index \in Int /\ Len(calls) \in Int /\ Len(stack) \in Int
        /\ extra \in Int /\ extra' \in Int /\ Pending \in Int
        /\ Len(group) \in Int /\ Len(stack) >= 1
    BY <1>0, <1>1, Numbers
  <2>2. index + Len(stack) + Pending <= 1 + extra + 2 * Len(calls)
    BY <1>4, <1>5
  <2>3. (index + 1) + Len(stack) + 0 <= 1 + extra' + 2 * Len(calls)
    BY <2>1, <2>2, PushArithmetic
  <2>4. Len(calls') = Len(calls)
    OBVIOUS
  <2>5. QED
    BY <1>4, <1>5, <1>7, <2>1, <2>3, <2>4
<1>9. Exhausted => Exhausted'
  BY <1>7, Numbers DEF Exhausted, IsAborted
<1>10. index' = Len(calls') + 1 \/ Exhausted'
  BY <1>5, <1>7, <1>9
<1>11. ~panicking'
  BY DEF AtRun, Active
<1>12. Running' <= Len(calls')
  BY <1>4, <1>5
<1>13. QED
  BY <1>3, <1>8, <1>9, <1>10, <1>11, <1>12 DEF IndexInv

\* A handler's return keeps the index in step with the calls made.
LEMMA BackIndex ==
    ASSUME TypeOK, TypeOK', StackInv, Fits, Len(calls) <= Len(group),
           IndexInv, AtRun, BackToLoop, ~panicking',
           UNCHANGED <<group, phase, calls, abortIndex, extra>>
    PROVE  IndexInv' /\ (Exhausted => Exhausted')
<1>1. stack \in Seq(Frame) /\ stack # <<>>
  BY DEF TypeOK, AtRun, Active
<1>2. NewFrame \in Frame /\ NewFrame.pc = "loop"
  BY ContextAssumption DEF NewFrame, Frame
<1>3. Len(stack') = Len(stack) /\ stack'[Len(stack)] = NewFrame
  BY <1>1, <1>2, SetTopFacts DEF BackToLoop
<1>4. Top' = NewFrame
  BY <1>3 DEF Top
<1>5. Running = Len(stack) /\ Running' = Len(stack) - 1 /\ Pending' = 0
  <2>1. Running = Len(stack)
    BY DEF AtRun, Running
  <2>2. Running' = Len(stack') - 1
    BY <1>2, <1>4 DEF Running
  <2>3. Pending' = 0
    BY <1>2, <1>4 DEF Pending
  <2>4. QED
    BY <1>3, <2>1, <2>2, <2>3
<1>6. /\ index >= 1
      /\ index + Running + Pending <= 1 + extra + 2 * Len(calls)
      /\ Running <= Len(calls)
      /\ index = Len(calls) \/ Exhausted
  BY DEF IndexInv, AtRun, Active
<1>7. index + 1 < IndexMod
  <2>1. 2 * Len(group) + extra + 1 < IndexMod
    BY DEF Fits
  <2>2. QED
    BY <1>1, <1>5, <1>6, <2>1, Numbers
<1>8. index' = index + 1
  BY <1>7, Numbers DEF BackToLoop, Inc
<1>9. /\ index' >= 1
      /\ index' + Running' + Pending' <= 1 + extra' + 2 * Len(calls')
  BY <1>5, <1>6, <1>8, Numbers
<1>10. Exhausted => Exhausted'
  BY <1>8, Numbers DEF Exhausted, IsAborted
<1>11. index' = Len(calls') + 1 \/ Exhausted'
  BY <1>6, <1>8, <1>10
<1>12. Running' <= Len(calls')
  BY <1>5, <1>6, Numbers
<1>13. QED
  BY <1>2, <1>4, <1>9, <1>10, <1>11, <1>12 DEF IndexInv

\* The position the loop calls is the next one, and the lookup in range.
LEMMA CallIndex ==
    ASSUME TypeOK, TypeOK', StackInv, Fits, OnceInOrder, IndexInv, CallHandler
    PROVE  IndexInv' /\ OnceInOrder'
<1>0. UNCHANGED <<group, index, abortIndex, phase, panicking, extra>>
  BY DEF CallHandler, chain
<1> DEFINE p == Dec(index) + 1
           f == [pos |-> p, pc |-> "run", next |-> FALSE]
<1>1. /\ stack \in Seq(Frame) /\ stack # <<>> /\ phase = "serve"
      /\ ~panicking /\ Top.pc = "loop" /\ ~IsAborted
      /\ Len(calls) <= Len(group)
      /\ \A i \in 1..Len(calls) : calls[i] = i
  BY DEF TypeOK, CallHandler, AtLoop, Active, LoopCond, OnceInOrder
<1>2. /\ index >= 1
      /\ index + Running + Pending <= 1 + extra + 2 * Len(calls)
      /\ Running <= Len(calls)
      /\ index = Len(calls) + 1 \/ Exhausted
  BY <1>1 DEF IndexInv
<1>3. Len(group) < IndexMod /\ index <= Len(group)
  <2>1. Len(group) < IndexMod
    BY Numbers DEF Fits
  <2>2. QED
    BY <2>1 DEF CallHandler, LoopCond, Trunc
<1>4. index = Len(calls) + 1
  BY <1>1, <1>2, <1>3, Numbers DEF Exhausted
<1>5. p = index /\ p \in 1..MaxGroup
  <2>1. p = index
    BY <1>2, Numbers DEF Dec
  <2>2. Len(group) <= MaxGroup /\ MaxGroup \in Nat
    BY ContextAssumption DEF TypeOK
  <2>3. QED
    BY <1>2, <1>3, <2>1, <2>2, Numbers
<1>6. f \in Frame /\ f.pos = p /\ f.pc = "run" /\ ~f.next
  BY <1>5 DEF Frame
<1>7. stack' = [stack EXCEPT ![Len(stack)] = f] /\ calls' = Append(calls, p)
  BY DEF CallHandler
<1> HIDE DEF p, f
<1>8. Len(stack') = Len(stack) /\ stack'[Len(stack)] = f
  BY <1>1, <1>6, <1>7, SetTopFacts
<1>9. Top' = f
  BY <1>8 DEF Top
<1>10. calls \in Seq(1..MaxGroup)
  BY DEF TypeOK
<1>11. /\ Len(calls') = Len(calls) + 1
       /\ \A i \in 1..Len(calls) : calls'[i] = calls[i]
       /\ calls'[Len(calls) + 1] = p
  BY ONLY <1>5, <1>7, <1>10, AppendProperties
<1>12. OnceInOrder'
  <2>1. Len(calls') <= Len(group')
    BY <1>0, <1>3, <1>4, <1>11, Numbers
  <2>2. ASSUME NEW i \in 1..Len(calls') PROVE calls'[i] = i
    <3>1. CASE i \in 1..Len(calls)
      BY <1>1, <1>11, <3>1
    <3>2. CASE i = Len(calls) + 1
      BY <1>4, <1>5, <1>11, <3>2
    <3>3. QED
      BY <1>11, <3>1, <3>2, Numbers
  <2>3. QED
    BY <2>1, <2>2 DEF OnceInOrder
<1>13. Running' = Running + 1 /\ Pending' \in {0, 1}
  <2>1. Running = Len(stack) - 1
    BY <1>1 DEF Running
  <2>2. Running' = Len(stack')
    BY <1>6, <1>9 DEF Running
  <2>3. Pending' \in {0, 1}
    BY DEF Pending
  <2>4. QED
    BY <1>8, <2>1, <2>2, <2>3, Numbers
<1>14. index' + Running' + Pending' <= 1 + extra' + 2 * Len(calls')
  <2>1. /\ index \in Nat /\ Len(calls) \in Nat /\ extra \in Nat
        /\ Running \in Int /\ Pending \in {0, 1}
        /\ index' = index /\ extra' = extra
    BY <1>0, Numbers
  <2>2. QED
    BY ONLY <1>2, <1>11, <1>13, <2>1
<1>15. index' = Len(calls') /\ f.pos = Len(calls') /\ index' >= 1
  BY <1>0, <1>2, <1>4, <1>5, <1>6, <1>11, Numbers
<1>16. Running' <= Len(calls')
  BY <1>2, <1>11, <1>13, Numbers
<1>17. QED
  BY <1>6, <1>9, <1>12, <1>14, <1>15, <1>16 DEF IndexInv

\* The end of a Next loop keeps the index in step with the calls made.
LEMMA PopIndex ==
    ASSUME TypeOK, StackInv, IndexInv, stack # <<>>, stack' = Below,
           phase' = IF Below = <<>> THEN "finish" ELSE phase,
           UNCHANGED <<group, index, abortIndex, panicking, calls, extra>>,
           Top.pc = "loop" => Exhausted
    PROVE  /\ IndexInv'
           /\ phase' # "serve" /\ ~panicking' => Top.pc # "loop" \/ Exhausted'
<1>1. phase = "serve"
  BY DEF StackInv
<1>2. /\ index >= 1
      /\ index + Running + Pending <= 1 + extra + 2 * Len(calls)
      /\ Running <= Len(calls)
      /\ index = Len(calls) \/ Exhausted
  BY <1>1 DEF IndexInv
<1>3. Exhausted' = Exhausted
  BY DEF Exhausted, IsAborted
<1>4. ASSUME phase' = "serve" PROVE IndexInv'
  <2>1. /\ Len(stack') = Len(stack) - 1 /\ Len(stack') >= 1
        /\ Top'.pc # "loop" /\ Top'.next
    BY <1>4, PopStack
  <2>2. Running' = Len(stack) - 1 /\ Pending' = 0
    BY <2>1 DEF Running, Pending
  <2>3. Running = Len(stack) - 1 \/ Running = Len(stack)
    BY DEF Running
  <2>4. Running' <= Running
    BY <2>2, <2>3, Numbers
  <2>5. /\ index' + Running' + Pending' <= 1 + extra' + 2 * Len(calls')
        /\ Running' <= Len(calls')
    <3>1. /\ index \in Int /\ Running \in Int /\ Running' \in Int
          /\ Pending \in {0, 1} /\ extra \in Int /\ Len(calls) \in Int
          /\ index' = index /\ extra' = extra /\ Len(calls') = Len(calls)
      BY <2>2, Numbers
    <3>2. QED
      BY ONLY <1>2, <2>2, <2>4, <3>1
  <2>6. index' >= 1 /\ (index' = Len(calls') \/ Exhausted')
    BY <1>2, <1>3
  <2>7. QED
    BY <2>1, <2>5, <2>6 DEF IndexInv
<1>5. QED
  BY <1>3, <1>4 DEF IndexInv

\* The parts of the invariant that mention neither index nor stack.
LEMMA SameIndex ==
    ASSUME TypeOK, IndexInv,
           UNCHANGED <<group, index, stack, phase, calls, extra>>,
           panicking' = panicking \/ (phase = "serve" => Top.pc # "loop"),
           abortIndex' = abortIndex \/ abortIndex' = index
    PROVE  IndexInv'
<1>1. Top' = Top /\ Running' = Running /\ Pending' = Pending
  BY DEF Top, Running, Pending
<1>2. ASSUME phase = "serve" PROVE Exhausted => Exhausted'
  BY <1>2, Numbers DEF Exhausted, IsAborted, IndexInv
<1>3. QED
  BY <1>1, <1>2 DEF IndexInv

-----------------------------------------------------------------------------
(* ChainInv is inductive.  Each lemma covers the actions of one shape.     *)

\* Next called by a handler.
LEMMA PushStep ==
    ASSUME TypeOK, TypeOK', ChainInv, AtRun, PushNext,
           UNCHANGED <<group, phase, calls, abortIndex, panicking, abortBy,
                       abortAt>>,
           extra + 1 <= extra' + Pending
    PROVE  ChainInv'
<1>1. phase = "serve" /\ phase' = "serve"
  BY DEF AtRun, Active
<1>2. StackInv'
  BY PushStack DEF ChainInv
<1>3. ASSUME Fits' PROVE Fits
  <2>1. /\ extra \in Int /\ extra' \in Int /\ Len(group) \in Int
        /\ IndexMod \in Int /\ Pending \in {0, 1}
    BY Numbers, ContextAssumption DEF TypeOK
  <2>2. 2 * Len(group) + extra' + 1 < IndexMod
    BY <1>3 DEF Fits
  <2>3. extra <= extra'
    <3>1. Pending \in Int /\ Pending <= 1
      BY Numbers
    <3>2. \A e, e2, p \in Int : e + 1 <= e2 + p /\ p <= 1 => e <= e2
      OBVIOUS
    <3>3. QED
      BY ONLY <2>1, <3>1, <3>2, extra + 1 <= extra' + Pending
  <2>4. 2 * Len(group) + extra + 1 < IndexMod
    BY ONLY <2>1, <2>2, <2>3
  <2>5. QED
    BY <2>4 DEF Fits
<1>4. ASSUME Fits' PROVE OnceInOrder' /\ IndexInv' /\ EndInv' /\ AbortStops'
  <2>1. Fits /\ OnceInOrder /\ IndexInv /\ EndInv /\ AbortStops
    BY <1>3, <1>4 DEF ChainInv
  <2>2. Len(calls) <= Len(group) /\ StackInv
    BY <2>1 DEF OnceInOrder, ChainInv
  <2>3. IndexInv'
    BY <1>4, <2>1, <2>2, PushIndex
  <2>4. OnceInOrder' /\ AbortStops'
    BY <2>1 DEF OnceInOrder, AbortStops
  <2>5. EndInv'
    BY <1>1, <2>1 DEF EndInv
  <2>6. QED
    BY <2>3, <2>4, <2>5
<1>5. QED
  BY <1>1, <1>2, <1>4 DEF ChainInv

\* A handler returns.
LEMMA BackStep ==
    ASSUME TypeOK, TypeOK', ChainInv, AtRun, BackToLoop, ~panicking',
           UNCHANGED <<group, phase, calls, extra, abortIndex, abortBy,
                       abortAt>>
    PROVE  ChainInv'
<1>1. phase = "serve" /\ phase' = "serve" /\ stack # <<>>
  BY DEF AtRun, Active
<1>2. NewFrame \in Frame /\ NewFrame.pc = "loop"
  BY ContextAssumption DEF NewFrame, Frame
<1>3. stack' = [stack EXCEPT ![Len(stack)] = NewFrame]
  BY DEF BackToLoop
<1>4. StackInv'
  BY <1>1, <1>2, <1>3, SetTopStack DEF ChainInv
<1>5. ASSUME Fits' PROVE OnceInOrder' /\ IndexInv' /\ EndInv' /\ AbortStops'
  <2>1. Fits
    BY <1>5 DEF Fits
  <2>2. StackInv /\ OnceInOrder /\ IndexInv /\ EndInv /\ AbortStops
    BY <2>1 DEF ChainInv
  <2>3. Len(calls) <= Len(group)
    BY <2>1, <2>2 DEF OnceInOrder
  <2>4. IndexInv'
    BY <2>1, <2>2, <2>3, BackIndex
  <2>5. OnceInOrder' /\ AbortStops'
    BY <2>1, <2>2 DEF OnceInOrder, AbortStops
  <2>6. EndInv'
    BY <1>1, <2>2 DEF EndInv
  <2>7. QED
    BY <2>4, <2>5, <2>6
<1>6. QED
  BY <1>1, <1>4, <1>5 DEF ChainInv

\* Next returns only when the chain has nothing more to run.
LEMMA ExitExhausted ==
    ASSUME TypeOK, Fits, OnceInOrder, IndexInv, phase = "serve",
           Top.pc = "loop", ~LoopCond
    PROVE  Exhausted
<1>1. index = Len(calls) + 1 \/ Exhausted
  BY DEF IndexInv
<1>2. Len(calls) <= Len(group) /\ Len(group) < IndexMod
  BY Numbers DEF OnceInOrder, Fits
<1>3. index > Len(group) \/ IsAborted
  BY <1>2, Numbers DEF LoopCond, Trunc
<1>4. CASE IsAborted
  BY <1>4 DEF Exhausted
<1>5. CASE index > Len(group) /\ index = Len(calls) + 1
  BY <1>2, <1>5, Numbers DEF Exhausted
<1>6. QED
  BY <1>1, <1>3, <1>4, <1>5

\* Next returns, or a panic pops the frame.
LEMMA PopStep ==
    ASSUME TypeOK, TypeOK', ChainInv, stack # <<>>, stack' = Below,
           phase' = IF Below = <<>> THEN "finish" ELSE phase,
           UNCHANGED <<group, index, abortIndex, panicking, calls, extra,
                       abortBy, abortAt>>,
           (AtLoop /\ ~LoopCond) \/ panicking
    PROVE  ChainInv'
<1>1. StackInv' /\ phase = "serve" /\ phase' # "idle"
  BY PopStack DEF ChainInv, StackInv
<1>2. ASSUME Fits' PROVE OnceInOrder' /\ IndexInv' /\ EndInv' /\ AbortStops'
  <2>1. Fits
    BY <1>2 DEF Fits
  <2>2. StackInv /\ OnceInOrder /\ IndexInv /\ EndInv /\ AbortStops
    BY <2>1 DEF ChainInv
  <2>3. Len(calls) <= Len(group) /\ Len(group) < IndexMod
    BY <2>1, <2>2, Numbers DEF OnceInOrder, Fits
  <2>4. ASSUME Top.pc = "loop" PROVE Exhausted
    <3>1. ~panicking
      BY <1>1, <2>2, <2>4 DEF IndexInv
    <3>2. QED
      BY <1>1, <2>1, <2>2, <2>4, <3>1, ExitExhausted DEF AtLoop
  <2>5. /\ IndexInv'
        /\ phase' # "serve" /\ ~panicking' => Top.pc # "loop" \/ Exhausted'
    BY <2>2, <2>4, PopIndex
  <2>6. OnceInOrder' /\ AbortStops'
    BY <2>1, <2>2 DEF OnceInOrder, AbortStops
  <2>7. ~panicking' => Top.pc = "loop"
    BY DEF AtLoop
  <2>8. EndInv'
    BY <1>1, <2>2, <2>5, <2>7 DEF EndInv
  <2>9. QED
    BY <2>5, <2>6, <2>8
<1>3. QED
  BY <1>1, <1>2 DEF ChainInv

\* The index and the stack stay; a handler may abort or panic.
LEMMA SameStep ==
    ASSUME TypeOK, TypeOK', ChainInv, AtRun,
           UNCHANGED <<group, index, stack, phase, calls, extra>>,
           DoAbort \/ UNCHANGED <<abortIndex, abortBy, abortAt>>
    PROVE  ChainInv'
<1>1. phase = "serve" /\ stack # <<>> /\ Top.pc # "loop"
  BY DEF AtRun, Active
<1>2. StackInv'
  BY DEF ChainInv, StackInv
<1>3. ASSUME Fits' PROVE OnceInOrder' /\ IndexInv' /\ EndInv' /\ AbortStops'
  <2>1. Fits
    BY <1>3 DEF Fits
  <2>2. StackInv /\ OnceInOrder /\ IndexInv /\ EndInv /\ AbortStops
    BY <2>1 DEF ChainInv
  <2>3. IndexInv'
    BY <1>1, <2>2, SameIndex DEF DoAbort
  <2>4. OnceInOrder'
    BY <2>1, <2>2 DEF OnceInOrder
  <2>5. index >= 1 /\ Len(calls) >= 1
    <3>1. index >= 1 /\ Running <= Len(calls)
      BY <1>1, <2>2 DEF IndexInv
    <3>2. Running = Len(stack)
      BY <1>1 DEF Running
    <3>3. QED
      BY <1>1, <3>1, <3>2, Numbers
  <2>6. Top.pos # 0
    <3>1. Len(stack) \in 1..Len(stack)
      BY <1>1, Numbers
    <3>2. QED
      BY <1>1, <2>2, <3>1 DEF StackInv, Top
  <2>7. CASE DoAbort
    <3>1. abortIndex' # 0 /\ abortBy' # 0
      BY <2>5, <2>6, <2>7, Numbers DEF DoAbort
    <3>2. abortAt' # 0 /\ Len(calls') = abortAt'
      BY <2>1, <2>2, <2>5, <2>7, Numbers DEF DoAbort, AbortStops
    <3>3. QED
      BY <1>1, <2>3, <2>4, <3>1, <3>2 DEF EndInv, AbortStops
  <2>8. CASE UNCHANGED <<abortIndex, abortBy, abortAt>>
    BY <1>1, <2>1, <2>2, <2>3, <2>4, <2>8 DEF EndInv, AbortStops
  <2>9. QED
    BY <2>7, <2>8
<1>4. QED
  BY <1>1, <1>2, <1>3 DEF ChainInv

\* Calling the next handler preserves the chain invariant.
LEMMA CallStep ==
    ASSUME TypeOK, TypeOK', ChainInv, CallHandler
    PROVE  ChainInv'
<1> DEFINE f == [pos |-> Dec(index) + 1, pc |-> "run", next |-> FALSE]
<1>1. /\ phase = "serve" /\ stack # <<>> /\ ~IsAborted
      /\ UNCHANGED <<group, index, abortIndex, phase, panicking, extra,
                     abortBy, abortAt>>
  BY DEF CallHandler, AtLoop, Active, LoopCond, chain
<1>2. f \in Frame /\ f.pc = "run" /\ f.pos # 0
  <2>1. Dec(index) \in Nat /\ Dec(index) < Len(group)
    BY IndexFacts DEF CallHandler, InRange, TypeOK
  <2>2. Len(group) \in Nat /\ Len(group) <= MaxGroup /\ MaxGroup \in Nat
    BY Numbers, ContextAssumption DEF TypeOK
  <2>3. QED
    BY <2>1, <2>2 DEF Frame
<1>3. stack' = [stack EXCEPT ![Len(stack)] = f]
  BY DEF CallHandler
<1> HIDE DEF f
<1>4. StackInv'
  BY <1>1, <1>2, <1>3, SetTopStack DEF ChainInv
<1>5. ASSUME Fits' PROVE OnceInOrder' /\ IndexInv' /\ EndInv' /\ AbortStops'
  <2>1. Fits
    BY <1>1, <1>5 DEF Fits
  <2>2. StackInv /\ OnceInOrder /\ IndexInv /\ EndInv /\ AbortStops
    BY <2>1 DEF ChainInv
  <2>3. IndexInv' /\ OnceInOrder'
    BY <2>1, <2>2, CallIndex
  <2>4. abortIndex = 0 /\ abortAt = 0
    BY <1>1, <2>2 DEF EndInv, IsAborted
  <2>5. EndInv' /\ AbortStops'
    BY <1>1, <2>2, <2>4 DEF EndInv, AbortStops
  <2>6. QED
    BY <2>3, <2>5
<1>6. QED
  BY <1>1, <1>4, <1>5 DEF ChainInv

\* RecoverHandler stops a panic and runs its callback.
LEMMA RecoverStep ==
    ASSUME TypeOK, TypeOK', ChainInv, Recover
    PROVE  ChainInv'
<1> DEFINE f == [Top EXCEPT !.pc = "rec"]
<1>1. /\ phase = "serve" /\ stack # <<>> /\ Top.pc = "run" /\ Top.next
      /\ UNCHANGED <<group, index, abortIndex, phase, calls, extra, abortBy,
                     abortAt>>
  BY DEF Recover, Unwinding, chain
<1>2. Top \in Frame /\ Top.pos # 0
  <2>1. Len(stack) \in 1..Len(stack)
    BY <1>1, Numbers
  <2>2. QED
    BY <1>1, <2>1, TopType DEF ChainInv, StackInv, Top
<1>3. f \in Frame /\ f.pc = "rec" /\ f.next /\ f.pos # 0
  BY <1>1, <1>2 DEF Frame
<1>4. stack' = [stack EXCEPT ![Len(stack)] = f]
  BY DEF Recover, Top
<1> HIDE DEF f
<1>5. StackInv'
  BY <1>1, <1>3, <1>4, SetTopStack DEF ChainInv
<1>6. Len(stack') = Len(stack) /\ Top' = f
  <2>1. stack \in Seq(Frame)
    BY DEF TypeOK
  <2>2. Len(stack') = Len(stack) /\ stack'[Len(stack)] = f
    BY <1>1, <1>3, <1>4, <2>1, SetTopFacts
  <2>3. QED
    BY <2>2 DEF Top
<1>7. Running' = Running /\ Pending' = Pending
  <2>1. Running = Len(stack) /\ Pending = 0
    BY <1>1 DEF Running, Pending
  <2>2. Running' = Len(stack') /\ Pending' = 0
    BY <1>3, <1>6 DEF Running, Pending
  <2>3. QED
    BY <1>6, <2>1, <2>2
<1>8. ASSUME Fits' PROVE OnceInOrder' /\ IndexInv' /\ EndInv' /\ AbortStops'
  <2>1. Fits
    BY <1>1, <1>8 DEF Fits
  <2>2. OnceInOrder /\ IndexInv /\ EndInv /\ AbortStops
    BY <2>1 DEF ChainInv
  <2>3. Exhausted' = Exhausted
    BY <1>1 DEF Exhausted, IsAborted
  <2>4. IndexInv'
    BY <1>1, <1>3, <1>6, <1>7, <2>2, <2>3 DEF IndexInv
  <2>5. OnceInOrder' /\ EndInv' /\ AbortStops'
    BY <1>1, <2>1, <2>2 DEF OnceInOrder, EndInv, AbortStops
  <2>6. QED
    BY <2>4, <2>5
<1>9. QED
  BY <1>1, <1>5, <1>8 DEF ChainInv

\* A request starts on a context that reset() or New has cleared.
LEMMA ServeStep ==
    ASSUME TypeOK, TypeOK', ChainInv, NEW g \in Groups, Serve(g)
    PROVE  ChainInv'
<1>1. /\ phase' = "serve" /\ stack' = <<NewFrame>> /\ ~panicking'
      /\ calls' = <<>> /\ extra' = 0 /\ abortBy' = 0 /\ abortAt' = 0
      /\ index' = Inc(0) /\ abortIndex' = 0
  BY DEF Serve, ChainInv
<1>2. index' = 1 \/ index' = 0
  BY <1>1, ContextAssumption DEF Inc
<1>3. index' = 1
  BY <1>1, <1>2, ContextAssumption DEF Inc
<1>4. Len(stack') = 1 /\ stack'[1] = NewFrame /\ stack' # <<>>
  BY <1>1
<1>5. Top' = NewFrame /\ NewFrame.pc = "loop"
  BY <1>4 DEF Top, NewFrame
<1>6. StackInv'
  BY <1>1, <1>4, <1>5 DEF StackInv
<1>7. Running' = 0 /\ Pending' = 0
  BY <1>4, <1>5 DEF Running, Pending
<1>8. Len(calls') = 0 /\ Len(group') \in Nat
  BY <1>1, EmptySeq DEF TypeOK
<1>9. IndexInv'
  BY <1>1, <1>3, <1>5, <1>7, <1>8 DEF IndexInv
<1>10. OnceInOrder' /\ EndInv' /\ AbortStops'
  BY <1>1, <1>8 DEF OnceInOrder, EndInv, AbortStops
<1>11. QED
  BY <1>1, <1>6, <1>9, <1>10 DEF ChainInv

\* finish() and the recycling of the context leave the chain's history alone.
LEMMA OutsideStep ==
    ASSUME TypeOK, TypeOK', ChainInv, Finish \/ Recycle
    PROVE  ChainInv'
<1>1. UNCHANGED <<group, stack, calls, extra, abortBy, abortAt, panicking>>
  BY DEF Finish, Recycle, chain, hist
<1>2. phase # "serve" /\ phase' # "serve"
  BY DEF Finish, Recycle
<1>3. StackInv'
  BY <1>1, <1>2 DEF ChainInv, StackInv
<1>4. phase' = "idle" => index' = 0 /\ abortIndex' = 0
  BY DEF Finish, Recycle, ResetCtx
<1>5. ASSUME Fits' PROVE OnceInOrder' /\ IndexInv' /\ EndInv' /\ AbortStops'
  <2>1. Fits
    BY <1>1, <1>5 DEF Fits
  <2>2. OnceInOrder /\ EndInv /\ AbortStops
    BY <2>1 DEF ChainInv
  <2>3. OnceInOrder' /\ AbortStops' /\ IndexInv'
    BY <1>1, <1>2, <2>1, <2>2 DEF OnceInOrder, AbortStops, IndexInv
  <2>4. CASE Finish
    BY <1>1, <2>2, <2>3, <2>4 DEF Finish, EndInv, Exhausted, IsAborted, chain
  <2>5. CASE Recycle
    BY <2>3, <2>5 DEF Recycle, EndInv
  <2>6. QED
    BY <2>4, <2>5
<1>6. QED
  BY <1>3, <1>4, <1>5 DEF ChainInv

\* The index out of range in the loop needs a wrapped index.
LEMMA LoopPanicStep ==
    ASSUME TypeOK, TypeOK', ChainInv, LoopPanic
    PROVE  ChainInv'
<1>1. /\ phase = "serve"
      /\ UNCHANGED <<group, index, abortIndex, stack, phase, calls, extra>>
  BY DEF LoopPanic, AtLoop, Active, chain, hist
<1>2. ~Fits
  <2>1. SUFFICES ASSUME Fits PROVE FALSE
    OBVIOUS
  <2>2. index >= 1 /\ ~InRange /\ LoopCond
    BY <1>1, <2>1 DEF ChainInv, IndexInv, LoopPanic
  <2>3. Len(group) < IndexMod
    BY <2>1, Numbers DEF Fits
  <2>4. QED
    BY <2>2, <2>3, Numbers DEF InRange, LoopCond, Trunc, Dec
<1>3. ~Fits' /\ StackInv'
  BY <1>1, <1>2 DEF Fits, ChainInv, StackInv
<1>4. QED
  BY <1>1, <1>3 DEF ChainInv

\* Every step of the context preserves the chain invariant.
LEMMA ChainStep == TypeOK /\ TypeOK' /\ ChainInv /\ [Next]_vars => ChainInv'
<1> SUFFICES ASSUME TypeOK, TypeOK', ChainInv, [Next]_vars PROVE ChainInv'
  OBVIOUS
<1> USE DEF chain, resp, ctl, hist
<1>1. ASSUME NEW g \in Groups, Serve(g) PROVE ChainInv'
  BY <1>1, ServeStep
<1>2. CASE CallHandler
  BY <1>2, CallStep
<1>3. CASE LoopPanic
  BY <1>3, LoopPanicStep
<1>4. CASE ExitLoop
  BY <1>4, PopStep DEF ExitLoop, AtLoop, Active
<1>5. CASE HandlerNext
  <2>1. extra + 1 <= extra' + Pending
    <3>1. extra' = extra + 1 /\ extra \in Int
      BY <1>5, Numbers DEF HandlerNext
    <3>2. Pending \in Int /\ Pending >= 0
      BY Numbers
    <3>3. QED
      BY ONLY <3>1, <3>2
  <2>2. QED
    BY <1>5, <2>1, PushStep DEF HandlerNext, UserCode
<1>6. CASE Return \/ RecoverReturn \/ GZipSkip
  BY <1>6, BackStep
     DEF Return, RecoverReturn, GZipSkip, UserCode, Middleware, AtRun, Active
<1>7. CASE RecoverNext \/ GZipNext
  <2>1. extra + 1 <= extra' + Pending
    <3>1. extra' = extra /\ extra \in Int
      BY <1>7, Numbers DEF RecoverNext, GZipNext
    <3>2. Pending = 1
      BY <1>7 DEF RecoverNext, GZipNext, Middleware, Pending
    <3>3. QED
      BY ONLY <3>1, <3>2
  <2>2. QED
    BY <1>7, <2>1, PushStep DEF RecoverNext, GZipNext, Middleware
<1>8. ASSUME NEW err \in BOOLEAN, GZipReturn(err) PROVE ChainInv'
  <2>1. CASE err /\ ~InRange
    BY <1>8, <2>1, SameStep DEF GZipReturn, Middleware
  <2>2. CASE ~(err /\ ~InRange)
    BY <1>8, <2>2, BackStep DEF GZipReturn, Middleware
  <2>3. QED
    BY <2>1, <2>2
<1>9. CASE Abort \/ Panic
  BY <1>9, SameStep DEF Abort, Panic, UserCode
<1>10. ASSUME NEW code \in Codes, SetStatus(code) \/ AbortWithStatus(code)
       PROVE  ChainInv'
  BY <1>10, SameStep DEF SetStatus, AbortWithStatus, UserCode
<1>11. ASSUME NEW code \in Codes \cup {0}, Write(code) PROVE ChainInv'
  BY <1>11, SameStep DEF Write, UserCode
<1>12. ASSUME NEW code \in Codes \cup {0}, NEW body \in BOOLEAN,
              Render(code, body)
       PROVE  ChainInv'
  BY <1>12, SameStep DEF Render, UserCode
<1>13. ASSUME NEW body \in BOOLEAN, AbortWithBody(body) PROVE ChainInv'
  BY <1>13, SameStep DEF AbortWithBody, UserCode
<1>14. CASE Recover
  BY <1>14, RecoverStep
<1>15. CASE Unwind
  BY <1>15, PopStep DEF Unwind, Unwinding
<1>16. CASE Finish \/ Recycle
  BY <1>16, OutsideStep
<1>17. CASE UNCHANGED vars
  BY <1>17 DEF vars, ChainInv, StackInv, OnceInOrder, IndexInv, EndInv,
               AbortStops, Fits, Exhausted, IsAborted, Running, Pending, Top
<1>18. QED
  BY <1>1, <1>2, <1>3, <1>4, <1>5, <1>6, <1>7, <1>8, <1>9, <1>10, <1>11,
     <1>12, <1>13, <1>14, <1>15, <1>16, <1>17
     DEF Next, Progress, Handler

\* A new, zero Context satisfies the chain invariant.
LEMMA ChainInit == Init => ChainInv
<1> SUFFICES ASSUME Init PROVE ChainInv
  OBVIOUS
<1>1. /\ phase = "idle" /\ index = 0 /\ abortIndex = 0 /\ abortAt = 0
      /\ Len(stack) = 0 /\ stack = <<>> /\ Len(calls) = 0 /\ Len(group) = 0
  BY EmptySeq DEF Init
<1>2. StackInv
  BY <1>1 DEF StackInv
<1>3. OnceInOrder /\ IndexInv /\ EndInv /\ AbortStops
  BY <1>1 DEF OnceInOrder, IndexInv, EndInv, AbortStops
<1>4. QED
  BY <1>1, <1>2, <1>3 DEF ChainInv

\* The invariant the chain properties rest on holds in every reachable state.
THEOREM ChainInvariant == Spec => [](TypeOK /\ ChainInv)
<1>1. TypeOK /\ ChainInv /\ [Next]_vars => (TypeOK /\ ChainInv)'
  BY TypeStep, ChainStep
<1>2. Spec => []TypeOK
  BY TypeCorrect
<1>3. QED
  BY <1>1, <1>2, ChainInit, PTL DEF Spec

\* Handlers run at most once and in order, for every group and every number
\* of nested Next calls that fit the index.
THEOREM HandlersOnceInOrder == Spec => []OnceInOrder
<1>1. TypeOK /\ ChainInv => OnceInOrder
  BY DEF ChainInv, OnceInOrder
<1>2. QED
  BY <1>1, ChainInvariant, PTL

\* ctx.BluePrint() is the one of the running handler until it calls Next.
THEOREM BluePrintIsCurrent == Spec => []CurrentBluePrint
<1>1. TypeOK /\ ChainInv => CurrentBluePrint
  BY DEF ChainInv, IndexInv, CurrentBluePrint, AtRun, Active
<1>2. QED
  BY <1>1, ChainInvariant, PTL

\* A request that ends without panic and Abort has run all its handlers.
THEOREM NoHandlerSkipped == Spec => []AllHandlersRan
<1>1. TypeOK /\ ChainInv => AllHandlersRan
  BY DEF ChainInv, EndInv, AllHandlersRan, Exhausted, IsAborted
<1>2. QED
  BY <1>1, ChainInvariant, PTL

\* After Abort no further handler is started.
THEOREM AbortIsFinal == Spec => []AbortStops
<1>1. TypeOK /\ ChainInv => AbortStops
  BY DEF ChainInv, AbortStops
<1>2. QED
  BY <1>1, ChainInvariant, PTL

-----------------------------------------------------------------------------
(* The status line.                                                        *)

\* Until something is rendered or written, Context.status is the code set last
\* and no status line was sent, unless GZip took over the response.
StatusInv ==
    /\ phase = "idle" => status = 0 /\ ~written
    /\ phase \in {"serve", "finish"} /\ ~output =>
          status = lastSet /\ ~written /\ (zip = "off" => hdr = 0)
    /\ StatusDelivered

\* Every step preserves StatusInv.
LEMMA StatusStep == TypeOK /\ StatusInv /\ [Next]_vars => StatusInv'
<1> SUFFICES ASSUME TypeOK, StatusInv, [Next]_vars PROVE StatusInv'
  OBVIOUS
<1> USE DEF chain, resp, ctl, hist
<1>1. ASSUME NEW g \in Groups, Serve(g) PROVE StatusInv'
  BY <1>1 DEF Serve, StatusInv, StatusDelivered
<1>2. CASE CallHandler \/ LoopPanic \/ HandlerNext \/ Return \/ RecoverNext
             \/ RecoverReturn \/ GZipSkip \/ Abort \/ Panic \/ Recover
  <2>1. /\ UNCHANGED <<resp, phase, lastSet, output>>
        /\ phase = "serve"
    BY <1>2 DEF CallHandler, LoopPanic, HandlerNext, Return, RecoverNext,
                RecoverReturn, GZipSkip, Abort, Panic, Recover, Unwinding,
                AtLoop, UserCode, Middleware, AtRun, Active
  <2>2. QED
    BY <2>1 DEF StatusInv, StatusDelivered
<1>3. CASE ExitLoop
  BY <1>3 DEF ExitLoop, AtLoop, Active, StatusInv, StatusDelivered
<1>4. CASE GZipNext
  BY <1>4 DEF GZipNext, Middleware, AtRun, Active, StatusInv, StatusDelivered
<1>5. ASSUME NEW err \in BOOLEAN, GZipReturn(err) PROVE StatusInv'
  BY <1>5 DEF GZipReturn, Middleware, AtRun, Active, StatusInv,
              StatusDelivered
<1>6. ASSUME NEW code \in Codes, SetStatus(code) \/ AbortWithStatus(code)
      PROVE  StatusInv'
  BY <1>6 DEF SetStatus, AbortWithStatus, UserCode, AtRun, Active, StatusInv,
              StatusDelivered
<1>7. ASSUME \/ \E code \in Codes \cup {0} : Write(code)
             \/ \E code \in Codes \cup {0}, body \in BOOLEAN :
                   Render(code, body)
             \/ \E body \in BOOLEAN : AbortWithBody(body)
      PROVE  StatusInv'
  <2>1. output' = TRUE /\ phase' = "serve"
    BY <1>7 DEF Write, Render, AbortWithBody, DoRender, UserCode, AtRun, Active
  <2>2. QED
    BY <2>1 DEF StatusInv, StatusDelivered
<1>8. CASE Unwind
  BY <1>8 DEF Unwind, Unwinding, StatusInv, StatusDelivered
<1>9. CASE Finish
  BY <1>9 DEF Finish, StatusInv, StatusDelivered, WriteHeader
<1>10. CASE Recycle
  BY <1>10 DEF Recycle, ResetCtx, StatusInv, StatusDelivered
<1>11. CASE UNCHANGED vars
  BY <1>11 DEF vars, StatusInv, StatusDelivered
<1>12. QED
  BY <1>1, <1>2, <1>3, <1>4, <1>5, <1>6, <1>7, <1>8, <1>9, <1>10, <1>11
     DEF Next, Progress, Handler

\* The code a handler set last reaches the client when nothing was rendered,
\* written raw or compressed, whether the chain ended well or in a panic.
THEOREM StatusReachesClient == Spec => []StatusDelivered
<1>1. Init => StatusInv
  BY DEF Init, StatusInv, StatusDelivered
<1>2. StatusInv => StatusDelivered
  BY DEF StatusInv
<1>3. QED
  BY <1>1, <1>2, TypeCorrect, StatusStep, PTL DEF Spec

-----------------------------------------------------------------------------
(* GZip and the bodies its closed writer swallows.                         *)

\* Handlers on the stack were called one after the other: their positions grow.
OrderInv ==
    phase = "serve" =>
        /\ \A k \in 1..Len(stack) : stack[k].pos <= Len(calls)
        /\ \A k, l \in 1..Len(stack) :
              k < l /\ stack[l].pc # "loop" => stack[k].pos < stack[l].pos

\* All handlers still on the stack were registered before a gzip handler.
BeforeGZip(n) ==
    \E g \in 1..Len(group) :
        group[g] = "gzip" /\ \A k \in 1..n : stack[k].pos < g

\* Without a recovered panic, a handler whose Next returned has the rest of the
\* chain behind it, so GZip closes its writer only when none is left to run.
ZipInv ==
    phase = "serve" /\ ~recovered /\ ~panicking =>
        /\ Top.pc = "run" /\ Top.next => Exhausted
        /\ zip = "closed" => Exhausted /\ BeforeGZip(Len(stack))

GZipInv == GZipLosesOnlyOutside /\ (Fits => OrderInv /\ ZipInv)

\* An exhausted chain calls no handler.
LEMMA ExhaustedStops ==
    ASSUME TypeOK, Fits, Exhausted
    PROVE  ~LoopCond
<1>1. Len(group) < IndexMod
  BY Numbers DEF Fits
<1>2. QED
  BY <1>1, Numbers DEF Exhausted, LoopCond, Trunc

\* A call of Next.
LEMMA PushGZip ==
    ASSUME TypeOK, TypeOK', ChainInv, GZipInv, AtRun, PushNext,
           UNCHANGED <<group, phase, panicking, calls, abortIndex, recovered,
                       lostBy>>,
           extra + 1 <= extra' + Pending, extra' >= extra,
           zip' = "closed" => zip = "closed"
    PROVE  GZipInv'
<1>1. phase = "serve" /\ phase' = "serve" /\ stack # <<>> /\ ~panicking
      /\ stack \in Seq(Frame) /\ Len(stack) \in Nat \ {0}
  BY Numbers DEF AtRun, Active, TypeOK
<1>2. /\ Len(stack') = Len(stack) + 1
      /\ stack'[Len(stack')] = NewFrame
      /\ stack'[Len(stack)].pos = stack[Len(stack)].pos
      /\ stack'[Len(stack)].pc = stack[Len(stack)].pc
      /\ \A i \in 1..(Len(stack) - 1) : stack'[i] = stack[i]
      /\ NewFrame.pos = 0 /\ NewFrame.pc = "loop"
  BY <1>1, PushFacts DEF PushNext, NewFrame
<1>3. \A k \in 1..Len(stack) : /\ stack'[k].pos = stack[k].pos
                               /\ stack'[k].pc = stack[k].pc
  BY <1>1, <1>2
<1>4. \A k \in 1..Len(stack') : k \in 1..Len(stack) \/ k = Len(stack')
  BY <1>1, <1>2
<1>5. Fits' => Fits
  <2>1. extra' \in Nat
    BY ContextAssumption DEF TypeOK
  <2>2. QED
    BY <2>1, Numbers DEF Fits
<1>6. GZipLosesOnlyOutside'
  BY <1>5 DEF GZipInv, GZipLosesOnlyOutside
<1>7. ASSUME Fits' PROVE OrderInv' /\ ZipInv'
  <2>1. OrderInv /\ ZipInv /\ StackInv /\ OnceInOrder /\ IndexInv
    BY <1>5, <1>7 DEF GZipInv, ChainInv
  <2>2. Len(calls) <= Len(group) /\ Len(calls) \in Nat
    BY <1>5, <1>7, <2>1, Numbers DEF OnceInOrder
  <2>3. OrderInv'
    <3>1. \A k \in 1..Len(stack') : stack'[k].pos <= Len(calls)
      BY <1>1, <1>2, <1>3, <1>4, <2>1, <2>2 DEF OrderInv
    <3>2. ASSUME NEW k \in 1..Len(stack'), NEW l \in 1..Len(stack'),
                 k < l, stack'[l].pc # "loop"
          PROVE  stack'[k].pos < stack'[l].pos
      <4>1. l \in 1..Len(stack) /\ k \in 1..Len(stack)
        BY <1>1, <1>2, <1>4, <3>2
      <4>2. QED
        BY <1>1, <1>3, <2>1, <3>2, <4>1 DEF OrderInv
    <3>3. QED
      BY <1>1, <3>1, <3>2 DEF OrderInv
  <2>4. Exhausted => Exhausted'
    BY <1>7, <2>1, <2>2, PushIndex
  <2>5. Top'.pc = "loop"
    BY <1>2 DEF Top
  <2>6. BeforeGZip(Len(stack)) => BeforeGZip(Len(stack))'
    <3> SUFFICES ASSUME NEW g \in 1..Len(group), group[g] = "gzip",
                        \A k \in 1..Len(stack) : stack[k].pos < g
                 PROVE  \A k \in 1..Len(stack') : stack'[k].pos < g
      BY DEF BeforeGZip
    <3>1. 0 < g
      BY Numbers
    <3>2. QED
      BY <1>2, <1>3, <1>4, <3>1
  <2>7. ZipInv'
    BY <1>1, <2>1, <2>4, <2>5, <2>6 DEF ZipInv
  <2>8. QED
    BY <2>3, <2>7
<1>8. QED
  BY <1>6, <1>7 DEF GZipInv

\* A handler returns; when it is GZip, its writer is closed.
LEMMA BackGZip ==
    ASSUME TypeOK, TypeOK', ChainInv, GZipInv, AtRun, BackToLoop, ~panicking',
           UNCHANGED <<group, phase, calls, extra, abortIndex, recovered,
                       lostBy>>,
           \/ zip' = zip
           \/ Top.pc = "run" /\ Top.next /\ group[Top.pos] = "gzip"
    PROVE  GZipInv'
<1>1. phase = "serve" /\ phase' = "serve" /\ stack # <<>> /\ ~panicking
      /\ stack \in Seq(Frame) /\ Len(stack) \in Nat \ {0}
      /\ Top.pc # "loop"
  BY Numbers DEF AtRun, Active, TypeOK
<1>2. NewFrame \in Frame /\ NewFrame.pos = 0 /\ NewFrame.pc = "loop"
  BY ContextAssumption DEF NewFrame, Frame
<1>3. /\ Len(stack') = Len(stack)
      /\ stack'[Len(stack)] = NewFrame
      /\ \A i \in 1..(Len(stack) - 1) : stack'[i] = stack[i]
  BY <1>1, <1>2, SetTopFacts DEF BackToLoop
<1>4. \A k \in 1..Len(stack) : k \in 1..(Len(stack) - 1) \/ k = Len(stack)
  BY <1>1
<1>5. Fits' <=> Fits
  BY DEF Fits
<1>6. GZipLosesOnlyOutside'
  BY <1>5 DEF GZipInv, GZipLosesOnlyOutside
<1>7. ASSUME Fits PROVE OrderInv' /\ ZipInv'
  <2>1. OrderInv /\ ZipInv /\ StackInv /\ OnceInOrder /\ IndexInv
    BY <1>7 DEF GZipInv, ChainInv
  <2>2. Len(calls) <= Len(group) /\ Len(calls) \in Nat
    BY <1>7, <2>1, Numbers DEF OnceInOrder
  <2>3. OrderInv'
    <3>1. \A k \in 1..Len(stack) : stack'[k].pos <= Len(calls)
      BY <1>1, <1>2, <1>3, <1>4, <2>1, <2>2 DEF OrderInv
    <3>2. ASSUME NEW k \in 1..Len(stack), NEW l \in 1..Len(stack),
                 k < l, stack'[l].pc # "loop"
          PROVE  stack'[k].pos < stack'[l].pos
      <4>1. l \in 1..(Len(stack) - 1) /\ k \in 1..(Len(stack) - 1)
        BY <1>1, <1>2, <1>3, <1>4, <3>2
      <4>2. QED
        BY <1>1, <1>3, <2>1, <3>2, <4>1 DEF OrderInv
    <3>3. QED
      BY <1>1, <1>3, <3>1, <3>2 DEF OrderInv
  <2>4. Exhausted => Exhausted'
    BY <1>7, <2>1, <2>2, BackIndex
  <2>5. Top'.pc = "loop"
    BY <1>2, <1>3 DEF Top
  <2>6. BeforeGZip(Len(stack) - 1) => BeforeGZip(Len(stack))'
    <3> SUFFICES ASSUME NEW g \in 1..Len(group), group[g] = "gzip",
                        \A k \in 1..(Len(stack) - 1) : stack[k].pos < g
                 PROVE  \A k \in 1..Len(stack') : stack'[k].pos < g
      BY DEF BeforeGZip
    <3>1. QED
      BY <1>2, <1>3, <1>4, Numbers
  <2>7. ASSUME ~recovered, zip' = "closed"
        PROVE  Exhausted /\ BeforeGZip(Len(stack) - 1)
    <3>1. CASE zip' = zip
      <4>1. Exhausted /\ BeforeGZip(Len(stack))
        BY <1>1, <2>1, <2>7, <3>1 DEF ZipInv
      <4>2. QED
        BY <1>1, <4>1 DEF BeforeGZip
    <3>2. CASE Top.pc = "run" /\ Top.next /\ group[Top.pos] = "gzip"
      <4>1. Exhausted
        BY <1>1, <2>1, <2>7, <3>2 DEF ZipInv
      <4>2. Top.pos \in 1..Len(group)
        <5>1. Top.pos \in 0..MaxGroup /\ Top.pos <= Len(group)
          BY <1>1, TopType
        <5>2. Top.pos # 0
          BY <1>1, <2>1 DEF StackInv, Top
        <5>3. QED
          BY <5>1, <5>2, Numbers, ContextAssumption
      <4>3. \A k \in 1..(Len(stack) - 1) : stack[k].pos < Top.pos
        BY <1>1, <2>1 DEF OrderInv, Top
      <4>4. QED
        BY <3>2, <4>1, <4>2, <4>3 DEF BeforeGZip
    <3>3. QED
      BY <3>1, <3>2
  <2>8. ZipInv'
    BY <1>1, <2>4, <2>5, <2>6, <2>7 DEF ZipInv
  <2>9. QED
    BY <2>3, <2>8
<1>8. QED
  BY <1>5, <1>6, <1>7 DEF GZipInv

\* Next returns, or a panic pops the frame.
LEMMA PopGZip ==
    ASSUME TypeOK, TypeOK', ChainInv, GZipInv, stack # <<>>, stack' = Below,
           phase' = IF Below = <<>> THEN "finish" ELSE phase,
           UNCHANGED <<group, index, abortIndex, panicking, calls, extra,
                       recovered, lostBy>>,
           (AtLoop /\ ~LoopCond /\ zip' = zip) \/ panicking
    PROVE  GZipInv'
<1>1. /\ phase = "serve" /\ stack \in Seq(Frame)
      /\ Len(stack) \in Nat /\ Len(stack') \in Nat
  BY Numbers, EmptySeq DEF ChainInv, StackInv, TypeOK
<1>2. /\ Len(stack') = Len(stack) - 1
      /\ \A i \in 1..(Len(stack) - 1) : stack'[i] = stack[i]
  BY <1>1, PopFacts DEF Below
<1>3. \A k \in 1..Len(stack') : k \in 1..Len(stack) /\ stack'[k] = stack[k]
  BY <1>1, <1>2
<1>4. Fits' <=> Fits
  BY DEF Fits
<1>5. GZipLosesOnlyOutside'
  BY <1>4 DEF GZipInv, GZipLosesOnlyOutside
<1>6. ASSUME Fits PROVE OrderInv' /\ ZipInv'
  <2>1. OrderInv /\ ZipInv /\ OnceInOrder /\ IndexInv
    BY <1>6 DEF GZipInv, ChainInv
  <2>2. OrderInv'
    BY <1>1, <1>3, <2>1 DEF OrderInv
  <2>3. ASSUME ~panicking PROVE Exhausted' /\ zip' = zip
    <3>1. Exhausted
      BY <1>1, <1>6, <2>1, <2>3, ExitExhausted DEF AtLoop
    <3>2. QED
      BY <2>3, <3>1 DEF Exhausted, IsAborted
  <2>4. BeforeGZip(Len(stack)) => BeforeGZip(Len(stack))'
    BY <1>3 DEF BeforeGZip
  <2>5. ZipInv'
    BY <1>1, <2>1, <2>3, <2>4 DEF ZipInv
  <2>6. QED
    BY <2>2, <2>5
<1>7. QED
  BY <1>4, <1>5, <1>6 DEF GZipInv

\* The index and the stack stay: a handler does something with its context, or
\* GZip's deferred function panics.  A body lost now is lost by a handler on the
\* stack.
LEMMA SameGZip ==
    ASSUME TypeOK, TypeOK', ChainInv, ChainInv', GZipInv, AtRun,
           UNCHANGED <<group, index, stack, phase, calls, extra, recovered>>,
           panicking' \/ zip' = zip,
           DoAbort \/ UNCHANGED <<abortIndex, abortBy, abortAt>>,
           lostBy' = lostBy \/ (zip = "closed" /\ lostBy' = Top.pos)
    PROVE  GZipInv'
<1>1. phase = "serve" /\ stack # <<>> /\ ~panicking /\ Len(stack) \in Nat \ {0}
  BY Numbers DEF AtRun, Active
<1>2. Fits' <=> Fits
  BY DEF Fits
<1>3. ASSUME Fits PROVE OrderInv' /\ ZipInv'
  <2>1. OrderInv /\ ZipInv /\ IndexInv
    BY <1>3 DEF GZipInv, ChainInv
  <2>2. OrderInv'
    BY <2>1 DEF OrderInv
  <2>3. index # 0
    BY <1>1, <2>1, Numbers DEF IndexInv
  <2>4. Exhausted => Exhausted'
    BY <2>3 DEF Exhausted, IsAborted, DoAbort
  <2>5. BeforeGZip(Len(stack)) => BeforeGZip(Len(stack))'
    BY DEF BeforeGZip
  <2>6. ZipInv'
    BY <1>1, <2>1, <2>4, <2>5 DEF ZipInv, Top
  <2>7. QED
    BY <2>2, <2>6
<1>4. GZipLosesOnlyOutside'
  <2> SUFFICES ASSUME Fits, lostBy' # 0, ~recovered
               PROVE  \E i \in (lostBy' + 1)..Len(group) : group[i] = "gzip"
    BY <1>2 DEF GZipLosesOnlyOutside
  <2>1. CASE lostBy' = lostBy
    BY <2>1 DEF GZipInv, GZipLosesOnlyOutside
  <2>2. CASE zip = "closed" /\ lostBy' = Top.pos
    <3>1. BeforeGZip(Len(stack))
      BY <1>1, <2>2 DEF GZipInv, ZipInv
    <3>2. PICK g \in 1..Len(group) : group[g] = "gzip" /\ Top.pos < g
      BY <1>1, <3>1 DEF BeforeGZip, Top
    <3>3. Top.pos \in Nat /\ Len(group) \in Nat
      BY <1>1, TopType, Numbers, ContextAssumption
    <3>4. g \in (lostBy' + 1)..Len(group)
      BY <2>2, <3>2, <3>3
    <3>5. QED
      BY <3>2, <3>4
  <2>3. QED
    BY <2>1, <2>2
<1>5. QED
  BY <1>2, <1>3, <1>4 DEF GZipInv

\* The next handler is called: its position is beyond all those on the stack,
\* and the chain was not exhausted.
LEMMA CallGZip ==
    ASSUME TypeOK, TypeOK', ChainInv, ChainInv', GZipInv, CallHandler
    PROVE  GZipInv'
<1> DEFINE p == Dec(index) + 1
           f == [pos |-> p, pc |-> "run", next |-> FALSE]
<1>1. /\ phase = "serve" /\ stack # <<>> /\ ~panicking /\ LoopCond
      /\ stack \in Seq(Frame) /\ Len(stack) \in Nat \ {0}
      /\ UNCHANGED <<group, index, abortIndex, phase, panicking, extra,
                     recovered, lostBy, zip>>
  BY Numbers DEF CallHandler, AtLoop, Active, TypeOK, chain, resp
<1>2. p \in Nat /\ f \in Frame /\ f.pos = p /\ ~f.next
  <2>1. Dec(index) \in Nat /\ Dec(index) < Len(group)
    BY IndexFacts DEF CallHandler, InRange, TypeOK
  <2>2. Len(group) \in Nat /\ Len(group) <= MaxGroup /\ MaxGroup \in Nat
    BY Numbers, ContextAssumption DEF TypeOK
  <2>3. QED
    BY <2>1, <2>2 DEF Frame
<1>3. stack' = [stack EXCEPT ![Len(stack)] = f] /\ calls' = Append(calls, p)
  BY DEF CallHandler
<1> HIDE DEF f, p
<1>4. /\ Len(stack') = Len(stack)
      /\ stack'[Len(stack)] = f
      /\ \A i \in 1..(Len(stack) - 1) : stack'[i] = stack[i]
  BY <1>1, <1>2, <1>3, SetTopFacts
<1>5. /\ Len(calls') = Len(calls) + 1 /\ calls'[Len(calls')] = p
      /\ Len(calls) \in Nat
  BY <1>2, <1>3, Numbers DEF TypeOK
<1>6. Fits' <=> Fits
  BY <1>1 DEF Fits
<1>7. GZipLosesOnlyOutside'
  BY <1>1, <1>6 DEF GZipInv, GZipLosesOnlyOutside
<1>8. ASSUME Fits PROVE OrderInv' /\ ZipInv'
  <2>1. OrderInv /\ ZipInv /\ OnceInOrder'
    BY <1>6, <1>8 DEF GZipInv, ChainInv
  <2>2. p = Len(calls) + 1
    BY <1>5, <1>6, <1>8, <2>1 DEF OnceInOrder
  <2>3. \A k \in 1..(Len(stack) - 1) : /\ stack'[k] = stack[k]
                                       /\ stack[k].pos <= Len(calls)
                                       /\ stack[k].pos \in Nat
    <3> SUFFICES ASSUME NEW k \in 1..(Len(stack) - 1)
                 PROVE  /\ stack'[k] = stack[k]
                        /\ stack[k].pos <= Len(calls)
                        /\ stack[k].pos \in Nat
      OBVIOUS
    <3>1. k \in 1..Len(stack)
      BY <1>1
    <3>2. stack[k] \in Frame
      BY <1>1, <3>1
    <3>3. stack[k].pos \in Nat
      BY <3>2, ContextAssumption DEF Frame
    <3>4. stack[k].pos <= Len(calls)
      BY <1>1, <2>1, <3>1 DEF OrderInv
    <3>5. QED
      BY <1>4, <3>3, <3>4
  <2>4. \A k \in 1..Len(stack) : k \in 1..(Len(stack) - 1) \/ k = Len(stack)
    BY <1>1
  <2>5. OrderInv'
    <3>1. \A k \in 1..Len(stack') : stack'[k].pos <= Len(calls')
      BY <1>2, <1>4, <1>5, <2>2, <2>3, <2>4
    <3>2. ASSUME NEW k \in 1..Len(stack), NEW l \in 1..Len(stack),
                 k < l, stack'[l].pc # "loop"
          PROVE  stack'[k].pos < stack'[l].pos
      <4>1. k \in 1..(Len(stack) - 1)
        BY <1>1, <3>2
      <4>2. CASE l = Len(stack)
        BY <1>2, <1>4, <1>5, <2>2, <2>3, <4>1, <4>2
      <4>3. CASE l \in 1..(Len(stack) - 1)
        BY <1>1, <2>1, <2>3, <3>2, <4>1, <4>3 DEF OrderInv
      <4>4. QED
        BY <2>4, <4>2, <4>3
    <3>3. QED
      BY <1>1, <1>4, <3>1, <3>2 DEF OrderInv
  <2>6. ~Exhausted
    BY <1>1, <1>8, ExhaustedStops
  <2>7. ~Top'.next
    BY <1>2, <1>4 DEF Top
  <2>8. ZipInv'
    BY <1>1, <2>1, <2>6, <2>7 DEF ZipInv
  <2>9. QED
    BY <2>5, <2>8
<1>9. QED
  BY <1>6, <1>7, <1>8 DEF GZipInv

\* RecoverHandler stops a panic.
LEMMA RecoverGZip ==
    ASSUME TypeOK, TypeOK', ChainInv, GZipInv, Recover
    PROVE  GZipInv'
<1> DEFINE f == [Top EXCEPT !.pc = "rec"]
<1>1. /\ phase = "serve" /\ stack # <<>> /\ Top.pc = "run"
      /\ stack \in Seq(Frame) /\ Len(stack) \in Nat \ {0}
      /\ UNCHANGED <<group, phase, extra, calls>> /\ recovered' = TRUE
  BY Numbers DEF Recover, Unwinding, TypeOK, chain
<1>2. f \in Frame /\ f.pos = Top.pos
  BY <1>1, TopType DEF Frame
<1>3. stack' = [stack EXCEPT ![Len(stack)] = f]
  BY DEF Recover, Top
<1> HIDE DEF f
<1>4. /\ Len(stack') = Len(stack)
      /\ stack'[Len(stack)] = f
      /\ \A i \in 1..(Len(stack) - 1) : stack'[i] = stack[i]
  BY <1>1, <1>2, <1>3, SetTopFacts
<1>5. \A k \in 1..Len(stack) :
         /\ stack'[k].pos = stack[k].pos
         /\ stack'[k].pc # "loop" => stack[k].pc # "loop"
  BY <1>1, <1>2, <1>4 DEF Top
<1>6. Fits' => Fits
  BY <1>1 DEF Fits
<1>7. Fits => OrderInv'
  BY <1>1, <1>4, <1>5 DEF GZipInv, OrderInv
<1>8. ZipInv' /\ GZipLosesOnlyOutside'
  BY <1>1 DEF ZipInv, GZipLosesOnlyOutside
<1>9. QED
  BY <1>6, <1>7, <1>8 DEF GZipInv

\* Every step of the context preserves GZipInv.
LEMMA GZipStep ==
    TypeOK /\ TypeOK' /\ ChainInv /\ ChainInv' /\ GZipInv /\ [Next]_vars
        => GZipInv'
<1> SUFFICES ASSUME TypeOK, TypeOK', ChainInv, ChainInv', GZipInv, [Next]_vars
             PROVE  GZipInv'
  OBVIOUS
<1> USE DEF chain, resp, ctl, hist
<1>1. ASSUME NEW g \in Groups, Serve(g) PROVE GZipInv'
  <2>1. /\ stack' = <<NewFrame>> /\ calls' = <<>> /\ zip' = "off"
        /\ lostBy' = 0
    BY <1>1 DEF Serve
  <2>2. /\ Len(stack') = 1 /\ stack'[1] = NewFrame /\ Len(calls') = 0
        /\ NewFrame.pos = 0 /\ NewFrame.pc = "loop"
    BY <2>1, EmptySeq DEF NewFrame
  <2>3. OrderInv'
    BY <2>2 DEF OrderInv
  <2>4. ZipInv' /\ GZipLosesOnlyOutside'
    BY <2>1, <2>2 DEF ZipInv, GZipLosesOnlyOutside, Top
  <2>5. QED
    BY <2>3, <2>4 DEF GZipInv
<1>2. CASE CallHandler
  BY <1>2, CallGZip
<1>3. CASE LoopPanic
  <2>1. /\ panicking' /\ UNCHANGED <<group, stack, phase, calls, extra, lostBy,
                                     recovered>>
    BY <1>3 DEF LoopPanic
  <2>2. QED
    BY <2>1 DEF GZipInv, OrderInv, ZipInv, GZipLosesOnlyOutside, Fits
<1>4. CASE ExitLoop
  BY <1>4, PopGZip DEF ExitLoop, AtLoop, Active
<1>5. CASE HandlerNext
  <2>1. extra + 1 <= extra' + Pending /\ extra' >= extra
    <3>1. extra' = extra + 1 /\ extra \in Int
      BY <1>5, Numbers DEF HandlerNext
    <3>2. Pending \in Int /\ Pending >= 0
      BY Numbers
    <3>3. QED
      BY ONLY <3>1, <3>2
  <2>2. QED
    BY <1>5, <2>1, PushGZip DEF HandlerNext, UserCode
<1>6. CASE Return \/ RecoverReturn \/ GZipSkip
  BY <1>6, BackGZip
     DEF Return, RecoverReturn, GZipSkip, UserCode, Middleware, AtRun, Active
<1>7. CASE RecoverNext \/ GZipNext
  <2>1. extra + 1 <= extra' + Pending /\ extra' >= extra
    <3>1. extra' = extra /\ extra \in Int
      BY <1>7, Numbers DEF RecoverNext, GZipNext
    <3>2. Pending = 1
      BY <1>7 DEF RecoverNext, GZipNext, Middleware, Pending
    <3>3. QED
      BY ONLY <3>1, <3>2
  <2>2. QED
    BY <1>7, <2>1, PushGZip DEF RecoverNext, GZipNext, Middleware
<1>8. ASSUME NEW err \in BOOLEAN, GZipReturn(err) PROVE GZipInv'
  <2>1. CASE err /\ ~InRange
    BY <1>8, <2>1, SameGZip DEF GZipReturn, Middleware
  <2>2. CASE ~(err /\ ~InRange)
    BY <1>8, <2>2, BackGZip DEF GZipReturn, Middleware
  <2>3. QED
    BY <2>1, <2>2
<1>9. CASE Abort \/ Panic
  BY <1>9, SameGZip DEF Abort, Panic, UserCode
<1>10. ASSUME NEW code \in Codes, SetStatus(code) \/ AbortWithStatus(code)
       PROVE  GZipInv'
  BY <1>10, SameGZip DEF SetStatus, AbortWithStatus, UserCode
<1>11. ASSUME NEW code \in Codes \cup {0}, Write(code) PROVE GZipInv'
  BY <1>11, SameGZip DEF Write, UserCode, LoseBody
<1>12. ASSUME NEW code, NEW body, DoRender(code, body)
       PROVE  lostBy' = lostBy \/ (zip = "closed" /\ lostBy' = Top.pos)
  BY <1>12 DEF DoRender, LoseBody
<1>13. ASSUME NEW code \in Codes \cup {0}, NEW body \in BOOLEAN,
              Render(code, body)
       PROVE  GZipInv'
  BY <1>12, <1>13, SameGZip DEF Render, UserCode
<1>14. ASSUME NEW body \in BOOLEAN, AbortWithBody(body) PROVE GZipInv'
  BY <1>12, <1>14, SameGZip DEF AbortWithBody, UserCode
<1>15. CASE Recover
  BY <1>15, RecoverGZip
<1>16. CASE Unwind
  BY <1>16, PopGZip DEF Unwind, Unwinding
<1>17. CASE Finish \/ Recycle
  <2>1. phase' # "serve" /\ UNCHANGED <<group, extra, lostBy, recovered>>
    BY <1>17 DEF Finish, Recycle
  <2>2. QED
    BY <2>1 DEF GZipInv, OrderInv, ZipInv, GZipLosesOnlyOutside, Fits
<1>18. CASE UNCHANGED vars
  BY <1>18 DEF vars, GZipInv, OrderInv, ZipInv, BeforeGZip, Exhausted,
               IsAborted, Top, GZipLosesOnlyOutside, Fits
<1>19. QED
  BY <1>1, <1>2, <1>3, <1>4, <1>5, <1>6, <1>7, <1>8, <1>9, <1>10, <1>11,
     <1>13, <1>14, <1>15, <1>16, <1>17, <1>18
     DEF Next, Progress, Handler

\* Without a recovered panic, only handlers registered before GZip can lose a
\* body in its closed writer, for every chain that fits the index.
THEOREM GZipKeepsInnerBodies == Spec => []GZipLosesOnlyOutside
<1>1. Init => GZipInv
  BY DEF Init, GZipInv, OrderInv, ZipInv, GZipLosesOnlyOutside
<1>2. GZipInv => GZipLosesOnlyOutside
  BY DEF GZipInv
<1>3. QED
  BY <1>1, <1>2, ChainInvariant, GZipStep, PTL DEF Spec
=============================================================================
