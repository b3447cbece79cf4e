---------------------------- MODULE PoolDCProof ----------------------------
(***************************************************************************)
(* The safety of the pool for any number of callers and connections and    *)
(* any limit.  The invariants of PoolDC are not inductive alone: that a    *)
(* connection is counted off once depends on who has swapped its deleted   *)
(* flag and not yet taken DC.mu, which Deletion says.                      *)
(***************************************************************************)
EXTENDS PoolDC, FiniteSetTheorems, TLAPS

Working == {"check", "create", "invoke", "dead", "release", "transfer"}

\* A caller has a connection exactly where the code has one in a variable, and
\* a transfer has its requester.
Held ==
  \A r \in Requests :
     /\ pc[r] \in Working <=> conn[r] # NoConn
     /\ pc[r] = "transfer" => target[r] \in Requests

\* What is referred to was created.
Created ==
  \A k \in Conns : status[k] = "none" =>
     /\ ~ InFree(k)
     /\ \A r \in Requests : conn[r] # k /\ chan[r] # k

\* Whoever swaps deleted, and no one else, goes on to the section under DC.mu.
Deletion ==
  /\ dead \subseteq deleted
  /\ \A k \in Conns : status[k] \in {"exit", "gone"} => k \in deleted
  /\ \A k \in Conns : status[k] = "exit" => k \notin dead
  /\ \A r \in Requests : pc[r] = "dead" =>
        conn[r] \in deleted \ dead /\ status[conn[r]] # "exit"
  /\ \A k \in deleted \ dead :
        status[k] = "exit" \/ \E r \in Requests : pc[r] = "dead" /\ conn[r] = k

IInv ==
  /\ TypeOK /\ Held /\ Created /\ Deletion
  /\ TotalCounts /\ OneOwner /\ FreeNoWaiters
-----------------------------------------------------------------------------
\* The entries of free are different.
Distinct == \A i, j \in 1 .. Len(free) : free[i] = free[j] => i = j

\* The value of an empty variable or channel is no connection.
LEMMA NoConnIsNone == NoConn \notin Conns
  BY ConnsAssumption DEF NoConn

\* ... so it is not in free either.
LEMMA NoneNotFree ==
  ASSUME TypeOK
  PROVE  ~ InFree(NoConn)
  <1>1. free \in Seq(Conns)
    BY DEF TypeOK
  <1> QED
    BY <1>1, NoConnIsNone DEF InFree

\* What pop does to free: its last connection, and no other, leaves.
LEMMA PopFree ==
  ASSUME free \in Seq(Conns), Distinct, free # << >>,
         free' = SubSeq(free, 1, Len(free) - 1)
  PROVE  /\ free' \in Seq(Conns) /\ free[Len(free)] \in Conns
         /\ InFree(free[Len(free)])
         /\ Distinct'
         /\ \A k : InFree(k)' <=> InFree(k) /\ k # free[Len(free)]
  <1> DEFINE n == Len(free)
  <1>1. n \in Nat \ {0}
    OBVIOUS
  <1>a. \A i \in 1 .. n - 1 : free[i] \in Conns
    BY <1>1
  <1>b. /\ SubSeq(free, 1, n - 1) \in Seq(Conns)
        /\ Len(SubSeq(free, 1, n - 1)) = IF 1 <= n - 1 THEN n - 1 - 1 + 1 ELSE 0
        /\ \A i \in 1 .. n - 1 - 1 + 1 : SubSeq(free, 1, n - 1)[i] = free[1 + i - 1]
    BY <1>1, <1>a DEF SubSeq
  <1> DEFINE popped == SubSeq(free, 1, n - 1)
  <1> HIDE DEF n, popped
  <1>c. free' = popped /\ popped \in Seq(Conns)
    BY <1>b DEF popped, n
  <1>d. Len(popped) = n - 1
    BY <1>1, <1>b DEF popped
  <1>2. free' \in Seq(Conns) /\ Len(free') = n - 1
    BY <1>c, <1>d
  <1>e. \A i \in 1 .. n - 1 : popped[i] = free[i]
    BY <1>1, <1>b DEF popped
  <1>3. \A i \in 1 .. n - 1 : free'[i] = free[i]
    BY <1>c, <1>e, Zenon
  <1> USE DEF n
  <1>4. Distinct'
    BY <1>1, <1>2, <1>3 DEF Distinct
  <1>5. free[n] \in Conns /\ InFree(free[n])
    BY <1>1 DEF InFree
  <1>6. ASSUME NEW k, InFree(k)' PROVE InFree(k) /\ k # free[n]
    BY <1>1, <1>2, <1>3, <1>6 DEF InFree, Distinct
  <1>7. ASSUME NEW k, InFree(k), k # free[n] PROVE InFree(k)'
    BY <1>1, <1>2, <1>3, <1>7 DEF InFree
  <1> QED
    BY <1>2, <1>4, <1>5, <1>6, <1>7

\* What release does to free: a connection that was not there enters.
LEMMA AppendFree ==
  ASSUME free \in Seq(Conns), Distinct, NEW c \in Conns, ~ InFree(c),
         free' = Append(free, c)
  PROVE  /\ free' \in Seq(Conns)
         /\ Distinct'
         /\ \A k : InFree(k)' <=> InFree(k) \/ k = c
  <1> DEFINE n == Len(free)
  <1>1. n \in Nat /\ free' \in Seq(Conns) /\ Len(free') = n + 1
    OBVIOUS
  <1>2. free'[n + 1] = c /\ \A i \in 1 .. n : free'[i] = free[i]
    OBVIOUS
  <1>3. Distinct'
    BY <1>1, <1>2 DEF Distinct, InFree
  <1>4. ASSUME NEW k PROVE InFree(k)' <=> InFree(k) \/ k = c
    <2>1. ASSUME InFree(k)' PROVE InFree(k) \/ k = c
      BY <1>1, <1>2, <2>1 DEF InFree
    <2>2. ASSUME InFree(k) PROVE InFree(k)'
      BY <1>1, <1>2, <2>2 DEF InFree
    <2>3. ASSUME k = c PROVE InFree(k)'
      BY <1>1, <1>2, <2>3 DEF InFree
    <2> QED
      BY <2>1, <2>2, <2>3
  <1> QED
    BY <1>1, <1>3, <1>4

\* What dead does to free: the dead connection, and no other, leaves.
LEMMA RemoveFree ==
  ASSUME free \in Seq(Conns), Distinct, NEW c, free' = WithoutConn(c)
  PROVE  /\ free' \in Seq(Conns)
         /\ Distinct'
         /\ \A k : InFree(k)' <=> InFree(k) /\ k # c
         /\ free = << >> => free' = << >>
  <1>1. CASE ~ InFree(c)
    <2>1. free' = free
      BY <1>1 DEF WithoutConn
    <2> QED
      BY <1>1, <2>1 DEF Distinct, InFree
  <1>2. CASE InFree(c)
    <2> DEFINE n == Len(free)
               Last(i) == free[i] = c /\ \A j \in 1 .. n : free[j] = c => j <= i
               idx == CHOOSE i \in 1 .. n : Last(i)
    <2>1. \E i \in 1 .. n : Last(i)
      BY <1>2 DEF InFree, Distinct
    <2>2. idx \in 1 .. n /\ free[idx] = c
      BY <2>1
    <2>3. free' = [j \in 1 .. n - 1 |-> IF j < idx THEN free[j] ELSE free[j + 1]]
      BY <1>2 DEF WithoutConn
    <2> HIDE DEF idx
    <2>4. n \in Nat \ {0}
      BY <2>2
    <2>5. free' \in Seq(Conns) /\ Len(free') = n - 1
      <3>1. \A j \in 1 .. n - 1 : (IF j < idx THEN free[j] ELSE free[j + 1]) \in Conns
        BY <2>2, <2>4
      <3> QED
        BY <2>3, <2>4, <3>1
    <2>6. \A j \in 1 .. n - 1 : free'[j] = IF j < idx THEN free[j] ELSE free[j + 1]
      BY <2>3
    <2>7. Distinct'
      BY <2>2, <2>4, <2>5, <2>6 DEF Distinct
    <2>8. ASSUME NEW k, InFree(k)' PROVE InFree(k) /\ k # c
      BY <2>2, <2>4, <2>5, <2>6, <2>8 DEF InFree, Distinct
    <2>9. ASSUME NEW k, InFree(k), k # c PROVE InFree(k)'
      <3>1. PICK i \in 1 .. n : free[i] = k
        BY <2>9 DEF InFree
      <3>2. CASE i < idx
        BY <3>1, <3>2, <2>2, <2>4, <2>5, <2>6 DEF InFree
      <3>3. CASE i > idx
        <4>1. i - 1 \in 1 .. n - 1 /\ free'[i - 1] = k
          BY <3>1, <3>3, <2>2, <2>4, <2>6
        <4> QED
          BY <4>1, <2>5 DEF InFree
      <3> QED
        BY <3>1, <3>2, <3>3, <2>2, <2>9
    <2> QED
      BY <2>5, <2>7, <2>8, <2>9, <2>4
  <1> QED
    BY <1>1, <1>2

\* Held is kept by every step.
LEMMA HeldStep ==
  ASSUME IInv, [Next]_vars
  PROVE  Held'
  <1>1. /\ pc \in [Requests -> Labels]
        /\ conn \in [Requests -> Conns \cup {NoConn}]
        /\ target \in [Requests -> Requests \cup {NoOne}]
        /\ chan \in [Requests -> Conns \cup {NoConn}]
        /\ freeReq \subseteq Requests
        /\ Held
    BY DEF IInv, TypeOK
  <1>2. ASSUME UNCHANGED <<pc, conn, target>> PROVE Held'
    BY <1>2, <1>1 DEF Held
  <1>3. ASSUME NEW r \in Requests,
                Cancel(r)
         PROVE  UNCHANGED <<pc, conn, target>>
    BY <1>3 DEF Cancel, pool, closing, requests, conns
  <1>4. ASSUME NEW k \in Conns,
                ConnReady(k) \/ ConnFails(k) \/ ConnExits(k) \/ ConnDead(k)
         PROVE  UNCHANGED <<pc, conn, target>>
    BY <1>4
     DEF ConnReady, ConnFails, ConnExits, ConnDead, DeadLocked, pool, closing,
         requests, conns
  <1>5. ASSUME ParentDone \/ Close \/ CloseReturns \/ UNCHANGED vars
         PROVE  UNCHANGED <<pc, conn, target>>
    BY <1>5
     DEF ParentDone, Close, CloseReturns, vars, pool, closing, requests, conns
  <1>6. ASSUME NEW r \in Requests, Invoke(r) PROVE Held'
    BY <1>6, <1>1, NoConnIsNone
     DEF Held, Working, Invoke, Goto, pool, closing, requests, conns
  <1>7. ASSUME NEW r \in Requests, AcquireFree(r) PROVE Held'
    <2>1. free[Len(free)] \in Conns
      BY <1>7, <1>1, PopFree DEF IInv, TypeOK, OneOwner, Distinct, AcquireFree
    <2> QED
      BY <1>7, <1>1, <2>1, NoConnIsNone, Zenon DEF Held, Working, AcquireFree, Goto, Holds
  <1>8. ASSUME NEW r \in Requests, AcquireWait(r) PROVE Held'
    BY <1>8, <1>1, NoConnIsNone
     DEF Held, Working, AcquireWait, Goto, pool, closing, requests, conns
  <1>9. ASSUME NEW r \in Requests, NEW k \in Conns, AcquireNew(r, k) PROVE Held'
    BY <1>9, <1>1, NoConnIsNone
     DEF Held, Working, AcquireNew, Goto, Holds, Fresh, pool, closing, requests,
         conns
  <1>10. ASSUME NEW r \in Requests, CheckDead(r) PROVE Held'
    BY <1>10, <1>1, NoConnIsNone
     DEF Held, Working, CheckDead, Goto, Holds, pool, closing, requests, conns
  <1>11. ASSUME NEW r \in Requests, CreateReady(r) PROVE Held'
    BY <1>11, <1>1, NoConnIsNone
     DEF Held, Working, CreateReady, Goto, pool, closing, requests, conns
  <1>12. ASSUME NEW r \in Requests, CreateDead(r) PROVE Held'
    BY <1>12, <1>1, NoConnIsNone
     DEF Held, Working, CreateDead, Goto, Holds, pool, closing, requests, conns
  <1>13. ASSUME NEW r \in Requests, CreateDone(r) PROVE Held'
    BY <1>13, <1>1, NoConnIsNone
     DEF Held, Working, CreateDone, Goto, Holds, pool, closing, requests, conns
  <1>14. ASSUME NEW r \in Requests, StuckReady(r) PROVE Held'
    BY <1>14, <1>1, NoConnIsNone
     DEF Held, Working, StuckReady, Goto, pool, closing, requests, conns
  <1>15. ASSUME NEW r \in Requests, WaitConn(r) PROVE Held'
    BY <1>15, <1>1, NoConnIsNone
     DEF Held, Working, WaitConn, Goto, Holds, pool, closing, requests, conns
  <1>16. ASSUME NEW r \in Requests, WaitStuck(r) PROVE Held'
    BY <1>16, <1>1, NoConnIsNone
     DEF Held, Working, WaitStuck, Goto, pool, closing, requests, conns
  <1>17. ASSUME NEW r \in Requests, WaitDone(r) PROVE Held'
    BY <1>17, <1>1, NoConnIsNone
     DEF Held, Working, WaitDone, Goto, pool, closing, requests, conns
  <1>18. ASSUME NEW r \in Requests, Drain(r) PROVE Held'
    BY <1>18, <1>1, NoConnIsNone
     DEF Held, Working, Drain, Goto, Holds, pool, closing, requests, conns
  <1>19. ASSUME NEW r \in Requests, InvokeReturns(r) PROVE Held'
    BY <1>19, <1>1, NoConnIsNone
     DEF Held, Working, InvokeReturns, Goto, pool, closing, requests, conns
  <1>20. ASSUME NEW r \in Requests, InvokeDead(r) PROVE Held'
    BY <1>20, <1>1, NoConnIsNone
     DEF Held, Working, InvokeDead, Goto, Holds, pool, closing, requests, conns
  <1>21. ASSUME NEW r \in Requests, Dead(r) PROVE Held'
    BY <1>21, <1>1, NoConnIsNone
     DEF Held, Working, Dead, DeadLocked, Goto, Holds, pool, closing, requests,
         conns
  <1>22. ASSUME NEW r \in Requests, ReleaseFree(r) PROVE Held'
    BY <1>22, <1>1, NoConnIsNone
     DEF Held, Working, ReleaseFree, Goto, Holds, pool, closing, requests, conns
  <1>23. ASSUME NEW r \in Requests, NEW q \in freeReq, ReleaseTransfer(r, q) PROVE Held'
    BY <1>23, <1>1, NoConnIsNone
     DEF Held, Working, ReleaseTransfer, Goto, pool, closing, requests, conns
  <1>24. ASSUME NEW r \in Requests, Transfer(r) PROVE Held'
    BY <1>24, <1>1, NoConnIsNone
     DEF Held, Working, Transfer, Goto, Holds, pool, closing, requests, conns
  <1> QED
    BY <1>2, <1>3, <1>4, <1>5, <1>6, <1>7, <1>8, <1>9, <1>10, <1>11, <1>12, <1>13,
       <1>14, <1>15, <1>16, <1>17, <1>18, <1>19, <1>20, <1>21, <1>22, <1>23, <1>24
     DEF Next, Acquire, Release

\* FreeNoWaiters is kept by every step: who registers sees no free connection,
\* who frees one sees no requester.
LEMMA WaitersStep ==
  ASSUME IInv, [Next]_vars
  PROVE  FreeNoWaiters'
  <1>1. /\ free \in Seq(Conns)
        /\ FreeNoWaiters
    BY DEF IInv, TypeOK
  <1>2. ASSUME UNCHANGED <<free, freeReq>> PROVE FreeNoWaiters'
    BY <1>2, <1>1, Zenon DEF FreeNoWaiters
  <1>3. ASSUME NEW r \in Requests,
                Invoke(r) \/ Cancel(r) \/ CheckDead(r) \/ CreateReady(r) \/
                CreateDead(r) \/ CreateDone(r) \/ StuckReady(r) \/ WaitConn(r) \/
                Drain(r) \/ InvokeReturns(r) \/ InvokeDead(r) \/ Transfer(r)
         PROVE  UNCHANGED <<free, freeReq>>
    BY <1>3, Zenon
     DEF Invoke, Cancel, CheckDead, CreateReady, CreateDead, CreateDone, StuckReady,
         WaitConn, Drain, InvokeReturns, InvokeDead, Transfer, pool, closing,
         requests, conns
  <1>4. ASSUME NEW r \in Requests, NEW k \in Conns,
                AcquireNew(r, k)
         PROVE  UNCHANGED <<free, freeReq>>
    BY <1>4 DEF AcquireNew, Fresh, pool, closing, requests, conns
  <1>5. ASSUME NEW k \in Conns,
                ConnReady(k) \/ ConnFails(k) \/ ConnExits(k)
         PROVE  UNCHANGED <<free, freeReq>>
    BY <1>5 DEF ConnReady, ConnFails, ConnExits, pool, closing, requests, conns
  <1>6. ASSUME ParentDone \/ Close \/ CloseReturns \/ UNCHANGED vars
         PROVE  UNCHANGED <<free, freeReq>>
    BY <1>6
     DEF ParentDone, Close, CloseReturns, vars, pool, closing, requests, conns
  <1>7. ASSUME NEW r \in Requests, AcquireFree(r) PROVE FreeNoWaiters'
    BY <1>7, <1>1
     DEF FreeNoWaiters, AcquireFree, Goto, Holds, pool, closing, requests, conns
  <1>8. ASSUME NEW r \in Requests, AcquireWait(r) PROVE FreeNoWaiters'
    BY <1>8, <1>1
     DEF FreeNoWaiters, AcquireWait, Goto, pool, closing, requests, conns
  <1>9. ASSUME NEW r \in Requests, WaitStuck(r) PROVE FreeNoWaiters'
    BY <1>9, <1>1 DEF FreeNoWaiters, WaitStuck, Goto, pool, closing, requests, conns
  <1>10. ASSUME NEW r \in Requests, WaitDone(r) PROVE FreeNoWaiters'
    BY <1>10, <1>1 DEF FreeNoWaiters, WaitDone, Goto, pool, closing, requests, conns
  <1>11. ASSUME NEW r \in Requests, Dead(r) PROVE FreeNoWaiters'
    <2>1. free = << >> => free' = << >>
      BY <1>11, <1>1, RemoveFree
       DEF IInv, TypeOK, OneOwner, Distinct, DeadLocked, Dead
    <2> QED
      BY <1>11, <1>1, <2>1, Zenon
       DEF FreeNoWaiters, Dead, DeadLocked, Goto, Holds, pool, closing, requests,
           conns
  <1>12. ASSUME NEW r \in Requests, ReleaseFree(r) PROVE FreeNoWaiters'
    BY <1>12, <1>1
     DEF FreeNoWaiters, ReleaseFree, Goto, Holds, pool, closing, requests, conns
  <1>13. ASSUME NEW r \in Requests, NEW q \in freeReq, ReleaseTransfer(r, q) PROVE FreeNoWaiters'
    BY <1>13, <1>1
     DEF FreeNoWaiters, ReleaseTransfer, Goto, pool, closing, requests, conns
  <1>14. ASSUME NEW k \in Conns, ConnDead(k) PROVE FreeNoWaiters'
    <2>1. free = << >> => free' = << >>
      BY <1>14, <1>1, RemoveFree, Zenon
       DEF IInv, TypeOK, OneOwner, Distinct, DeadLocked, ConnDead
    <2> QED
      BY <1>14, <1>1, <2>1
       DEF FreeNoWaiters, ConnDead, DeadLocked, pool, closing, requests, conns
  <1> QED
    BY <1>2, <1>3, <1>4, <1>5, <1>6, <1>7, <1>8, <1>9, <1>10, <1>11, <1>12, <1>13,
       <1>14
     DEF Next, Acquire, Release

\* Deletion is kept by every step.
LEMMA DeletionStep ==
  ASSUME IInv, [Next]_vars
  PROVE  Deletion'
  <1>1. /\ pc \in [Requests -> Labels]
        /\ conn \in [Requests -> Conns \cup {NoConn}]
        /\ chan \in [Requests -> Conns \cup {NoConn}]
        /\ status \in [Conns -> Statuses]
        /\ deleted \subseteq Conns
        /\ dead \subseteq Conns
        /\ Held
        /\ OneOwner
        /\ Deletion
    BY DEF IInv, TypeOK
  <1>2. ASSUME UNCHANGED <<pc, conn, status, deleted, dead>> PROVE Deletion'
    BY <1>2, <1>1 DEF Deletion
  <1>3. ASSUME NEW r \in Requests,
                Cancel(r)
         PROVE  UNCHANGED <<pc, conn, status, deleted, dead>>
    BY <1>3 DEF Cancel, pool, closing, requests, conns
  <1>4. ASSUME ParentDone \/ Close \/ CloseReturns \/ UNCHANGED vars
         PROVE  UNCHANGED <<pc, conn, status, deleted, dead>>
    BY <1>4
     DEF ParentDone, Close, CloseReturns, vars, pool, closing, requests, conns
  <1>5. ASSUME NEW r \in Requests, Invoke(r) PROVE Deletion'
    BY <1>5, <1>1, NoConnIsNone
     DEF Held, Working, OneOwner, Deletion, Invoke, Goto, pool, closing, requests,
         conns
  <1>6. ASSUME NEW r \in Requests, AcquireFree(r) PROVE Deletion'
    BY <1>6, <1>1, NoConnIsNone
     DEF Held, Working, OneOwner, Deletion, AcquireFree, Goto, Holds, pool, closing,
         requests, conns
  <1>7. ASSUME NEW r \in Requests, AcquireWait(r) PROVE Deletion'
    BY <1>7, <1>1, NoConnIsNone
     DEF Held, Working, OneOwner, Deletion, AcquireWait, Goto, pool, closing,
         requests, conns
  <1>8. ASSUME NEW r \in Requests, NEW k \in Conns, AcquireNew(r, k) PROVE Deletion'
    BY <1>8, <1>1, NoConnIsNone
     DEF Held, Working, OneOwner, Deletion, AcquireNew, Goto, Holds, Fresh, pool,
         closing, requests, conns
  <1>9. ASSUME NEW r \in Requests, CheckDead(r) PROVE Deletion'
    <2>1. /\ pc[r] # "dead" /\ pc'[r] # "dead"
          /\ \A q \in Requests \ {r} : pc'[q] = pc[q] /\ conn'[q] = conn[q]
          /\ status' = status /\ deleted' = deleted /\ dead' = dead
      BY <1>9, <1>1 DEF CheckDead, Goto, Holds, conns
    <2>2. \A q \in Requests : pc[q] = "dead" <=> pc'[q] = "dead"
      BY <2>1, Zenon
    <2>3. \A q \in Requests : pc[q] = "dead" => conn'[q] = conn[q]
      BY <2>1, Zenon
    <2> QED
      BY <1>1, <2>1, <2>2, <2>3 DEF Deletion
  <1>10. ASSUME NEW r \in Requests, CreateReady(r) PROVE Deletion'
    BY <1>10, <1>1, NoConnIsNone
     DEF Held, Working, OneOwner, Deletion, CreateReady, Goto, pool, closing,
         requests, conns
  <1>11. ASSUME NEW r \in Requests, CreateDead(r) PROVE Deletion'
    BY <1>11, <1>1, NoConnIsNone
     DEF Held, Working, OneOwner, Deletion, CreateDead, Goto, Holds, pool, closing,
         requests, conns
  <1>12. ASSUME NEW r \in Requests, CreateDone(r) PROVE Deletion'
    BY <1>12, <1>1, NoConnIsNone
     DEF Held, Working, OneOwner, Deletion, CreateDone, Goto, Holds, pool, closing,
         requests, conns
  <1>13. ASSUME NEW r \in Requests, StuckReady(r) PROVE Deletion'
    BY <1>13, <1>1, NoConnIsNone
     DEF Held, Working, OneOwner, Deletion, StuckReady, Goto, pool, closing,
         requests, conns
  <1>14. ASSUME NEW r \in Requests, WaitConn(r) PROVE Deletion'
    BY <1>14, <1>1, NoConnIsNone
     DEF Held, Working, OneOwner, Deletion, WaitConn, Goto, Holds, pool, closing,
         requests, conns
  <1>15. ASSUME NEW r \in Requests, WaitStuck(r) PROVE Deletion'
    BY <1>15, <1>1, NoConnIsNone
     DEF Held, Working, OneOwner, Deletion, WaitStuck, Goto, pool, closing,
         requests, conns
  <1>16. ASSUME NEW r \in Requests, WaitDone(r) PROVE Deletion'
    BY <1>16, <1>1, NoConnIsNone
     DEF Held, Working, OneOwner, Deletion, WaitDone, Goto, pool, closing, requests,
         conns
  <1>17. ASSUME NEW r \in Requests, Drain(r) PROVE Deletion'
    BY <1>17, <1>1, NoConnIsNone
     DEF Held, Working, OneOwner, Deletion, Drain, Goto, Holds, pool, closing,
         requests, conns
  <1>18. ASSUME NEW r \in Requests, InvokeReturns(r) PROVE Deletion'
    BY <1>18, <1>1, NoConnIsNone
     DEF Held, Working, OneOwner, Deletion, InvokeReturns, Goto, pool, closing,
         requests, conns
  <1>19. ASSUME NEW r \in Requests, InvokeDead(r) PROVE Deletion'
    BY <1>19, <1>1, NoConnIsNone
     DEF Held, Working, OneOwner, Deletion, InvokeDead, Goto, Holds, pool, closing,
         requests, conns
  <1>20. ASSUME NEW r \in Requests, Dead(r) PROVE Deletion'
    BY <1>20, <1>1, NoConnIsNone
     DEF Held, Working, OneOwner, Deletion, Dead, DeadLocked, Goto, Holds, pool,
         closing, requests, conns
  <1>21. ASSUME NEW r \in Requests, ReleaseFree(r) PROVE Deletion'
    BY <1>21, <1>1, NoConnIsNone
     DEF Held, Working, OneOwner, Deletion, ReleaseFree, Goto, Holds, pool, closing,
         requests, conns
  <1>22. ASSUME NEW r \in Requests, NEW q \in freeReq, ReleaseTransfer(r, q) PROVE Deletion'
    BY <1>22, <1>1, NoConnIsNone
     DEF Held, Working, OneOwner, Deletion, ReleaseTransfer, Goto, pool, closing,
         requests, conns
  <1>23. ASSUME NEW r \in Requests, Transfer(r) PROVE Deletion'
    BY <1>23, <1>1, NoConnIsNone
     DEF Held, Working, OneOwner, Deletion, Transfer, Goto, Holds, pool, closing,
         requests, conns
  <1>24. ASSUME NEW k \in Conns, ConnReady(k) PROVE Deletion'
    BY <1>24, <1>1, NoConnIsNone
     DEF Held, Working, OneOwner, Deletion, ConnReady, pool, closing, requests,
         conns
  <1>25. ASSUME NEW k \in Conns, ConnFails(k) PROVE Deletion'
    BY <1>25, <1>1, NoConnIsNone
     DEF Held, Working, OneOwner, Deletion, ConnFails, pool, closing, requests,
         conns
  <1>26. ASSUME NEW k \in Conns, ConnExits(k) PROVE Deletion'
    BY <1>26, <1>1, NoConnIsNone
     DEF Held, Working, OneOwner, Deletion, ConnExits, pool, closing, requests,
         conns
  <1>27. ASSUME NEW k \in Conns, ConnDead(k) PROVE Deletion'
    BY <1>27, <1>1, NoConnIsNone
     DEF Held, Working, OneOwner, Deletion, ConnDead, DeadLocked, pool, closing,
         requests, conns
  <1> QED
    BY <1>2, <1>3, <1>4, <1>5, <1>6, <1>7, <1>8, <1>9, <1>10, <1>11, <1>12, <1>13,
       <1>14, <1>15, <1>16, <1>17, <1>18, <1>19, <1>20, <1>21, <1>22, <1>23, <1>24,
       <1>25, <1>26, <1>27
     DEF Next, Acquire, Release

\* Created is kept by every step.
LEMMA CreatedStep ==
  ASSUME IInv, [Next]_vars
  PROVE  Created'
  <1>1. /\ conn \in [Requests -> Conns \cup {NoConn}]
        /\ chan \in [Requests -> Conns \cup {NoConn}]
        /\ status \in [Conns -> Statuses]
        /\ target \in [Requests -> Requests \cup {NoOne}]
        /\ Created
    BY DEF IInv, TypeOK
  <1>2. ASSUME UNCHANGED <<free, conn, chan, status>> PROVE Created'
    BY <1>2, <1>1, Zenon DEF Created, InFree
  <1>3. ASSUME NEW r \in Requests,
                Invoke(r) \/ Cancel(r) \/ CreateReady(r) \/ StuckReady(r) \/
                WaitStuck(r) \/ WaitDone(r) \/ InvokeReturns(r)
         PROVE  UNCHANGED <<free, conn, chan, status>>
    BY <1>3
     DEF Invoke, Cancel, CreateReady, StuckReady, WaitStuck, WaitDone,
         InvokeReturns, pool, closing, requests, conns
  <1>4. ASSUME NEW r \in Requests, NEW q \in freeReq,
                ReleaseTransfer(r, q)
         PROVE  UNCHANGED <<free, conn, chan, status>>
    BY <1>4 DEF ReleaseTransfer, pool, closing, requests, conns
  <1>5. ASSUME ParentDone \/ Close \/ CloseReturns \/ UNCHANGED vars
         PROVE  UNCHANGED <<free, conn, chan, status>>
    BY <1>5
     DEF ParentDone, Close, CloseReturns, vars, pool, closing, requests, conns
  <1>6. ASSUME NEW r \in Requests, AcquireFree(r) PROVE Created'
    <2>1. \A j : InFree(j)' <=> InFree(j) /\ j # free[Len(free)]
      BY <1>6, <1>1, PopFree, Zenon DEF IInv, TypeOK, OneOwner, Distinct, AcquireFree
    <2>2. InFree(free[Len(free)])
      BY <1>6, <1>1, PopFree DEF IInv, TypeOK, OneOwner, Distinct, AcquireFree
    <2> QED
      BY <1>6, <1>1, <2>1, <2>2, NoConnIsNone, Zenon
       DEF Created, AcquireFree, Goto, Holds, pool, closing, requests, conns
  <1>7. ASSUME NEW r \in Requests, AcquireWait(r) PROVE Created'
    BY <1>7, <1>1, NoConnIsNone, Zenon
     DEF Created, InFree, AcquireWait, Goto, pool, closing, requests, conns
  <1>8. ASSUME NEW r \in Requests, NEW k \in Conns, AcquireNew(r, k) PROVE Created'
    BY <1>8, <1>1, NoConnIsNone
     DEF Created, InFree, AcquireNew, Goto, Holds, Fresh, pool, closing, requests,
         conns
  <1>9. ASSUME NEW r \in Requests, CheckDead(r) PROVE Created'
    BY <1>9, <1>1, NoConnIsNone
     DEF Created, InFree, CheckDead, Goto, Holds, pool, closing, requests, conns
  <1>10. ASSUME NEW r \in Requests, CreateDead(r) PROVE Created'
    BY <1>10, <1>1, NoConnIsNone, Zenon
     DEF Created, InFree, CreateDead, Goto, Holds, pool, closing, requests, conns
  <1>11. ASSUME NEW r \in Requests, CreateDone(r) PROVE Created'
    BY <1>11, <1>1, NoConnIsNone, Zenon
     DEF Created, InFree, CreateDone, Goto, Holds, pool, closing, requests, conns
  <1>12. ASSUME NEW r \in Requests, WaitConn(r) PROVE Created'
    BY <1>12, <1>1, NoConnIsNone, Zenon
     DEF Created, InFree, WaitConn, Goto, Holds, pool, closing, requests, conns
  <1>13. ASSUME NEW r \in Requests, Drain(r) PROVE Created'
    BY <1>13, <1>1, NoConnIsNone
     DEF Created, InFree, Drain, Goto, Holds, pool, closing, requests, conns
  <1>14. ASSUME NEW r \in Requests, InvokeDead(r) PROVE Created'
    BY <1>14, <1>1, NoConnIsNone, Zenon
     DEF Created, InFree, InvokeDead, Goto, Holds, pool, closing, requests, conns
  <1>15. ASSUME NEW r \in Requests, Dead(r) PROVE Created'
    <2>1. \A j : InFree(j)' => InFree(j)
      BY <1>15, <1>1, RemoveFree, Zenon
       DEF IInv, TypeOK, OneOwner, Distinct, DeadLocked, Dead
    <2> QED
      BY <1>15, <1>1, <2>1, NoConnIsNone, Zenon
       DEF Created, Dead, DeadLocked, Goto, Holds, pool, closing, requests, conns
  <1>16. ASSUME NEW r \in Requests, ReleaseFree(r) PROVE Created'
    <2>1. conn[r] \in Conns /\ ~ InFree(conn[r])
      BY <1>16, <1>1, NoConnIsNone, Zenon
       DEF IInv, TypeOK, Held, Working, OneOwner, ReleaseFree
    <2>2. \A j : InFree(j)' <=> InFree(j) \/ j = conn[r]
      BY <1>16, <1>1, <2>1, AppendFree, Zenon
       DEF IInv, TypeOK, OneOwner, Distinct, ReleaseFree
    <2> QED
      BY <1>16, <1>1, <2>1, <2>2, NoConnIsNone, Zenon
       DEF Created, ReleaseFree, Goto, Holds, pool, closing, requests, conns
  <1>17. ASSUME NEW r \in Requests, Transfer(r) PROVE Created'
    BY <1>17, <1>1, NoConnIsNone, Zenon
     DEF Created, InFree, Transfer, Goto, Holds, pool, closing, requests, conns
  <1>18. ASSUME NEW k \in Conns, ConnReady(k) PROVE Created'
    BY <1>18, <1>1, NoConnIsNone, Zenon
     DEF Created, InFree, ConnReady, pool, closing, requests, conns
  <1>19. ASSUME NEW k \in Conns, ConnFails(k) PROVE Created'
    BY <1>19, <1>1, NoConnIsNone, Zenon
     DEF Created, InFree, ConnFails, pool, closing, requests, conns
  <1>20. ASSUME NEW k \in Conns, ConnExits(k) PROVE Created'
    BY <1>20, <1>1, NoConnIsNone, Zenon
     DEF Created, InFree, ConnExits, pool, closing, requests, conns
  <1>21. ASSUME NEW k \in Conns, ConnDead(k) PROVE Created'
    <2>1. \A j : InFree(j)' => InFree(j)
      BY <1>21, <1>1, RemoveFree
       DEF IInv, TypeOK, OneOwner, Distinct, DeadLocked, ConnDead
    <2> QED
      BY <1>21, <1>1, <2>1, NoConnIsNone, Zenon
       DEF Created, ConnDead, DeadLocked, pool, closing, requests, conns
  <1> QED
    BY <1>2, <1>3, <1>4, <1>5, <1>6, <1>7, <1>8, <1>9, <1>10, <1>11, <1>12, <1>13,
       <1>14, <1>15, <1>16, <1>17, <1>18, <1>19, <1>20, <1>21, Zenon
     DEF Next, Acquire, Release

\* The counted connections are finitely many, now and after a step.
LEMMA CountedFinite == IsFiniteSet(Counted) /\ IsFiniteSet(Counted')
  <1>1. Counted \subseteq Conns /\ Counted' \subseteq Conns
    BY DEF Counted
  <1> QED
    BY <1>1, ConnsAssumption, FS_Subset, Zenon

\* dead() takes off the count a connection that was on it.
LEMMA CountOff ==
  ASSUME IInv, NEW c \in Conns, status[c] # "none", c \notin dead,
         total' = total - 1, dead' = dead \cup {c},
         \A k \in Conns : status[k] = "none" <=> status'[k] = "none"
  PROVE  TotalCounts'
  <1>1. c \in Counted /\ Counted' = Counted \ {c}
    BY DEF Counted
  <1>2. Cardinality(Counted') = Cardinality(Counted) - 1
    BY <1>1, CountedFinite, FS_RemoveElement
  <1> QED
    BY <1>2, MaxAssumption DEF IInv, TypeOK, TotalCounts

\* The count is kept right by every step.
LEMMA CountStep ==
  ASSUME IInv, [Next]_vars
  PROVE  TotalCounts'
  <1>1. ASSUME UNCHANGED <<total, status, dead>> PROVE TotalCounts'
    BY <1>1, Zenon DEF IInv, TotalCounts, Counted
  <1>2. ASSUME NEW r \in Requests,
                Invoke(r) \/ Cancel(r) \/ AcquireFree(r) \/ AcquireWait(r) \/
                CheckDead(r) \/ CreateReady(r) \/ CreateDead(r) \/ CreateDone(r)
                \/ StuckReady(r) \/ WaitConn(r) \/ WaitStuck(r) \/ WaitDone(r) \/
                Drain(r) \/ InvokeReturns(r) \/ InvokeDead(r) \/ ReleaseFree(r) \/
                Transfer(r)
         PROVE  UNCHANGED <<total, status, dead>>
    BY <1>2, Zenon
     DEF Invoke, Cancel, AcquireFree, AcquireWait, CheckDead, CreateReady,
         CreateDead, CreateDone, StuckReady, WaitConn, WaitStuck, WaitDone, Drain,
         InvokeReturns, InvokeDead, ReleaseFree, Transfer, pool, closing, requests,
         conns
  <1>3. ASSUME NEW r \in Requests, NEW q \in freeReq,
                ReleaseTransfer(r, q)
         PROVE  UNCHANGED <<total, status, dead>>
    BY <1>3 DEF ReleaseTransfer, pool, closing, requests, conns
  <1>4. ASSUME ParentDone \/ Close \/ CloseReturns \/ UNCHANGED vars
         PROVE  UNCHANGED <<total, status, dead>>
    BY <1>4, Zenon
     DEF ParentDone, Close, CloseReturns, vars, pool, closing, requests, conns
  <1>5. ASSUME NEW r \in Requests, NEW k \in Conns, AcquireNew(r, k) PROVE TotalCounts'
    <2>1. k \notin Counted
      BY <1>5, Zenon DEF IInv, TypeOK, Deletion, Counted, AcquireNew, Fresh
    <2>2. Counted' = Counted \cup {k}
      BY <1>5 DEF IInv, TypeOK, Counted, AcquireNew
    <2>3. Cardinality(Counted') = Cardinality(Counted) + 1
      BY <2>1, <2>2, CountedFinite, FS_AddElement, Zenon
    <2> QED
      BY <1>5, <2>3, MaxAssumption
       DEF IInv, TypeOK, TotalCounts, AcquireNew, MayCreate
  <1>6. ASSUME NEW r \in Requests, Dead(r) PROVE TotalCounts'
    <2>1. conn[r] \in Conns /\ conn[r] \notin dead /\ status[conn[r]] # "none"
      BY <1>6, NoConnIsNone DEF IInv, TypeOK, Held, Working, Created, Deletion, Dead
    <2> QED
      BY <1>6, <2>1, CountOff, Zenon DEF Dead, DeadLocked
  <1>7. ASSUME NEW k \in Conns, ConnReady(k) PROVE TotalCounts'
    <2>1. Counted' = Counted
      BY <1>7 DEF IInv, TypeOK, Counted, ConnReady, pool, closing, requests, conns
    <2> QED
      BY <1>7, <2>1, Zenon DEF IInv, TotalCounts, ConnReady, pool, closing, requests, conns
  <1>8. ASSUME NEW k \in Conns, ConnFails(k) PROVE TotalCounts'
    <2>1. Counted' = Counted
      BY <1>8 DEF IInv, TypeOK, Counted, ConnFails, pool, closing, requests, conns
    <2> QED
      BY <1>8, <2>1, Zenon DEF IInv, TotalCounts, ConnFails, pool, closing, requests, conns
  <1>9. ASSUME NEW k \in Conns, ConnExits(k) PROVE TotalCounts'
    <2>1. Counted' = Counted
      BY <1>9 DEF IInv, TypeOK, Counted, ConnExits, pool, closing, requests, conns
    <2> QED
      BY <1>9, <2>1, Zenon DEF IInv, TotalCounts, ConnExits, pool, closing, requests, conns
  <1>10. ASSUME NEW k \in Conns, ConnDead(k) PROVE TotalCounts'
    <2>1. k \notin dead
      BY <1>10 DEF IInv, Deletion, ConnDead
    <2>2. \A j \in Conns : status[j] = "none" <=> status'[j] = "none"
      BY <1>10, Zenon DEF IInv, TypeOK, ConnDead
    <2> QED
      BY <1>10, <2>1, <2>2, CountOff, Zenon DEF ConnDead, DeadLocked
  <1> QED
    BY <1>1, <1>2, <1>3, <1>4, <1>5, <1>6, <1>7, <1>8, <1>9, <1>10, Zenon
     DEF Next, Acquire, Release

\* A connection keeps one owner in every step.
LEMMA OwnerStep ==
  ASSUME IInv, [Next]_vars
  PROVE  OneOwner'
  <1>1. /\ conn \in [Requests -> Conns \cup {NoConn}]
        /\ chan \in [Requests -> Conns \cup {NoConn}]
        /\ OneOwner
    BY DEF IInv, TypeOK
  <1>2. ASSUME UNCHANGED <<free, conn, chan>> PROVE OneOwner'
    BY <1>2, <1>1 DEF OneOwner, InFree
  <1>3. ASSUME NEW r \in Requests,
                Invoke(r) \/ Cancel(r) \/ CreateReady(r) \/ StuckReady(r) \/
                WaitStuck(r) \/ WaitDone(r) \/ InvokeReturns(r)
         PROVE  UNCHANGED <<free, conn, chan>>
    BY <1>3, Zenon
     DEF Invoke, Cancel, CreateReady, StuckReady, WaitStuck, WaitDone,
         InvokeReturns, pool, closing, requests, conns
  <1>4. ASSUME NEW r \in Requests, NEW q \in freeReq,
                ReleaseTransfer(r, q)
         PROVE  UNCHANGED <<free, conn, chan>>
    BY <1>4 DEF ReleaseTransfer, pool, closing, requests, conns
  <1>5. ASSUME NEW k \in Conns,
                ConnReady(k) \/ ConnFails(k) \/ ConnExits(k)
         PROVE  UNCHANGED <<free, conn, chan>>
    BY <1>5, Zenon DEF ConnReady, ConnFails, ConnExits, pool, closing, requests, conns
  <1>6. ASSUME ParentDone \/ Close \/ CloseReturns \/ UNCHANGED vars
         PROVE  UNCHANGED <<free, conn, chan>>
    BY <1>6, Zenon
     DEF ParentDone, Close, CloseReturns, vars, pool, closing, requests, conns
  <1>7. ASSUME NEW r \in Requests, AcquireFree(r) PROVE OneOwner'
    <2>1. /\ Distinct' /\ free[Len(free)] \in Conns /\ InFree(free[Len(free)])
          /\ \A j : InFree(j)' <=> InFree(j) /\ j # free[Len(free)]
      BY <1>7, <1>1, PopFree DEF IInv, TypeOK, OneOwner, Distinct, AcquireFree
    <2>2. conn' = [conn EXCEPT ![r] = free[Len(free)]] /\ chan' = chan
      BY <1>7, <1>1, Zenon DEF AcquireFree, Holds
    <2> QED
      BY <1>7, <1>1, <2>1, <2>2, NoConnIsNone, Zenon DEF OneOwner, Distinct
  <1>8. ASSUME NEW r \in Requests, AcquireWait(r) PROVE OneOwner'
    <2>1. ~ InFree(NoConn)
      BY NoneNotFree DEF IInv
    <2>2. free' = free /\ \A j : InFree(j)' <=> InFree(j)
      BY <1>8, <1>1, Zenon DEF InFree, AcquireWait, pool
    <2> QED
      BY <1>8, <1>1, <2>1, <2>2, NoConnIsNone
       DEF OneOwner, AcquireWait, Holds, pool, closing, conns, Fresh
  <1>9. ASSUME NEW r \in Requests, NEW k \in Conns, AcquireNew(r, k) PROVE OneOwner'
    <2>1. ~ InFree(NoConn)
      BY NoneNotFree DEF IInv
    <2>2. free' = free /\ \A j : InFree(j)' <=> InFree(j)
      BY <1>9, <1>1, Zenon DEF InFree, AcquireNew, pool
    <2> QED
      BY <1>9, <1>1, <2>1, <2>2, NoConnIsNone
       DEF OneOwner, AcquireNew, Holds, pool, closing, conns, Fresh
  <1>10. ASSUME NEW r \in Requests, CheckDead(r) PROVE OneOwner'
    <2>1. ~ InFree(NoConn)
      BY NoneNotFree DEF IInv
    <2>2. free' = free /\ \A j : InFree(j)' <=> InFree(j)
      BY <1>10, <1>1, Zenon DEF InFree, CheckDead, pool
    <2> QED
      BY <1>10, <1>1, <2>1, <2>2, NoConnIsNone
       DEF OneOwner, CheckDead, Holds, pool, closing, conns, Fresh
  <1>11. ASSUME NEW r \in Requests, CreateDead(r) PROVE OneOwner'
    <2>1. ~ InFree(NoConn)
      BY NoneNotFree DEF IInv
    <2>2. free' = free /\ \A j : InFree(j)' <=> InFree(j)
      BY <1>11, <1>1, Zenon DEF InFree, CreateDead, pool
    <2> QED
      BY <1>11, <1>1, <2>1, <2>2, NoConnIsNone, Zenon
       DEF OneOwner, CreateDead, Holds, pool, closing, conns, Fresh
  <1>12. ASSUME NEW r \in Requests, CreateDone(r) PROVE OneOwner'
    <2>1. ~ InFree(NoConn)
      BY NoneNotFree DEF IInv
    <2>2. free' = free /\ \A j : InFree(j)' <=> InFree(j)
      BY <1>12, <1>1, Zenon DEF InFree, CreateDone, pool
    <2> QED
      BY <1>12, <1>1, <2>1, <2>2, NoConnIsNone, Zenon
       DEF OneOwner, CreateDone, Holds, pool, closing, conns, Fresh
  <1>13. ASSUME NEW r \in Requests, WaitConn(r) PROVE OneOwner'
    <2>1. ~ InFree(NoConn)
      BY NoneNotFree DEF IInv
    <2>2. free' = free /\ \A j : InFree(j)' <=> InFree(j)
      BY <1>13, <1>1 DEF InFree, WaitConn, pool
    <2> QED
      BY <1>13, <1>1, <2>1, <2>2, NoConnIsNone
       DEF OneOwner, WaitConn, Holds, pool, closing, conns, Fresh
  <1>14. ASSUME NEW r \in Requests, Drain(r) PROVE OneOwner'
    <2>1. ~ InFree(NoConn)
      BY NoneNotFree DEF IInv
    <2>2. free' = free /\ \A j : InFree(j)' <=> InFree(j)
      BY <1>14, <1>1, Zenon DEF InFree, Drain
    <2>3. CASE chan[r] = NoConn
      BY <1>14, <1>1, <2>2, <2>3 DEF OneOwner, Drain
    <2>4. CASE chan[r] # NoConn
      <3>1. conn' = [conn EXCEPT ![r] = chan[r]] /\ chan' = [chan EXCEPT ![r] = NoConn]
        BY <1>14, <1>1, <2>4, Zenon DEF Drain, Holds
      <3> QED
        BY <1>14, <1>1, <2>1, <2>2, <2>4, <3>1, NoConnIsNone DEF OneOwner
    <2> QED
      BY <2>3, <2>4
  <1>15. ASSUME NEW r \in Requests, InvokeDead(r) PROVE OneOwner'
    <2>1. ~ InFree(NoConn)
      BY NoneNotFree DEF IInv
    <2>2. free' = free /\ \A j : InFree(j)' <=> InFree(j)
      BY <1>15, <1>1, Zenon DEF InFree, InvokeDead, pool
    <2> QED
      BY <1>15, <1>1, <2>1, <2>2, NoConnIsNone
       DEF OneOwner, InvokeDead, Holds, pool, closing, conns, Fresh
  <1>16. ASSUME NEW r \in Requests, Dead(r) PROVE OneOwner'
    <2>1. Distinct' /\ \A j : InFree(j)' => InFree(j)
      BY <1>16, <1>1, RemoveFree, Zenon
       DEF IInv, TypeOK, OneOwner, Distinct, DeadLocked, Dead
    <2>2. ~ InFree(NoConn)
      BY NoneNotFree DEF IInv
    <2> QED
      BY <1>16, <1>1, <2>1, <2>2, Zenon
       DEF OneOwner, Distinct, Dead, DeadLocked, Holds, requests
  <1>17. ASSUME NEW r \in Requests, ReleaseFree(r) PROVE OneOwner'
    <2>1. conn[r] \in Conns /\ ~ InFree(conn[r])
      BY <1>17, <1>1, NoConnIsNone, Zenon
       DEF IInv, TypeOK, Held, Working, OneOwner, ReleaseFree
    <2>2. Distinct' /\ \A j : InFree(j)' <=> InFree(j) \/ j = conn[r]
      BY <1>17, <1>1, <2>1, AppendFree
       DEF IInv, TypeOK, OneOwner, Distinct, ReleaseFree
    <2>3. conn' = [conn EXCEPT ![r] = NoConn] /\ chan' = chan
      BY <1>17, <1>1, Zenon DEF ReleaseFree, Holds
    <2>4. ~ InFree(NoConn)
      BY NoneNotFree DEF IInv
    <2> QED
      BY <1>17, <1>1, <2>1, <2>2, <2>3, <2>4, NoConnIsNone DEF OneOwner, Distinct
  <1>18. ASSUME NEW r \in Requests, Transfer(r) PROVE OneOwner'
    <2>1. ~ InFree(NoConn)
      BY NoneNotFree DEF IInv
    <2>2. free' = free /\ \A j : InFree(j)' <=> InFree(j)
      BY <1>18, <1>1, Zenon DEF InFree, Transfer
    <2>3. target[r] \in Requests /\ conn[r] \in Conns /\ conn' = [conn EXCEPT ![r] = NoConn]
      BY <1>18, <1>1, NoConnIsNone, Zenon DEF IInv, TypeOK, Held, Working, Transfer, Holds
    <2>4. chan' = chan \/ chan' = [chan EXCEPT ![target[r]] = conn[r]]
      BY <1>18, <1>1, Zenon DEF Transfer
    <2>5. /\ conn'[r] = NoConn /\ conn[r] # NoConn
          /\ \A q \in Requests \ {r} : conn'[q] = conn[q]
          /\ \A q \in Requests : chan'[q] = chan[q] \/ (q = target[r] /\ chan'[q] = conn[r])
      BY <1>1, <2>3, <2>4, NoConnIsNone
    <2>6. \A q \in Requests : ~ InFree(conn'[q]) /\ ~ InFree(chan'[q])
      BY <1>1, <2>1, <2>5, Zenon DEF OneOwner
    <2>7. \A p, q \in Requests :
             /\ conn'[p] # NoConn /\ conn'[p] = conn'[q] => p = q
             /\ chan'[p] # NoConn /\ chan'[p] = chan'[q] => p = q
             /\ conn'[p] # NoConn => conn'[p] # chan'[q]
      BY <1>1, <2>5 DEF OneOwner
    <2> QED
      BY <1>1, <2>2, <2>6, <2>7, Zenon DEF OneOwner
  <1>19. ASSUME NEW k \in Conns, ConnDead(k) PROVE OneOwner'
    <2>1. Distinct' /\ \A j : InFree(j)' => InFree(j)
      BY <1>19, <1>1, RemoveFree, Zenon
       DEF IInv, TypeOK, OneOwner, Distinct, DeadLocked, ConnDead
    <2>2. ~ InFree(NoConn)
      BY NoneNotFree DEF IInv
    <2> QED
      BY <1>19, <1>1, <2>1, <2>2, Zenon
       DEF OneOwner, Distinct, ConnDead, DeadLocked, Holds, requests
  <1> QED
    BY <1>2, <1>3, <1>4, <1>5, <1>6, <1>7, <1>8, <1>9, <1>10, <1>11, <1>12, <1>13,
       <1>14, <1>15, <1>16, <1>17, <1>18, <1>19
     DEF Next, Acquire, Release

\* Every variable keeps its type in every step.
LEMMA TypeStep ==
  ASSUME IInv, [Next]_vars
  PROVE  TypeOK'
  <1>1. ASSUME UNCHANGED <<total, free, chan, pc, conn, target, status, ready,
                           deleted, dead, freeReq, woken, mu, cancelled, closed,
                           ctxDone, closer>>
         PROVE  TypeOK'
    BY <1>1 DEF IInv, TypeOK, Labels, Statuses
  <1>2. ASSUME UNCHANGED vars
         PROVE  UNCHANGED <<total, free, chan, pc, conn, target, status, ready,
                            deleted, dead, freeReq, woken, mu, cancelled, closed,
                            ctxDone, closer>>
    BY <1>2, Zenon DEF vars, pool, closing, requests, conns
  <1>3. ASSUME NEW r \in Requests, Invoke(r) PROVE TypeOK'
    BY <1>3, Zenon
     DEF IInv, TypeOK, Labels, Statuses, Invoke, Goto, pool, closing, requests,
         conns
  <1>4. ASSUME NEW r \in Requests, Cancel(r) PROVE TypeOK'
    BY <1>4, Zenon
     DEF IInv, TypeOK, Labels, Statuses, Cancel, pool, closing, requests, conns
  <1>5. ASSUME NEW r \in Requests, AcquireFree(r) PROVE TypeOK'
    <2>1. free' \in Seq(Conns) /\ free[Len(free)] \in Conns
      BY <1>5, PopFree, Zenon DEF IInv, TypeOK, OneOwner, Distinct, AcquireFree
    <2> QED
      BY <1>5, <2>1, Zenon
       DEF IInv, TypeOK, Labels, Statuses, AcquireFree, Goto, Holds, pool, closing,
           requests, conns
  <1>6. ASSUME NEW r \in Requests, AcquireWait(r) PROVE TypeOK'
    BY <1>6, Zenon
     DEF IInv, TypeOK, Labels, Statuses, AcquireWait, Goto, pool, closing, requests,
         conns
  <1>7. ASSUME NEW r \in Requests, NEW k \in Conns, AcquireNew(r, k) PROVE TypeOK'
    BY <1>7
     DEF IInv, TypeOK, Labels, Statuses, AcquireNew, Goto, Holds, Fresh, pool,
         closing, requests, conns
  <1>8. ASSUME NEW r \in Requests, CheckDead(r) PROVE TypeOK'
    BY <1>8, Zenon
     DEF IInv, TypeOK, Labels, Statuses, CheckDead, Goto, Holds, pool, closing,
         requests, conns
  <1>9. ASSUME NEW r \in Requests, CreateReady(r) PROVE TypeOK'
    BY <1>9, Zenon
     DEF IInv, TypeOK, Labels, Statuses, CreateReady, Goto, pool, closing, requests,
         conns
  <1>10. ASSUME NEW r \in Requests, CreateDead(r) PROVE TypeOK'
    BY <1>10, Zenon
     DEF IInv, TypeOK, Labels, Statuses, CreateDead, Goto, Holds, pool, closing,
         requests, conns
  <1>11. ASSUME NEW r \in Requests, CreateDone(r) PROVE TypeOK'
    BY <1>11, Zenon
     DEF IInv, TypeOK, Labels, Statuses, CreateDone, Goto, Holds, pool, closing,
         requests, conns
  <1>12. ASSUME NEW r \in Requests, StuckReady(r) PROVE TypeOK'
    BY <1>12, Zenon
     DEF IInv, TypeOK, Labels, Statuses, StuckReady, Goto, pool, closing, requests,
         conns
  <1>13. ASSUME NEW r \in Requests, WaitConn(r) PROVE TypeOK'
    BY <1>13, Zenon
     DEF IInv, TypeOK, Labels, Statuses, WaitConn, Goto, Holds, pool, closing,
         requests, conns
  <1>14. ASSUME NEW r \in Requests, WaitStuck(r) PROVE TypeOK'
    BY <1>14, Zenon
     DEF IInv, TypeOK, Labels, Statuses, WaitStuck, Goto, pool, closing, requests,
         conns
  <1>15. ASSUME NEW r \in Requests, WaitDone(r) PROVE TypeOK'
    BY <1>15, Zenon
     DEF IInv, TypeOK, Labels, Statuses, WaitDone, Goto, pool, closing, requests,
         conns
  <1>16. ASSUME NEW r \in Requests, Drain(r) PROVE TypeOK'
    BY <1>16
     DEF IInv, TypeOK, Labels, Statuses, Drain, Goto, Holds, pool, closing,
         requests, conns
  <1>17. ASSUME NEW r \in Requests, InvokeReturns(r) PROVE TypeOK'
    BY <1>17, Zenon
     DEF IInv, TypeOK, Labels, Statuses, InvokeReturns, Goto, pool, closing,
         requests, conns
  <1>18. ASSUME NEW r \in Requests, InvokeDead(r) PROVE TypeOK'
    <2>1. conn[r] \in Conns
      BY <1>18, NoConnIsNone, Zenon DEF IInv, TypeOK, Held, Working, InvokeDead
    <2> QED
      BY <1>18, <2>1, Zenon
       DEF IInv, TypeOK, Labels, Statuses, InvokeDead, Goto, Holds, pool, closing,
           requests, conns
  <1>19. ASSUME NEW r \in Requests, Dead(r) PROVE TypeOK'
    <2>1. total' \in Nat
      BY CountStep, CountedFinite, FS_CardinalityType, Zenon DEF TotalCounts
    <2>2. free' \in Seq(Conns)
      BY <1>19, RemoveFree, Zenon DEF IInv, TypeOK, OneOwner, Distinct, DeadLocked, Dead
    <2>3. conn[r] \in Conns
      BY <1>19, NoConnIsNone, Zenon DEF IInv, TypeOK, Held, Working, Dead
    <2> QED
      BY <1>19, <2>1, <2>2, <2>3, Zenon
       DEF IInv, TypeOK, Labels, Statuses, Dead, DeadLocked, Goto, Holds, pool,
           closing, requests, conns
  <1>20. ASSUME NEW r \in Requests, ReleaseFree(r) PROVE TypeOK'
    <2>1. conn[r] \in Conns /\ ~ InFree(conn[r])
      BY <1>20, NoConnIsNone, Zenon DEF IInv, TypeOK, Held, Working, OneOwner, ReleaseFree
    <2>2. free' \in Seq(Conns)
      BY <1>20, <2>1, AppendFree, Zenon DEF IInv, TypeOK, OneOwner, Distinct, ReleaseFree
    <2> QED
      BY <1>20, <2>2, Zenon
       DEF IInv, TypeOK, Labels, Statuses, ReleaseFree, Goto, Holds, pool, closing,
           requests, conns
  <1>21. ASSUME NEW r \in Requests, NEW q \in freeReq, ReleaseTransfer(r, q) PROVE TypeOK'
    BY <1>21, Zenon
     DEF IInv, TypeOK, Labels, Statuses, ReleaseTransfer, Goto, pool, closing,
         requests, conns
  <1>22. ASSUME NEW r \in Requests, Transfer(r) PROVE TypeOK'
    BY <1>22, Zenon
     DEF IInv, TypeOK, Labels, Statuses, Transfer, Goto, Holds, pool, closing,
         requests, conns
  <1>23. ASSUME NEW k \in Conns, ConnReady(k) PROVE TypeOK'
    BY <1>23
     DEF IInv, TypeOK, Labels, Statuses, ConnReady, pool, closing, requests, conns
  <1>24. ASSUME NEW k \in Conns, ConnFails(k) PROVE TypeOK'
    BY <1>24
     DEF IInv, TypeOK, Labels, Statuses, ConnFails, pool, closing, requests, conns
  <1>25. ASSUME NEW k \in Conns, ConnExits(k) PROVE TypeOK'
    BY <1>25, Zenon
     DEF IInv, TypeOK, Labels, Statuses, ConnExits, pool, closing, requests, conns
  <1>26. ASSUME NEW k \in Conns, ConnDead(k) PROVE TypeOK'
    <2>1. total' \in Nat
      BY CountStep, CountedFinite, FS_CardinalityType DEF TotalCounts
    <2>2. free' \in Seq(Conns)
      BY <1>26, RemoveFree, Zenon
       DEF IInv, TypeOK, OneOwner, Distinct, DeadLocked, ConnDead
    <2> QED
      BY <1>26, <2>1, <2>2, Zenon
       DEF IInv, TypeOK, Labels, Statuses, ConnDead, DeadLocked, pool, closing,
           requests, conns
  <1>27. CASE ParentDone
    BY <1>27, Zenon
     DEF IInv, TypeOK, Labels, Statuses, ParentDone, pool, closing, requests, conns
  <1>28. CASE Close
    BY <1>28, Zenon
     DEF IInv, TypeOK, Labels, Statuses, Close, pool, closing, requests, conns
  <1>29. CASE CloseReturns
    BY <1>29
     DEF IInv, TypeOK, Labels, Statuses, CloseReturns, pool, closing, requests,
         conns
  <1> QED
    BY <1>1, <1>2, <1>3, <1>4, <1>5, <1>6, <1>7, <1>8, <1>9, <1>10, <1>11, <1>12,
       <1>13, <1>14, <1>15, <1>16, <1>17, <1>18, <1>19, <1>20, <1>21, <1>22, <1>23,
       <1>24, <1>25, <1>26, <1>27, <1>28, <1>29
     DEF Next, Acquire, Release

\* The inductive invariant is kept by every step of the pool (pool.go, req_map.go).
THEOREM StepIInv == IInv /\ [Next]_vars => IInv'
  BY TypeStep, HeldStep, CreatedStep, DeletionStep, CountStep, OwnerStep,
     WaitersStep
  DEF IInv

\* The inductive invariant holds from the empty pool on.
THEOREM AlwaysIInv == Spec => []IInv
  <1>1. Init => IInv
    <2> SUFFICES ASSUME Init PROVE IInv
      OBVIOUS
    <2>a. << >> \in Seq(Conns)
      OBVIOUS
    <2>b. /\ chan \in [Requests -> Conns \cup {NoConn}]
          /\ conn \in [Requests -> Conns \cup {NoConn}]
          /\ target \in [Requests -> Requests \cup {NoOne}]
      BY DEF Init
    <2>1. TypeOK
      BY <2>a, <2>b, Zenon DEF Init, TypeOK, Labels, Statuses
    <2>2. \A k : ~ InFree(k)
      BY DEF Init, InFree
    <2>3. Held /\ Deletion
      BY DEF Init, Held, Working, Deletion
    <2>4. Created
      BY <2>2, NoConnIsNone DEF Init, Created
    <2>5. Counted = {}
      BY DEF Init, Counted
    <2>6. TotalCounts
      BY <2>5, FS_EmptySet, MaxAssumption DEF Init, TotalCounts
    <2>7. OneOwner /\ FreeNoWaiters
      BY <2>2 DEF Init, OneOwner, FreeNoWaiters
    <2> QED
      BY <2>1, <2>3, <2>4, <2>6, <2>7 DEF IInv
  <1> QED
    BY <1>1, StepIInv, PTL DEF Spec

\* Every variable of the pool keeps its type.
THEOREM TypeCorrect == Spec => []TypeOK
  BY AlwaysIInv, PTL DEF IInv

\* DC.total counts each living connection once and never exceeds DC.max, so
\* dead's "unreachable: remaining can't be less than zero" is unreachable.
THEOREM TotalIsRight == Spec => []TotalCounts
  BY AlwaysIInv, PTL DEF IInv

\* No connection is ever with two callers, in two channels, or free and in use.
THEOREM ConnectionsAreOwned == Spec => []OneOwner
  BY AlwaysIInv, PTL DEF IInv

\* No caller is registered as waiting while a connection is free.
THEOREM NobodyWaitsInVain == Spec => []FreeNoWaiters
  BY AlwaysIInv, PTL DEF IInv
=============================================================================
