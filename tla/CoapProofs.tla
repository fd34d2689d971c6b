----------------------------- MODULE CoapProofs -----------------------------
(***************************************************************************)
(* A CoAP endpoint keeps its replies alive while their callbacks run,      *)
(* never forgets a packet that waits to be written, and never calls        *)
(* back once an exchange is over, for any number of requests and any       *)
(* order of answers, timeouts and nested calls.                            *)
(*                                                                         *)
(* The heart is Coherent(p, fs), which relates the vector of pending       *)
(* replies to the callbacks in progress: a reply is in use exactly when a  *)
(* callback of it runs, and SOL_REENTRANT_CALL keeps in each frame whether *)
(* one below it does.  Every operation on the vector preserves it.         *)
(***************************************************************************)
EXTENDS Coap, VectorProofs, FiniteSetTheorems

Msg == [id : Ids \cup {0}, token : Ids \cup {NoToken}, observe : {NoObserve, Age}]
Handlers == {"respond", "timeout", "unobserve", "destroy"}
FrameType == [handler : Handlers, id : Ids, was_used : BOOLEAN, k : Nat,
              msg : Msg, keep : BOOLEAN, calls : {0, 1}]

\* Handlers that walk over the pending replies.
Walking(f) == f.handler \in {"respond", "destroy"}

OnePerId(p) == \A j, k \in 1..Len(p) : p[j].id = p[k].id => j = k

InUse(fs, id) == \E l \in 1..Len(fs) : fs[l].id = id

Coherent(p, fs) ==
  /\ p \in Seq(Reply) /\ fs \in Seq(FrameType)
  /\ OnePerId(p)
  /\ \A j \in 1..Len(p) : p[j].in_use <=> InUse(fs, p[j].id)
  /\ \A l \in 1..Len(fs) : \E j \in 1..Len(p) : p[j].id = fs[l].id
  /\ \A l \in 1..Len(fs) : Walking(fs[l]) => fs[l].k \in 1..Len(p) /\ p[fs[l].k].id = fs[l].id
  /\ \A l \in 1..Len(fs) : fs[l].was_used <=> \E m \in 1..(l - 1) : fs[m].id = fs[l].id

-----------------------------------------------------------------------------
(* Operations on the vector of pending replies.                            *)

\* An id finds its reply.
LEMMA FoundById ==
  ASSUME NEW p \in Seq(Reply), OnePerId(p)
  PROVE  /\ Len(p) \in Nat /\ DOMAIN p = 1..Len(p) /\ \A j \in 1..Len(p) : p[j] \in Reply
         /\ \A j \in 1..Len(p) : IndexOf(p, p[j].id) = j
         /\ \A id : IsPending(p, id) => IndexOf(p, id) \in 1..Len(p) /\ p[IndexOf(p, id)].id = id
  <1>1. Len(p) \in Nat /\ DOMAIN p = 1..Len(p) /\ \A j \in 1..Len(p) : p[j] \in Reply
        BY LenProperties, ElementOfSeq
  <1>2. \A id : IsPending(p, id) => IndexOf(p, id) \in 1..Len(p) /\ p[IndexOf(p, id)].id = id
        BY <1>1 DEF IsPending, IndexOf
  <1>3. \A j \in 1..Len(p) : IndexOf(p, p[j].id) = j
        BY <1>1, <1>2 DEF IsPending, OnePerId
  <1>4. QED
        BY <1>1, <1>2, <1>3

\* A reply may be overwritten by one with the same id.
LEMMA Overwritten ==
  ASSUME NEW p \in Seq(Reply), NEW k \in 1..Len(p), NEW r \in Reply, r.id = p[k].id
  PROVE  LET q == [p EXCEPT ![k] = r] IN
         /\ q \in Seq(Reply) /\ Len(q) = Len(p)
         /\ q[k] = r /\ \A j \in 1..Len(p) : j # k => q[j] = p[j]
         /\ \A j \in 1..Len(p) : q[j].id = p[j].id
         /\ OnePerId(p) => OnePerId(q)
  <1> DEFINE q == [p EXCEPT ![k] = r]
  <1>1. Len(p) \in Nat /\ DOMAIN p = 1..Len(p)
        BY LenProperties
  <1>2. q \in Seq(Reply) /\ Len(q) = Len(p)
        BY ExceptSeq
  <1>3. q[k] = r /\ \A j \in 1..Len(p) : j # k => q[j] = p[j]
        BY <1>1
  <1>4. \A j \in 1..Len(p) : q[j].id = p[j].id
        BY <1>3
  <1> HIDE DEF q
  <1>5. OnePerId(p) => OnePerId(q)
        BY <1>2, <1>4 DEF OnePerId
  <1>6. QED
        BY <1>2, <1>3, <1>4, <1>5 DEF q

\* SOL_REENTRANT_CALL() before the callback.
LEMMA CallCoherent ==
  ASSUME NEW p, NEW fs, Coherent(p, fs), NEW k \in 1..Len(p), NEW h \in Handlers,
         NEW msg \in Msg, NEW keep \in BOOLEAN
  PROVE  /\ Coherent(Called(p, k), Append(fs, Frame(h, p[k], k, msg, keep)))
         /\ Len(Called(p, k)) = Len(p)
         /\ \A j \in 1..Len(p) : Called(p, k)[j].id = p[j].id
                                   /\ Called(p, k)[j].observing = p[j].observing
                                   /\ Called(p, k)[j].delete_me = p[j].delete_me
  <1> DEFINE q == Called(p, k)
             f == Frame(h, p[k], k, msg, keep)
             gs == Append(fs, f)
             r == [p[k] EXCEPT !.in_use = TRUE]
  <1>1. /\ p \in Seq(Reply) /\ fs \in Seq(FrameType) /\ Len(p) \in Nat /\ Len(fs) \in Nat
        /\ DOMAIN p = 1..Len(p) /\ p[k] \in Reply
        BY LenProperties, ElementOfSeq DEF Coherent
  <1>2. r \in Reply /\ r.id = p[k].id /\ r.in_use = TRUE /\ r.observing = p[k].observing
        /\ r.delete_me = p[k].delete_me
        BY <1>1 DEF Reply
  <1>3. q = [p EXCEPT ![k] = r]
        BY <1>1 DEF Called
  <1>4. f \in FrameType /\ f.id = p[k].id /\ f.was_used = p[k].in_use /\ f.k = k
        BY <1>1 DEF Frame, FrameType, Reply
  <1> HIDE DEF q, f, r
  <1>5. /\ q \in Seq(Reply) /\ Len(q) = Len(p) /\ OnePerId(q)
        /\ q[k] = r /\ \A j \in 1..Len(p) : j # k => q[j] = p[j]
        /\ \A j \in 1..Len(p) : q[j].id = p[j].id
        BY <1>1, <1>2, <1>3, Overwritten DEF Coherent
  <1>6. /\ gs \in Seq(FrameType) /\ Len(gs) = Len(fs) + 1
        /\ gs[Len(fs) + 1] = f /\ \A l \in 1..Len(fs) : gs[l] = fs[l]
        BY <1>1, <1>4, AppendProperties
  <1> HIDE DEF gs
  <1>7. \A id : InUse(gs, id) <=> InUse(fs, id) \/ id = p[k].id
        BY <1>1, <1>4, <1>6, SMTT(30) DEF InUse
  <1>8. \A j \in 1..Len(p) : q[j].in_use <=> InUse(gs, q[j].id)
    <2> SUFFICES ASSUME NEW j \in 1..Len(p) PROVE q[j].in_use <=> InUse(gs, q[j].id)
        OBVIOUS
    <2>1. CASE j = k
          BY <1>2, <1>5, <1>7, <2>1
    <2>2. CASE j # k
      <3>1. p[j].id # p[k].id
            BY <2>2 DEF Coherent, OnePerId
      <3>2. QED
            BY <1>5, <1>7, <2>2, <3>1 DEF Coherent
    <2>3. QED
          BY <2>1, <2>2
  <1>9. \A l \in 1..Len(gs) : \E j \in 1..Len(q) : q[j].id = gs[l].id
    <2> SUFFICES ASSUME NEW l \in 1..Len(gs) PROVE \E j \in 1..Len(q) : q[j].id = gs[l].id
        OBVIOUS
    <2>1. CASE l = Len(fs) + 1
          BY <1>4, <1>5, <1>6, <2>1
    <2>2. CASE l \in 1..Len(fs)
          BY <1>5, <1>6, <2>2 DEF Coherent
    <2>3. QED
          BY <1>1, <1>6, <2>1, <2>2
  <1>10. \A l \in 1..Len(gs) : Walking(gs[l]) => gs[l].k \in 1..Len(q) /\ q[gs[l].k].id = gs[l].id
    <2> SUFFICES ASSUME NEW l \in 1..Len(gs), Walking(gs[l])
                 PROVE  gs[l].k \in 1..Len(q) /\ q[gs[l].k].id = gs[l].id
        OBVIOUS
    <2>1. CASE l = Len(fs) + 1
          BY <1>4, <1>5, <1>6, <2>1
    <2>2. CASE l \in 1..Len(fs)
          BY <1>5, <1>6, <2>2 DEF Coherent
    <2>3. QED
          BY <1>1, <1>6, <2>1, <2>2
  <1>11. \A l \in 1..Len(gs) : gs[l].was_used <=> \E m \in 1..(l - 1) : gs[m].id = gs[l].id
    <2> SUFFICES ASSUME NEW l \in 1..Len(gs)
                 PROVE  gs[l].was_used <=> \E m \in 1..(l - 1) : gs[m].id = gs[l].id
        OBVIOUS
    <2>1. \A m \in 1..(l - 1) : m \in 1..Len(fs) /\ gs[m] = fs[m]
          BY <1>1, <1>6
    <2>2. CASE l = Len(fs) + 1
      <3>1. l - 1 = Len(fs)
            BY <1>1, <2>2
      <3>2. p[k].in_use <=> InUse(fs, p[k].id)
            BY DEF Coherent
      <3>3. gs[l].was_used = p[k].in_use /\ gs[l].id = p[k].id
            BY <1>4, <1>6, <2>2
      <3>4. QED
            BY <2>1, <3>1, <3>2, <3>3 DEF InUse
    <2>3. CASE l \in 1..Len(fs)
      <3>1. fs[l].was_used <=> \E m \in 1..(l - 1) : fs[m].id = fs[l].id
            BY <2>3 DEF Coherent
      <3>2. gs[l] = fs[l]
            BY <1>6, <2>3
      <3>3. QED
            BY <2>1, <3>1, <3>2
    <2>4. QED
          BY <1>1, <1>6, <2>2, <2>3
  <1>12. Coherent(q, gs)
        BY <1>5, <1>6, <1>8, <1>9, <1>10, <1>11 DEF Coherent
  <1>13. \A j \in 1..Len(p) : q[j].observing = p[j].observing /\ q[j].delete_me = p[j].delete_me
        BY <1>2, <1>5
  <1>14. QED
        BY <1>5, <1>12, <1>13 DEF q, gs, f

\* What is below the innermost callback.
LEMMA PoppedFrames ==
  ASSUME NEW fs \in Seq(FrameType), fs # <<>>
  PROVE  LET gs == SubSeq(fs, 1, Len(fs) - 1) IN
         /\ gs \in Seq(FrameType) /\ Len(gs) = Len(fs) - 1 /\ Len(fs) \in Nat \ {0}
         /\ \A l \in 1..Len(gs) : gs[l] = fs[l] /\ l \in 1..Len(fs)
         /\ fs[Len(fs)] \in FrameType
  <1>1. Len(fs) \in Nat \ {0} /\ \A l \in 1..Len(fs) : fs[l] \in FrameType
        BY LenProperties, EmptySeq, ElementOfSeq
  <1>2. Len(fs) - 1 \in 0..Len(fs) /\ Len(fs) \in 1..Len(fs)
        BY <1>1
  <1>3. /\ SubSeq(fs, 1, Len(fs) - 1) \in Seq(FrameType)
        /\ Len(SubSeq(fs, 1, Len(fs) - 1)) = Len(fs) - 1
        /\ \A l \in 1..(Len(fs) - 1) : SubSeq(fs, 1, Len(fs) - 1)[l] = fs[l]
        BY <1>2, PrefixProperties
  <1>4. QED
        BY <1>1, <1>2, <1>3

\* SOL_REENTRANT_CALL() after the callback.
LEMMA ReturnCoherent ==
  ASSUME NEW p, NEW fs, Coherent(p, fs), fs # <<>>
  PROVE  LET f == fs[Len(fs)]
             gs == SubSeq(fs, 1, Len(fs) - 1)
             k == IndexOf(p, f.id)
             q == Returned(p, k, f.was_used)
         IN  /\ Coherent(q, gs)
             /\ k \in 1..Len(p) /\ p[k].id = f.id /\ (Walking(f) => k = f.k) /\ f \in FrameType
             /\ Len(q) = Len(p)
             /\ \A j \in 1..Len(p) : /\ q[j].id = p[j].id /\ q[j].observing = p[j].observing
                                     /\ q[j].delete_me = p[j].delete_me
  <1> DEFINE f == fs[Len(fs)]
             gs == SubSeq(fs, 1, Len(fs) - 1)
             k == IndexOf(p, f.id)
             r == [p[k] EXCEPT !.in_use = f.was_used]
             q == Returned(p, k, f.was_used)
  <1>1. /\ p \in Seq(Reply) /\ fs \in Seq(FrameType) /\ OnePerId(p)
        /\ Len(p) \in Nat /\ DOMAIN p = 1..Len(p) /\ \A j \in 1..Len(p) : p[j] \in Reply
        BY FoundById DEF Coherent
  <1>2. /\ gs \in Seq(FrameType) /\ Len(gs) = Len(fs) - 1 /\ Len(fs) \in Nat \ {0}
        /\ \A l \in 1..Len(gs) : gs[l] = fs[l] /\ l \in 1..Len(fs)
        /\ f \in FrameType
        BY <1>1, PoppedFrames
  <1> HIDE DEF gs
  <1>3. k \in 1..Len(p) /\ p[k].id = f.id
    <2>1. \E j \in 1..Len(p) : p[j].id = f.id
          BY <1>2 DEF Coherent
    <2> HIDE DEF f
    <2>2. IsPending(p, f.id)
          BY <1>1, <2>1 DEF IsPending
    <2>3. QED
          BY <1>1, <2>2, FoundById
  <1>4. Walking(f) => k = f.k
    <2>1. SUFFICES ASSUME Walking(f) PROVE k = f.k
          OBVIOUS
    <2>2. f.k \in 1..Len(p) /\ p[f.k].id = f.id
          BY <1>2, <2>1 DEF Coherent
    <2> HIDE DEF f, k
    <2>3. QED
          BY <1>1, <1>3, <2>2 DEF OnePerId
  <1>5. f.was_used \in BOOLEAN /\ f.id \in Ids
        BY <1>2 DEF FrameType
  <1>6. f.was_used <=> InUse(gs, f.id)
    <2>0. Len(fs) \in 1..Len(fs)
          BY <1>2
    <2>1. f.was_used <=> \E m \in 1..(Len(fs) - 1) : fs[m].id = f.id
          BY <2>0 DEF Coherent
    <2> HIDE DEF f
    <2>2. QED
          BY <1>2, <2>1 DEF InUse
  <1>7. \A id : InUse(fs, id) <=> InUse(gs, id) \/ id = f.id
    <2>1. \A l \in 1..Len(fs) : l = Len(fs) \/ l \in 1..Len(gs)
          BY <1>2
    <2>2. Len(fs) \in 1..Len(fs)
          BY <1>2
    <2>3. QED
          BY <1>2, <2>1, <2>2 DEF InUse
  <1>8. p[k] \in Reply
        BY <1>1, <1>3
  <1> HIDE DEF f, k
  <1>9. r \in Reply /\ r.id = p[k].id /\ r.in_use = f.was_used /\ r.observing = p[k].observing
        /\ r.delete_me = p[k].delete_me
        BY <1>5, <1>8 DEF Reply
  <1>10. q = [p EXCEPT ![k] = r]
        BY <1>1, <1>3 DEF Returned
  <1> HIDE DEF r, q
  <1>11. /\ q \in Seq(Reply) /\ Len(q) = Len(p) /\ OnePerId(q)
         /\ q[k] = r /\ \A j \in 1..Len(p) : j # k => q[j] = p[j]
         /\ \A j \in 1..Len(p) : q[j].id = p[j].id
        BY <1>1, <1>3, <1>9, <1>10, Overwritten
  <1>12. \A j \in 1..Len(q) : q[j].in_use <=> InUse(gs, q[j].id)
    <2> SUFFICES ASSUME NEW j \in 1..Len(p) PROVE q[j].in_use <=> InUse(gs, q[j].id)
        BY <1>11
    <2>1. CASE j = k
          BY <1>3, <1>6, <1>9, <1>11, <2>1
    <2>2. CASE j # k
      <3>1. p[j].id # p[k].id
            BY <1>1, <1>3, <2>2 DEF OnePerId
      <3>2. p[j].in_use <=> InUse(fs, p[j].id)
            BY DEF Coherent
      <3>3. QED
            BY <1>3, <1>7, <1>11, <2>2, <3>1, <3>2
    <2>3. QED
          BY <2>1, <2>2
  <1>13. ASSUME NEW l \in 1..Len(gs)
         PROVE  /\ \E j \in 1..Len(q) : q[j].id = gs[l].id
                /\ Walking(gs[l]) => gs[l].k \in 1..Len(q) /\ q[gs[l].k].id = gs[l].id
    <2>1. /\ \E j \in 1..Len(p) : p[j].id = fs[l].id
          /\ Walking(fs[l]) => fs[l].k \in 1..Len(p) /\ p[fs[l].k].id = fs[l].id
          BY <1>2, <1>13 DEF Coherent
    <2>2. gs[l] = fs[l]
          BY <1>2, <1>13
    <2>3. QED
          BY <1>11, <2>1, <2>2
  <1>14. \A l \in 1..Len(gs) : gs[l].was_used <=> \E m \in 1..(l - 1) : gs[m].id = gs[l].id
    <2> SUFFICES ASSUME NEW l \in 1..Len(gs)
                 PROVE  gs[l].was_used <=> \E m \in 1..(l - 1) : gs[m].id = gs[l].id
        OBVIOUS
    <2>1. fs[l].was_used <=> \E m \in 1..(l - 1) : fs[m].id = fs[l].id
          BY <1>2 DEF Coherent
    <2>2. \A m \in 1..(l - 1) : gs[m] = fs[m]
          BY <1>2
    <2>3. gs[l] = fs[l]
          BY <1>2
    <2>4. QED
          BY <2>1, <2>2, <2>3
  <1>15. Coherent(q, gs)
        BY <1>2, <1>11, <1>12, <1>13, <1>14 DEF Coherent
  <1>16. \A j \in 1..Len(p) : q[j].observing = p[j].observing /\ q[j].delete_me = p[j].delete_me
        BY <1>9, <1>11
  <1>17. QED
        BY <1>2, <1>3, <1>4, <1>11, <1>15, <1>16 DEF q, k, f, gs

\* sol_vector_del() on the replies: one is gone, the others keep their order.
LEMMA DeletedReply ==
  ASSUME NEW p \in Seq(Reply), OnePerId(p), NEW k \in 1..Len(p),
         NEW q, q = sol_vector_del(p, k)
  PROVE  /\ q \in Seq(Reply) /\ OnePerId(q) /\ Len(q) = Len(p) - 1
         /\ \A j \in 1..Len(q) : \E l \in 1..Len(p) : l # k /\ q[j] = p[l]
         /\ \A l \in 1..Len(p) : l # k => \E j \in 1..Len(q) : q[j] = p[l]
         /\ \A j \in 1..Len(q) : j < k => q[j] = p[j]
         /\ \A j \in 1..Len(q) : q[j].id # p[k].id
  <1>1. Len(p) \in Nat
        BY LenProperties
  <1>2. /\ q \in Seq(Reply) /\ Len(q) = Len(p) - 1
        /\ \A j \in 1..(Len(p) - 1) : q[j] = IF j < k THEN p[j] ELSE p[j + 1]
        BY DeletedProperties
  <1> DEFINE from(j) == IF j < k THEN j ELSE j + 1
  <1>3. \A j \in 1..Len(q) : from(j) \in 1..Len(p) /\ from(j) # k /\ q[j] = p[from(j)]
        BY <1>1, <1>2
  <1>4. \A j, l \in 1..Len(q) : from(j) = from(l) => j = l
        BY <1>1, <1>2
  <1>5. ASSUME NEW l \in 1..Len(p), l # k PROVE \E j \in 1..Len(q) : q[j] = p[l]
    <2>1. CASE l < k
          BY <1>1, <1>2, <2>1
    <2>2. CASE l > k
      <3>1. l - 1 \in 1..Len(q) /\ ~(l - 1 < k) /\ (l - 1) + 1 = l
            BY <1>1, <1>2, <2>2
      <3>2. q[l - 1] = p[l]
            BY <1>2, <3>1
      <3>3. QED
            BY <3>1, <3>2
    <2>3. QED
          BY <1>1, <1>5, <2>1, <2>2
  <1>6. \A j \in 1..Len(q) : j < k => q[j] = p[j]
        BY <1>2
  <1> HIDE DEF from
  <1>7. OnePerId(q)
        BY <1>3, <1>4 DEF OnePerId
  <1>8. \A j \in 1..Len(q) : q[j].id # p[k].id
        BY <1>3 DEF OnePerId
  <1>9. QED
        BY <1>2, <1>3, <1>5, <1>6, <1>7, <1>8

\* No walk stands at another reply than that of id.
NoOtherWalk(fs, id) == \A l \in 1..Len(fs) : Walking(fs[l]) => fs[l].id = id

\* q is p with reply k marked, if it is in use, or without it.
Freed(p, k, q) ==
  /\ \A j \in 1..Len(q) : \E l \in 1..Len(p) :
       /\ q[j].id = p[l].id /\ q[j].observing = p[l].observing
       /\ l # k => q[j] = p[l]
       /\ l = k => p[k].in_use /\ q[j].delete_me
  /\ p[k].in_use => Len(q) = Len(p)
  /\ ~p[k].in_use => Len(q) = Len(p) - 1 /\ \A j \in 1..Len(q) : q[j].id # p[k].id

\* SOL_REENTRANT_FREE() of reply k, when no walk stands at another one.
LEMMA FreeCoherent ==
  ASSUME NEW p, NEW fs, Coherent(p, fs), NEW k \in 1..Len(p), NoOtherWalk(fs, p[k].id)
  PROVE  Coherent(SOL_REENTRANT_FREE(p, k), fs) /\ Freed(p, k, SOL_REENTRANT_FREE(p, k))
  <1> DEFINE q == SOL_REENTRANT_FREE(p, k)
             r == [p[k] EXCEPT !.delete_me = TRUE]
  <1> SUFFICES Coherent(q, fs) /\ Freed(p, k, q)
      OBVIOUS
  <1>1. /\ p \in Seq(Reply) /\ fs \in Seq(FrameType) /\ OnePerId(p)
        /\ Len(p) \in Nat /\ DOMAIN p = 1..Len(p) /\ \A j \in 1..Len(p) : p[j] \in Reply
        BY FoundById DEF Coherent
  <1>2. CASE p[k].in_use
    <2>1. r \in Reply /\ r.id = p[k].id /\ r.in_use = p[k].in_use /\ r.observing = p[k].observing
          /\ r.delete_me = TRUE
          BY <1>1 DEF Reply
    <2>2. q = [p EXCEPT ![k] = r]
          BY <1>1, <1>2 DEF SOL_REENTRANT_FREE
    <2> HIDE DEF q, r
    <2>3. /\ q \in Seq(Reply) /\ Len(q) = Len(p) /\ OnePerId(q)
          /\ q[k] = r /\ \A j \in 1..Len(p) : j # k => q[j] = p[j]
          /\ \A j \in 1..Len(p) : q[j].id = p[j].id
          BY <1>1, <2>1, <2>2, Overwritten
    <2>4. \A j \in 1..Len(q) : q[j].in_use <=> InUse(fs, q[j].id)
      <3>1. \A j \in 1..Len(q) : q[j].in_use = p[j].in_use /\ q[j].id = p[j].id
            BY <2>1, <2>3
      <3>2. QED
            BY <2>3, <3>1 DEF Coherent
    <2>5. Coherent(q, fs)
          BY <2>3, <2>4, SMTT(30) DEF Coherent
    <2>6. \A j \in 1..Len(q) :
              /\ q[j].id = p[j].id /\ q[j].observing = p[j].observing
              /\ j # k => q[j] = p[j]
              /\ j = k => p[k].in_use /\ q[j].delete_me
          BY <1>2, <2>1, <2>3
    <2>7. QED
          BY <1>2, <2>3, <2>5, <2>6 DEF Freed
  <1>3. CASE ~p[k].in_use
    <2>1. q = sol_vector_del(p, k)
          BY <1>3 DEF SOL_REENTRANT_FREE
    <2> HIDE DEF q
    <2> DEFINE d == sol_vector_del(p, k)
    <2>a. /\ d \in Seq(Reply) /\ OnePerId(d) /\ Len(d) = Len(p) - 1
          /\ \A j \in 1..Len(d) : \E l \in 1..Len(p) : l # k /\ d[j] = p[l]
          /\ \A l \in 1..Len(p) : l # k => \E j \in 1..Len(d) : d[j] = p[l]
          /\ \A j \in 1..Len(d) : d[j].id # p[k].id
          BY <1>1, DeletedReply, ZenonT(60)
    <2>b. q = d
          BY <2>1
    <2> HIDE DEF d
    <2>2. /\ q \in Seq(Reply) /\ OnePerId(q) /\ Len(q) = Len(p) - 1
          /\ \A j \in 1..Len(q) : \E l \in 1..Len(p) : l # k /\ q[j] = p[l]
          /\ \A l \in 1..Len(p) : l # k => \E j \in 1..Len(q) : q[j] = p[l]
          /\ \A j \in 1..Len(q) : q[j].id # p[k].id
          BY <2>a, <2>b
    <2>c. \A j \in 1..Len(p) : p[j].in_use <=> InUse(fs, p[j].id)
          BY DEF Coherent
    <2>3. ~InUse(fs, p[k].id)
          BY <1>3, <2>c, Zenon
    <2>4. \A l \in 1..Len(fs) : ~Walking(fs[l]) /\ fs[l].id # p[k].id
          BY <2>3 DEF InUse, NoOtherWalk
    <2>5. \A l \in 1..Len(fs) : \E j \in 1..Len(q) : q[j].id = fs[l].id
      <3> SUFFICES ASSUME NEW l \in 1..Len(fs) PROVE \E j \in 1..Len(q) : q[j].id = fs[l].id
          OBVIOUS
      <3>1. PICK m \in 1..Len(p) : p[m].id = fs[l].id
            BY DEF Coherent
      <3>2. QED
            BY <2>2, <2>4, <3>1
    <2>6. \A j \in 1..Len(q) : q[j].in_use <=> InUse(fs, q[j].id)
          BY <2>2 DEF Coherent
    <2>7. Coherent(q, fs)
          BY <2>2, <2>4, <2>5, <2>6 DEF Coherent
    <2>8. QED
          BY <1>3, <2>2, <2>7 DEF Freed
  <1>4. QED
        BY <1>2, <1>3

\* A new reply, with an id of its own.
LEMMA AddCoherent ==
  ASSUME NEW p, NEW fs, Coherent(p, fs), NEW r \in Reply, ~r.in_use,
         \A j \in 1..Len(p) : p[j].id # r.id
  PROVE  /\ Coherent(Append(p, r), fs) /\ Len(Append(p, r)) = Len(p) + 1
         /\ \A j \in 1..Len(Append(p, r)) : \/ Append(p, r)[j] = r
                                            \/ j \in 1..Len(p) /\ Append(p, r)[j] = p[j]
  <1> DEFINE q == Append(p, r)
  <1>1. /\ p \in Seq(Reply) /\ fs \in Seq(FrameType) /\ Len(p) \in Nat
        BY LenProperties DEF Coherent
  <1>2. /\ q \in Seq(Reply) /\ Len(q) = Len(p) + 1
        /\ q[Len(p) + 1] = r /\ \A j \in 1..Len(p) : q[j] = p[j]
        BY <1>1, AppendProperties
  <1> HIDE DEF q
  <1>3. \A j \in 1..Len(q) : j = Len(p) + 1 \/ j \in 1..Len(p)
        BY <1>1, <1>2
  <1>4. \A j \in 1..Len(p) : j \in 1..Len(q)
        BY <1>1, <1>2
  <1>5. \A l \in 1..Len(fs) : \E j \in 1..Len(p) : p[j].id = fs[l].id
        BY DEF Coherent
  <1>6. OnePerId(q)
    <2> SUFFICES ASSUME NEW j \in 1..Len(q), NEW l \in 1..Len(q), q[j].id = q[l].id PROVE j = l
        BY DEF OnePerId
    <2>1. CASE j = Len(p) + 1 /\ l \in 1..Len(p)
          BY <1>2, <2>1
    <2>2. CASE l = Len(p) + 1 /\ j \in 1..Len(p)
          BY <1>2, <2>2
    <2>3. CASE j \in 1..Len(p) /\ l \in 1..Len(p)
          BY <1>2, <2>3 DEF Coherent, OnePerId
    <2>4. QED
          BY <1>3, <2>1, <2>2, <2>3
  <1>7. \A j \in 1..Len(q) : q[j].in_use <=> InUse(fs, q[j].id)
    <2> SUFFICES ASSUME NEW j \in 1..Len(q) PROVE q[j].in_use <=> InUse(fs, q[j].id)
        OBVIOUS
    <2>1. CASE j = Len(p) + 1
      <3>1. ~InUse(fs, r.id)
            BY <1>5 DEF InUse
      <3>2. QED
            BY <1>2, <2>1, <3>1
    <2>2. CASE j \in 1..Len(p)
          BY <1>2, <2>2 DEF Coherent
    <2>3. QED
          BY <1>3, <2>1, <2>2
  <1>8. \A l \in 1..Len(fs) : \E j \in 1..Len(q) : q[j].id = fs[l].id
        BY <1>2, <1>4, <1>5
  <1>9. \A l \in 1..Len(fs) : Walking(fs[l]) => fs[l].k \in 1..Len(q) /\ q[fs[l].k].id = fs[l].id
    <2> SUFFICES ASSUME NEW l \in 1..Len(fs), Walking(fs[l])
                 PROVE  fs[l].k \in 1..Len(q) /\ q[fs[l].k].id = fs[l].id
        OBVIOUS
    <2>1. fs[l].k \in 1..Len(p) /\ p[fs[l].k].id = fs[l].id
          BY DEF Coherent
    <2>2. QED
          BY <1>2, <1>4, <2>1
  <1>10. Coherent(q, fs)
        BY <1>1, <1>2, <1>6, <1>7, <1>8, <1>9 DEF Coherent
  <1>11. QED
        BY <1>2, <1>3, <1>10 DEF q

\* An API call is noted in the frame of the callback that makes it.
LEMMA CountedFrames ==
  ASSUME NEW fs \in Seq(FrameType)
  PROVE  /\ Counted(fs) \in Seq(FrameType) /\ Len(Counted(fs)) = Len(fs)
         /\ DOMAIN Counted(fs) = DOMAIN fs
         /\ \A l \in 1..Len(fs) :
              /\ Counted(fs)[l].handler = fs[l].handler /\ Counted(fs)[l].id = fs[l].id
              /\ Counted(fs)[l].was_used = fs[l].was_used /\ Counted(fs)[l].k = fs[l].k
  <1>1. Len(fs) \in Nat /\ DOMAIN fs = 1..Len(fs) /\ \A l \in 1..Len(fs) : fs[l] \in FrameType
        BY LenProperties, ElementOfSeq
  <1> DEFINE noted(l) == [fs[l] EXCEPT !.calls = 1]
  <1>2. \A l \in 1..Len(fs) :
          /\ noted(l) \in FrameType
          /\ noted(l).handler = fs[l].handler /\ noted(l).id = fs[l].id
          /\ noted(l).was_used = fs[l].was_used /\ noted(l).k = fs[l].k
        BY <1>1 DEF FrameType
  <1>3. Counted(fs) = [l \in 1..Len(fs) |-> IF l = Len(fs) THEN noted(l) ELSE fs[l]]
        BY <1>1 DEF Counted
  <1> HIDE DEF noted
  <1>4. \A l \in 1..Len(fs) : (IF l = Len(fs) THEN noted(l) ELSE fs[l]) \in FrameType
        BY <1>1, <1>2
  <1>5. Counted(fs) \in Seq(FrameType)
    <2>1. Counted(fs) \in [1..Len(fs) -> FrameType]
          BY <1>3, <1>4
    <2> HIDE DEF Counted
    <2>2. QED
          BY <1>1, <2>1, SeqDef
  <1>6. Len(Counted(fs)) = Len(fs) /\ DOMAIN Counted(fs) = 1..Len(fs)
    <2>1. DOMAIN Counted(fs) = 1..Len(fs)
          BY <1>3
    <2>2. Len(Counted(fs)) \in Nat /\ DOMAIN Counted(fs) = 1..Len(Counted(fs))
          BY <1>5, LenProperties
    <2> DEFINE n == Len(Counted(fs))
    <2> HIDE DEF n
    <2>3. n \in Nat /\ 1..n = 1..Len(fs)
          BY <2>1, <2>2 DEF n
    <2>4. n = Len(fs)
      <3> DEFINE m == Len(fs)
      <3>1. m \in Nat /\ n \in Nat /\ \A x \in 1..n : x \in 1..m
            BY <1>1, <2>3
      <3>2. \A x \in 1..m : x \in 1..n
            BY <2>3
      <3> HIDE DEF m
      <3>3. n <= m
            BY <3>1
      <3>4. m <= n
            BY <3>1, <3>2
      <3>5. n = m
            BY <3>1, <3>3, <3>4
      <3>6. QED
            BY <3>5 DEF m
    <2>5. QED
          BY <2>1, <2>4 DEF n
  <1>7. QED
        BY <1>1, <1>2, <1>3, <1>5, <1>6

\* Counting a call of a callback changes nothing between replies and callbacks.
LEMMA CountedCoherent ==
  ASSUME NEW p, NEW fs, Coherent(p, fs)
  PROVE  Coherent(p, Counted(fs))
  <1>1. fs \in Seq(FrameType) /\ Len(fs) \in Nat
        BY LenProperties DEF Coherent
  <1> DEFINE gs == Counted(fs)
  <1>2. /\ gs \in Seq(FrameType) /\ Len(gs) = Len(fs)
        /\ \A l \in 1..Len(fs) : /\ gs[l].handler = fs[l].handler /\ gs[l].id = fs[l].id
                                 /\ gs[l].was_used = fs[l].was_used /\ gs[l].k = fs[l].k
        BY <1>1, CountedFrames
  <1> HIDE DEF gs
  <1>3. \A id : InUse(gs, id) <=> InUse(fs, id)
        BY <1>2 DEF InUse
  <1>4. \A l \in 1..Len(gs) : gs[l].was_used <=> \E m \in 1..(l - 1) : gs[m].id = gs[l].id
    <2> SUFFICES ASSUME NEW l \in 1..Len(gs)
                 PROVE  gs[l].was_used <=> \E m \in 1..(l - 1) : gs[m].id = gs[l].id
        OBVIOUS
    <2>1. fs[l].was_used <=> \E m \in 1..(l - 1) : fs[m].id = fs[l].id
          BY <1>2 DEF Coherent
    <2>2. \A m \in 1..(l - 1) : m \in 1..Len(fs)
          BY <1>1, <1>2
    <2>3. QED
          BY <1>2, <2>1, <2>2
  <1>5. QED
        BY <1>2, <1>3, <1>4, SMTT(30) DEF Coherent, Walking, gs

\* sol_timeout_del() of an observing reply's timeout.
LEMMA TimerOffCoherent ==
  ASSUME NEW p, NEW fs, Coherent(p, fs), NEW k \in 1..Len(p)
  PROVE  LET q == [p EXCEPT ![k].timer = FALSE] IN
         /\ Coherent(q, fs) /\ Len(q) = Len(p)
         /\ \A j \in 1..Len(p) : /\ q[j].id = p[j].id /\ q[j].observing = p[j].observing
                                 /\ q[j].in_use = p[j].in_use /\ q[j].delete_me = p[j].delete_me
  <1> DEFINE r == [p[k] EXCEPT !.timer = FALSE]
             q == [p EXCEPT ![k].timer = FALSE]
  <1>1. /\ p \in Seq(Reply) /\ Len(p) \in Nat /\ DOMAIN p = 1..Len(p) /\ p[k] \in Reply /\ OnePerId(p)
        BY LenProperties, ElementOfSeq DEF Coherent
  <1>2. /\ r \in Reply /\ r.id = p[k].id /\ r.observing = p[k].observing
        /\ r.in_use = p[k].in_use /\ r.delete_me = p[k].delete_me
        BY <1>1 DEF Reply
  <1>3. q = [p EXCEPT ![k] = r]
        BY <1>1
  <1> HIDE DEF q, r
  <1>4. /\ q \in Seq(Reply) /\ Len(q) = Len(p) /\ OnePerId(q)
        /\ q[k] = r /\ \A j \in 1..Len(p) : j # k => q[j] = p[j]
        BY <1>1, <1>2, <1>3, Overwritten
  <1>5. \A j \in 1..Len(p) : /\ q[j].id = p[j].id /\ q[j].observing = p[j].observing
                             /\ q[j].in_use = p[j].in_use /\ q[j].delete_me = p[j].delete_me
        BY <1>2, <1>4
  <1>6. \A j \in 1..Len(q) : q[j].in_use <=> InUse(fs, q[j].id)
        BY <1>4, <1>5 DEF Coherent
  <1>7. /\ \A l \in 1..Len(fs) : \E j \in 1..Len(q) : q[j].id = fs[l].id
        /\ \A l \in 1..Len(fs) : Walking(fs[l]) => fs[l].k \in 1..Len(q) /\ q[fs[l].k].id = fs[l].id
        BY <1>4, <1>5 DEF Coherent
  <1>8. Coherent(q, fs)
        BY <1>4, <1>6, <1>7 DEF Coherent
  <1>9. QED
        BY <1>4, <1>5, <1>8 DEF q

-----------------------------------------------------------------------------
(* The invariant of replies and callbacks.                                 *)

StackInv ==
  /\ \A l \in 2..Len(stack) : stack[l].handler = "unobserve"
  /\ \A m, l \in 1..Len(stack) : Walking(stack[m]) => stack[l].id = stack[m].id
  /\ state = "up" => \A l \in 1..Len(stack) : stack[l].handler # "destroy"
  /\ state = "closing" => /\ Len(stack) = 1 /\ stack[1].handler = "destroy"
                          /\ stack[1].k = Len(pending) /\ outgoing = <<>>
  /\ state = "gone" => stack = <<>> /\ pending = <<>> /\ outgoing = <<>>

\* Ids are left for the unobserve packets that may follow.
CountInv ==
  request_id + Cardinality(Observing(pending)) + Cardinality(Unobserving(stack)) <= MaxId

ReplyInv ==
  /\ state \in {"up", "closing", "gone"}
  /\ request_id \in 0..MaxId
  /\ Coherent(pending, stack)
  /\ StackInv
  /\ \A j \in 1..Len(pending) : pending[j].id <= request_id
  /\ CountInv

\* The rules for callbacks that sol-coap.c relies on.
CallbacksKeepRules == Careless \cap {"cancel others", "calls on destroy"} = {}

\* Facts about the sizes in CountInv.
LEMMA ObservingFinite ==
  ASSUME NEW p \in Seq(Reply)
  PROVE  Observing(p) \subseteq Ids /\ IsFiniteSet(Observing(p)) /\ Cardinality(Observing(p)) \in Nat
  <1>1. DOMAIN p = 1..Len(p) /\ \A j \in 1..Len(p) : p[j].id \in Ids
    <2>1. DOMAIN p = 1..Len(p) /\ \A j \in 1..Len(p) : p[j] \in Reply
          BY LenProperties, ElementOfSeq
    <2>2. QED
          BY <2>1 DEF Reply
  <1>2. Observing(p) \subseteq Ids
        BY <1>1 DEF Observing
  <1>3. IsFiniteSet(Ids)
        BY CoapAssumption, FS_Interval DEF Ids
  <1>4. IsFiniteSet(Observing(p))
        BY <1>2, <1>3, FS_Subset
  <1>5. QED
        BY <1>2, <1>4, FS_CardinalityType

\* A walk that deletes replies leaves no more observations, and fewer if it deletes one.
LEMMA ObservingFewer ==
  ASSUME NEW p \in Seq(Reply), NEW q \in Seq(Reply),
         \A j \in 1..Len(q) : \E l \in 1..Len(p) :
           q[j].id = p[l].id /\ (q[j].observing <=> p[l].observing)
  PROVE  /\ Observing(q) \subseteq Observing(p)
         /\ Cardinality(Observing(q)) <= Cardinality(Observing(p))
         /\ \A k \in 1..Len(p) :
              p[k].observing /\ (\A j \in 1..Len(q) : q[j].id # p[k].id)
                => Cardinality(Observing(q)) + 1 <= Cardinality(Observing(p))
  <1>1. DOMAIN p = 1..Len(p) /\ DOMAIN q = 1..Len(q)
        BY LenProperties
  <1>2. Observing(q) \subseteq Observing(p)
        BY <1>1 DEF Observing
  <1>3. /\ IsFiniteSet(Observing(p)) /\ Cardinality(Observing(p)) \in Nat
        /\ IsFiniteSet(Observing(q)) /\ Cardinality(Observing(q)) \in Nat
        BY ObservingFinite
  <1>4. Cardinality(Observing(q)) <= Cardinality(Observing(p))
        BY <1>2, <1>3, FS_Subset
  <1>5. ASSUME NEW k \in 1..Len(p), p[k].observing, \A j \in 1..Len(q) : q[j].id # p[k].id
        PROVE  Cardinality(Observing(q)) + 1 <= Cardinality(Observing(p))
    <2>1. p[k].id \in Observing(p) /\ p[k].id \notin Observing(q)
          BY <1>1, <1>5 DEF Observing
    <2>2. Cardinality(Observing(q)) # Cardinality(Observing(p))
      <3>1. Cardinality(Observing(p)) = Cardinality(Observing(q)) => Observing(p) = Observing(q)
            BY <1>2, <1>3, FS_Subset
      <3>2. QED
            BY <2>1, <3>1
    <2>3. QED
          BY <1>3, <1>4, <2>2
  <1>6. QED
        BY <1>2, <1>4, <1>5

\* The callbacks of sol_coap_unobserve_by_token() in progress are finitely many, and one
\* less once the innermost has returned.
LEMMA UnobservingFinite ==
  ASSUME NEW fs \in Seq(FrameType)
  PROVE  /\ Cardinality(Unobserving(fs)) \in Nat
         /\ (\A l \in 1..Len(fs) : fs[l].handler # "unobserve") => Cardinality(Unobserving(fs)) = 0
         /\ fs # <<>> /\ fs[Len(fs)].handler = "unobserve" =>
              Cardinality(Unobserving(fs)) = Cardinality(Unobserving(SubSeq(fs, 1, Len(fs) - 1))) + 1
  <1>1. Len(fs) \in Nat /\ DOMAIN fs = 1..Len(fs)
        BY LenProperties
  <1>2. ASSUME NEW gs \in Seq(FrameType)
        PROVE  IsFiniteSet(Unobserving(gs)) /\ Cardinality(Unobserving(gs)) \in Nat
    <2>1. IsFiniteSet(1..Len(gs)) /\ DOMAIN gs = 1..Len(gs)
          BY <1>2, LenProperties, FS_Interval
    <2>2. Unobserving(gs) \subseteq 1..Len(gs)
          BY <2>1 DEF Unobserving
    <2>3. QED
          BY <2>1, <2>2, FS_Subset, FS_CardinalityType
  <1>3. (\A l \in 1..Len(fs) : fs[l].handler # "unobserve") => Cardinality(Unobserving(fs)) = 0
    <2>1. SUFFICES ASSUME \A l \in 1..Len(fs) : fs[l].handler # "unobserve"
                   PROVE  Cardinality(Unobserving(fs)) = 0
          OBVIOUS
    <2>2. Unobserving(fs) = {}
          BY <1>1, <2>1 DEF Unobserving
    <2>3. QED
          BY <2>2, FS_EmptySet
  <1>4. ASSUME fs # <<>>, fs[Len(fs)].handler = "unobserve"
        PROVE  Cardinality(Unobserving(fs)) = Cardinality(Unobserving(SubSeq(fs, 1, Len(fs) - 1))) + 1
    <2> DEFINE gs == SubSeq(fs, 1, Len(fs) - 1)
    <2>1. /\ gs \in Seq(FrameType) /\ Len(gs) = Len(fs) - 1 /\ Len(fs) \in Nat \ {0}
          /\ \A l \in 1..Len(gs) : gs[l] = fs[l] /\ l \in 1..Len(fs)
          BY <1>4, PoppedFrames
    <2>2. DOMAIN gs = 1..Len(gs)
          BY <2>1, LenProperties
    <2> HIDE DEF gs
    <2>3. Unobserving(fs) = Unobserving(gs) \cup {Len(fs)} /\ Len(fs) \notin Unobserving(gs)
      <3>1. \A l \in 1..Len(fs) : l = Len(fs) \/ l \in 1..Len(gs)
            BY <2>1
      <3>2. Len(fs) \in 1..Len(fs) /\ Len(fs) \notin 1..Len(gs)
            BY <2>1
      <3>3. QED
            BY <1>1, <1>4, <2>1, <2>2, <3>1, <3>2 DEF Unobserving
    <2>4. IsFiniteSet(Unobserving(gs))
          BY <1>2, <2>1
    <2>5. Cardinality(Unobserving(gs) \cup {Len(fs)}) = Cardinality(Unobserving(gs)) + 1
          BY <2>3, <2>4, FS_AddElement
    <2>6. QED
          BY <2>3, <2>5 DEF gs
  <1>5. QED
        BY <1>2, <1>3, <1>4

\* The indices of a sequence of length 1.
LEMMA OneIndex ==
  ASSUME NEW n, n = 1
  PROVE  \A i \in 1..n : i = 1
  OBVIOUS

\* A frame that is not of an unobserve call is the only one.
LEMMA OnlyFrame ==
  ASSUME ReplyInv, stack # <<>>, Top.handler # "unobserve"
  PROVE  Len(stack) = 1 /\ Popped = <<>> /\ Top = stack[1]
  <1>1. stack \in Seq(FrameType) /\ Len(stack) \in Nat
        BY LenProperties DEF ReplyInv, Coherent
  <1>2. /\ Popped \in Seq(FrameType) /\ Len(Popped) = Len(stack) - 1 /\ Len(stack) \in Nat \ {0}
        BY <1>1, PoppedFrames DEF Popped
  <1>3. Len(stack) = 1
        BY <1>2 DEF ReplyInv, StackInv, Top
  <1>4. Popped = <<>>
        BY <1>2, <1>3, EmptySeq
  <1>5. QED
        BY <1>3, <1>4 DEF Top

\* The walk of respond_packet() goes on, or ends.
LEMMA WalkReplies ==
  ASSUME NEW p, Coherent(p, <<>>), NEW from \in Nat, NEW msg \in Msg, NEW keep \in BOOLEAN,
         NEW q, NEW found, NEW x, RespondWalk(<<>>, q, p, from, msg, keep, found, x)
  PROVE  /\ Coherent(pending', stack')
         /\ stack' = <<>> \/ (Len(stack') = 1 /\ stack'[1].handler = "respond")
         /\ Len(pending') = Len(p)
         /\ \A j \in 1..Len(p) : /\ pending'[j].id = p[j].id
                                 /\ pending'[j].observing = p[j].observing
                                 /\ pending'[j].delete_me = p[j].delete_me
  <1> DEFINE matching == {k \in 1..from : k <= Len(p) /\ match_reply(p[k], msg)}
  <1>1. CASE matching = {}
        BY <1>1 DEF RespondWalk
  <1>2. CASE matching # {}
    <2>1. matching \subseteq 0..from
          OBVIOUS
    <2>2. Calls(<<>>, p, Max(matching), "respond", msg, keep)
          BY <1>2 DEF RespondWalk
    <2>3. Max(matching) \in matching
      <3> HIDE DEF matching
      <3>1. QED
            BY <1>2, <2>1, MinMax
    <2>4. PICK k \in 1..Len(p) : k = Max(matching)
      <3>1. Len(p) \in Nat
            BY LenProperties DEF Coherent
      <3> DEFINE m == Max(matching)
      <3> HIDE DEF m
      <3>2. m \in matching
            BY <2>3 DEF m
      <3>3. m \in 1..from /\ m <= Len(p)
            BY <3>2
      <3>4. m \in 1..Len(p)
            BY <3>1, <3>3
      <3>5. QED
            BY <3>4 DEF m
    <2> HIDE DEF matching
    <2> DEFINE f == Frame("respond", p[k], k, msg, keep)
    <2>5. pending' = Called(p, k) /\ stack' = Append(<<>>, f)
          BY <2>2, <2>4 DEF Calls
    <2>6. /\ Coherent(Called(p, k), Append(<<>>, f)) /\ Len(Called(p, k)) = Len(p)
          /\ \A j \in 1..Len(p) : Called(p, k)[j].id = p[j].id
                                   /\ Called(p, k)[j].observing = p[j].observing
                                   /\ Called(p, k)[j].delete_me = p[j].delete_me
          BY CallCoherent DEF Handlers
    <2>7. f.handler = "respond"
          BY DEF Frame
    <2> HIDE DEF f
    <2>8. Append(<<>>, f) = <<f>>
          OBVIOUS
    <2>9. Len(stack') = 1 /\ stack'[1].handler = "respond"
          BY <2>5, <2>7, <2>8
    <2>10. QED
          BY <2>5, <2>6, <2>9
  <1>3. QED
        BY <1>1, <1>2

\* Types that the steps below need.
LEMMA ReplyTypes ==
  ASSUME ReplyInv
  PROVE  /\ pending \in Seq(Reply) /\ stack \in Seq(FrameType) /\ OnePerId(pending)
         /\ Len(pending) \in Nat /\ Len(stack) \in Nat /\ request_id \in Nat /\ MaxId \in Nat
         /\ DOMAIN pending = 1..Len(pending) /\ DOMAIN stack = 1..Len(stack)
         /\ \A j \in 1..Len(pending) : pending[j] \in Reply /\ pending[j].id \in Ids
         /\ \A l \in 1..Len(stack) : stack[l] \in FrameType
         /\ Cardinality(Observing(pending)) \in Nat /\ Cardinality(Unobserving(stack)) \in Nat
         /\ request_id + Cardinality(Observing(pending)) <= MaxId
  <1>1. pending \in Seq(Reply) /\ stack \in Seq(FrameType) /\ OnePerId(pending)
        BY DEF ReplyInv, Coherent
  <1>2. /\ Len(pending) \in Nat /\ Len(stack) \in Nat
        /\ DOMAIN pending = 1..Len(pending) /\ DOMAIN stack = 1..Len(stack)
        BY <1>1, LenProperties
  <1>3. /\ \A j \in 1..Len(pending) : pending[j] \in Reply
        /\ \A l \in 1..Len(stack) : stack[l] \in FrameType
        BY <1>1, ElementOfSeq
  <1>4. \A j \in 1..Len(pending) : pending[j].id \in Ids
        BY <1>3 DEF Reply
  <1>5. Cardinality(Observing(pending)) \in Nat /\ Cardinality(Unobserving(stack)) \in Nat
        BY <1>1, ObservingFinite, UnobservingFinite
  <1>6. request_id \in Nat /\ MaxId \in Nat
        BY CoapAssumption DEF ReplyInv
  <1>7. request_id + Cardinality(Observing(pending)) <= MaxId
        BY <1>5, <1>6 DEF ReplyInv, CountInv
  <1>8. QED
        BY <1>1, <1>2, <1>3, <1>4, <1>5, <1>6, <1>7

\* A step that leaves at most one callback in progress.
LEMMA ShallowStack ==
  ASSUME Coherent(pending', stack'), state' = "up",
         stack' = <<>> \/ (Len(stack') = 1 /\ stack'[1].handler \in {"respond", "timeout"}),
         request_id' \in Nat,
         \A j \in 1..Len(pending') : pending'[j].id <= request_id',
         request_id' + Cardinality(Observing(pending')) <= MaxId
  PROVE  ReplyInv'
  <1>1. stack' \in Seq(FrameType) /\ pending' \in Seq(Reply) /\ MaxId \in Nat
        BY CoapAssumption DEF Coherent
  <1>2. \/ Len(stack') = 0
        \/ Len(stack') = 1 /\ stack'[1].handler \in {"respond", "timeout"}
        BY <1>1, EmptySeq
  <1>3. \A l \in 1..Len(stack') : l = 1 /\ stack'[l].handler \in {"respond", "timeout"}
    <2>1. CASE Len(stack') = 0
          BY <2>1
    <2>2. CASE Len(stack') = 1 /\ stack'[1].handler \in {"respond", "timeout"}
      <3>1. 1..Len(stack') = {1}
            BY <2>2
      <3>2. QED
            BY <2>2, <3>1
    <2>3. QED
          BY <1>2, <2>1, <2>2
  <1>4. Cardinality(Unobserving(stack')) = 0
        BY <1>1, <1>3, UnobservingFinite
  <1>5. Cardinality(Observing(pending')) \in Nat
        BY <1>1, ObservingFinite
  <1>6. CountInv' /\ request_id' \in 0..MaxId
        BY <1>1, <1>4, <1>5 DEF CountInv
  <1>7. \A l \in 2..Len(stack') : FALSE
    <2>1. CASE Len(stack') = 0
          BY <2>1
    <2>2. CASE Len(stack') = 1
          BY <2>2
    <2>3. QED
          BY <1>2, <2>1, <2>2
  <1>8. StackInv'
        BY <1>3, <1>7 DEF StackInv
  <1>9. QED
        BY <1>6, <1>8 DEF ReplyInv

\* A step that adds no reply.
NoNewReply == \A j \in 1..Len(pending') : \E l \in 1..Len(pending) : pending'[j].id = pending[l].id

\* A step after which the reply of the callback that returned is gone, or stays
\* because it may: the callback returned true, without cancelling its request.
ReplyStays(ret) ==
  \A j \in 1..Len(pending') : pending'[j].id = Top.id =>
    /\ ret
    /\ pending[IndexOf(pending, Top.id)].delete_me => "true after cancel" \in Careless

\* pending_timeout_cb() calls back.
LEMMA TimeoutCalls ==
  ASSUME ReplyInv, NEW id \in Ids, pending_timeout_cb(id)
  PROVE  ReplyInv' /\ NoNewReply
  <1> DEFINE k == IndexOf(pending, id)
             f == Frame("timeout", pending[k], k, NoMsg, FALSE)
  <1>1. stack = <<>> /\ state = "up" /\ state' = "up" /\ request_id' = request_id
        /\ IsPending(pending, id)
        /\ pending' = Called(pending, k) /\ stack' = Append(<<>>, f)
        BY DEF pending_timeout_cb, Idle, Calls
  <1>2. k \in 1..Len(pending)
        BY <1>1, ReplyTypes, FoundById
  <1>3. NoMsg \in Msg
        BY DEF NoMsg, Msg, NoToken, NoObserve
  <1>4. Coherent(pending, <<>>)
        BY <1>1 DEF ReplyInv
  <1>5. f.handler = "timeout"
        BY DEF Frame
  <1> HIDE DEF k
  <1>6. /\ Coherent(pending', stack') /\ Len(pending') = Len(pending)
        /\ \A j \in 1..Len(pending) : pending'[j].id = pending[j].id
                                   /\ pending'[j].observing = pending[j].observing
        BY <1>1, <1>2, <1>3, <1>4, CallCoherent DEF Handlers
  <1> HIDE DEF f
  <1>7. Len(stack') = 1 /\ stack'[1].handler = "timeout"
    <2>1. Append(<<>>, f) = <<f>>
          OBVIOUS
    <2>2. QED
          BY <1>1, <1>5, <2>1
  <1>8. Cardinality(Observing(pending')) <= Cardinality(Observing(pending))
    <2>1. pending' \in Seq(Reply) /\ pending \in Seq(Reply)
          BY <1>6, ReplyTypes DEF Coherent
    <2>2. QED
          BY <1>6, <2>1, ObservingFewer
  <1>9. Cardinality(Observing(pending')) \in Nat
        BY <1>6, ObservingFinite DEF Coherent
  <1>10. request_id' + Cardinality(Observing(pending')) <= MaxId /\ request_id' \in Nat
        BY <1>1, <1>8, <1>9, ReplyTypes
  <1>11. \A j \in 1..Len(pending') : pending'[j].id <= request_id'
        BY <1>1, <1>6 DEF ReplyInv
  <1>12. NoNewReply
        BY <1>6 DEF NoNewReply
  <1>13. QED
        BY <1>1, <1>6, <1>7, <1>10, <1>11, <1>12, ShallowStack

\* respond_packet() begins.
LEMMA ResponseArrives ==
  ASSUME ReplyInv, NEW msg \in Msg, ReceiveResponse(msg)
  PROVE  ReplyInv' /\ NoNewReply
  <1>1. /\ stack = <<>> /\ state = "up" /\ state' = "up" /\ request_id' = request_id
        /\ RespondWalk(<<>>, outgoing, pending, Len(pending), msg, FALSE, FALSE, exchange)
        BY DEF ReceiveResponse, Idle
  <1>2. Coherent(pending, <<>>) /\ Len(pending) \in Nat
        BY <1>1, ReplyTypes DEF ReplyInv
  <1>3. /\ Coherent(pending', stack') /\ Len(pending') = Len(pending)
        /\ stack' = <<>> \/ (Len(stack') = 1 /\ stack'[1].handler = "respond")
        /\ \A j \in 1..Len(pending) : pending'[j].id = pending[j].id
                                   /\ pending'[j].observing = pending[j].observing
        BY <1>1, <1>2, WalkReplies
  <1>4. pending' \in Seq(Reply) /\ pending \in Seq(Reply)
        BY <1>3, ReplyTypes DEF Coherent
  <1>5. /\ Cardinality(Observing(pending')) <= Cardinality(Observing(pending))
        /\ Cardinality(Observing(pending')) \in Nat
        BY <1>3, <1>4, ObservingFewer, ObservingFinite
  <1>6. request_id' + Cardinality(Observing(pending')) <= MaxId /\ request_id' \in Nat
        BY <1>1, <1>5, ReplyTypes
  <1>7. \A j \in 1..Len(pending') : pending'[j].id <= request_id'
        BY <1>1, <1>3 DEF ReplyInv
  <1>8. NoNewReply
        BY <1>3 DEF NoNewReply
  <1>9. QED
        BY <1>1, <1>3, <1>6, <1>7, <1>8, ShallowStack

\* The innermost callback returns to its handler.
LEMMA TopReturns ==
  ASSUME ReplyInv, stack # <<>>
  PROVE  LET f == Top
             k == IndexOf(pending, f.id)
             p == Returned(pending, k, f.was_used)
         IN  /\ Coherent(p, Popped)
             /\ k \in 1..Len(pending) /\ pending[k].id = f.id /\ f \in FrameType
             /\ Walking(f) => k = f.k
             /\ Len(p) = Len(pending)
             /\ \A j \in 1..Len(pending) :
                  /\ p[j].id = pending[j].id /\ p[j].observing = pending[j].observing
                  /\ p[j].delete_me = pending[j].delete_me
  BY ReturnCoherent DEF ReplyInv, Top, Popped

\* What a bottom handler does to the reply of its callback.
LEMMA BottomReturns ==
  ASSUME ReplyInv, stack # <<>>, Top.handler # "unobserve"
  PROVE  LET f == Top
             k == IndexOf(pending, f.id)
             p == Returned(pending, k, f.was_used)
             q == SOL_REENTRANT_FREE(p, k)
         IN  /\ Coherent(p, <<>>) /\ Coherent(q, <<>>)
             /\ Len(q) = Len(pending) - 1 /\ ~p[k].in_use
             /\ \A j \in 1..Len(q) : /\ q[j].id # f.id
                                     /\ \E l \in 1..Len(pending) : l # k /\ q[j] = p[l]
  <1> DEFINE f == Top
             k == IndexOf(pending, f.id)
             p == Returned(pending, k, f.was_used)
             q == SOL_REENTRANT_FREE(p, k)
  <1>1. Popped = <<>>
        BY OnlyFrame
  <1>2. /\ Coherent(p, <<>>) /\ k \in 1..Len(p) /\ p[k].id = f.id /\ Len(p) = Len(pending)
    <2>1. /\ Coherent(p, Popped) /\ k \in 1..Len(pending) /\ pending[k].id = f.id
          /\ Len(p) = Len(pending)
          /\ \A j \in 1..Len(pending) : p[j].id = pending[j].id
          BY TopReturns
    <2> HIDE DEF f, k, p
    <2>2. QED
          BY <1>1, <2>1
  <1> HIDE DEF f, k, p, q
  <1>3. ~p[k].in_use
    <2>1. ~InUse(<<>>, p[k].id)
          BY DEF InUse
    <2>2. QED
          BY <1>2, <2>1 DEF Coherent
  <1>4. q = SOL_REENTRANT_FREE(p, k)
        BY DEF q
  <1>5. /\ Coherent(q, <<>>)
        /\ \A j \in 1..Len(q) : \E l \in 1..Len(p) : /\ l # k => q[j] = p[l]
                                                     /\ l = k => p[k].in_use
        /\ Len(q) = Len(p) - 1 /\ \A j \in 1..Len(q) : q[j].id # p[k].id
    <2> DEFINE none == <<>>
    <2>1. NoOtherWalk(none, p[k].id) /\ Coherent(p, none) /\ k \in 1..Len(p)
          BY <1>2 DEF NoOtherWalk
    <2> HIDE DEF none
    <2>2. Coherent(SOL_REENTRANT_FREE(p, k), none) /\ Freed(p, k, SOL_REENTRANT_FREE(p, k))
          BY <2>1, FreeCoherent
    <2>3. Coherent(q, none) /\ Freed(p, k, q)
          BY <1>4, <2>2
    <2>4. QED
          BY <1>3, <2>3 DEF none, Freed
  <1>6. \A j \in 1..Len(q) : \E l \in 1..Len(pending) : l # k /\ q[j] = p[l]
        BY <1>2, <1>3, <1>5
  <1>7. QED
        BY <1>2, <1>3, <1>5, <1>6 DEF f, k, p, q

\* The callback of respond_packet() returns, and the walk goes on.
LEMMA AfterRespond ==
  ASSUME ReplyInv, NEW ret \in BOOLEAN, RespondReturns(ret)
  PROVE  ReplyInv' /\ NoNewReply /\ ReplyStays(ret)
  <1> DEFINE f == Top
             k == IndexOf(pending, f.id)
             p == Returned(pending, k, f.was_used)
             ends == ~ret /\ p[k].observing
             p1 == CASE ~ret -> SOL_REENTRANT_FREE(p, k)
                     [] ret /\ ~p[k].observing -> p
                     [] ret /\ p[k].observing -> [p EXCEPT ![k].timer = FALSE]
             keep == f.keep \/ (ret /\ ~p[k].observing)
  <1>1. /\ stack # <<>> /\ f.handler = "respond"
        /\ request_id' = IF ends THEN request_id + 1 ELSE request_id
        /\ state' = state
        /\ ret /\ p[k].delete_me => "true after cancel" \in Careless
        /\ \E q, x : RespondWalk(<<>>, q, p1, f.k - 1, f.msg, keep, TRUE, x)
    <2>1. /\ stack # <<>> /\ f.handler = "respond"
          /\ request_id' = IF ends THEN request_id + 1 ELSE request_id
          /\ state' = state
          /\ ret /\ p[k].delete_me => "true after cancel" \in Careless
          /\ \E q, x : RespondWalk(Popped, q, p1, f.k - 1, f.msg, keep, TRUE, x)
          BY DEF RespondReturns
    <2> HIDE DEF ends, p1, keep, p, k
    <2>2. Popped = <<>>
          BY <2>1, OnlyFrame
    <2>3. QED
          BY <2>1, <2>2
  <1>2. /\ Coherent(p, <<>>) /\ k \in 1..Len(pending) /\ pending[k].id = f.id /\ f \in FrameType
        /\ k = f.k /\ Len(p) = Len(pending)
        /\ \A j \in 1..Len(pending) :
             /\ p[j].id = pending[j].id /\ p[j].observing = pending[j].observing
             /\ p[j].delete_me = pending[j].delete_me
    <2>1. Popped = <<>> /\ Walking(f)
          BY <1>1, OnlyFrame DEF Walking
    <2>2. QED
          BY <1>1, <2>1, TopReturns
  <1>3. /\ Coherent(SOL_REENTRANT_FREE(p, k), <<>>)
        /\ \A j \in 1..Len(SOL_REENTRANT_FREE(p, k)) :
             /\ SOL_REENTRANT_FREE(p, k)[j].id # f.id
             /\ \E l \in 1..Len(pending) : SOL_REENTRANT_FREE(p, k)[j] = p[l]
    <2>1. Top.handler # "unobserve"
          BY <1>1
    <2>2. QED
          BY <1>1, <2>1, BottomReturns
  <1> HIDE DEF f, k, p
  <1>4. /\ Coherent([p EXCEPT ![k].timer = FALSE], <<>>) /\ Len([p EXCEPT ![k].timer = FALSE]) = Len(p)
        /\ \A j \in 1..Len(p) : /\ [p EXCEPT ![k].timer = FALSE][j].id = p[j].id
                                /\ [p EXCEPT ![k].timer = FALSE][j].observing = p[j].observing
        BY <1>2, TimerOffCoherent
  <1>5. /\ Coherent(p1, <<>>)
        /\ \A j \in 1..Len(p1) : \E l \in 1..Len(pending) :
             p1[j].id = pending[l].id /\ p1[j].observing = pending[l].observing
        /\ ~ret => \A j \in 1..Len(p1) : p1[j].id # f.id
    <2>1. CASE ~ret
      <3>1. p1 = SOL_REENTRANT_FREE(p, k)
            BY <2>1
      <3> HIDE DEF p1
      <3>2. /\ Coherent(p1, <<>>)
            /\ \A j \in 1..Len(p1) : p1[j].id # f.id /\ \E l \in 1..Len(pending) : p1[j] = p[l]
            BY <1>3, <3>1
      <3>3. ASSUME NEW j \in 1..Len(p1)
            PROVE  \E l \in 1..Len(pending) :
                     p1[j].id = pending[l].id /\ p1[j].observing = pending[l].observing
        <4>1. PICK l \in 1..Len(pending) : p1[j] = p[l]
              BY <3>2, <3>3
        <4>2. QED
              BY <1>2, <4>1
      <3>4. QED
            BY <3>2, <3>3
    <2>2. CASE ret /\ ~p[k].observing
      <3>1. p1 = p
            BY <2>2
      <3> HIDE DEF p1
      <3>2. QED
            BY <1>2, <2>2, <3>1
    <2>3. CASE ret /\ p[k].observing
      <3>1. p1 = [p EXCEPT ![k].timer = FALSE]
            BY <2>3
      <3> HIDE DEF p1
      <3>2. QED
            BY <1>2, <1>4, <2>3, <3>1
    <2>4. QED
          BY <2>1, <2>2, <2>3
  <1>6. f.k - 1 \in Nat /\ f.msg \in Msg /\ keep \in BOOLEAN
    <2>1. f.k - 1 \in Nat
          BY <1>2, ReplyTypes
    <2>2. f.msg \in Msg
          BY <1>2 DEF FrameType
    <2>3. QED
          BY <2>1, <2>2
  <1> HIDE DEF p1, keep
  <1>7. /\ Coherent(pending', stack') /\ Len(pending') = Len(p1)
        /\ stack' = <<>> \/ (Len(stack') = 1 /\ stack'[1].handler = "respond")
        /\ \A j \in 1..Len(p1) : pending'[j].id = p1[j].id /\ pending'[j].observing = p1[j].observing
        BY <1>1, <1>5, <1>6, WalkReplies
  <1>8. /\ \A j \in 1..Len(pending') : \E l \in 1..Len(pending) :
             pending'[j].id = pending[l].id /\ pending'[j].observing = pending[l].observing
        /\ ~ret => \A j \in 1..Len(pending') : pending'[j].id # f.id
        BY <1>5, <1>7
  <1>9. pending' \in Seq(Reply) /\ pending \in Seq(Reply)
        BY <1>7, ReplyTypes DEF Coherent
  <1>10. /\ Cardinality(Observing(pending')) \in Nat
         /\ Cardinality(Observing(pending')) <= Cardinality(Observing(pending))
         /\ ends => Cardinality(Observing(pending')) + 1 <= Cardinality(Observing(pending))
    <2>1. ends => pending[k].observing /\ \A j \in 1..Len(pending') : pending'[j].id # pending[k].id
          BY <1>2, <1>8
    <2> HIDE DEF ends
    <2>2. QED
          BY <1>2, <1>8, <1>9, <2>1, ObservingFewer, ObservingFinite
  <1>11. request_id' + Cardinality(Observing(pending')) <= MaxId /\ request_id' \in Nat
         /\ request_id <= request_id'
    <2>0. request_id' = IF ends THEN request_id + 1 ELSE request_id
          BY <1>1
    <2> HIDE DEF ends
    <2>1. QED
          BY <1>10, <2>0, ReplyTypes
  <1>12. \A j \in 1..Len(pending') : pending'[j].id <= request_id'
    <2> SUFFICES ASSUME NEW j \in 1..Len(pending') PROVE pending'[j].id <= request_id'
        OBVIOUS
    <2>1. PICK l \in 1..Len(pending) : pending'[j].id = pending[l].id
          BY <1>8
    <2>2. pending[l].id <= request_id /\ pending[l].id \in Nat /\ request_id \in Nat
          BY ReplyTypes DEF ReplyInv, Ids
    <2>3. QED
          BY <1>11, <2>1, <2>2
  <1>13. state = "up"
    <2>1. stack[1].handler = "respond"
          BY <1>1, OnlyFrame DEF f
    <2>2. QED
          BY <1>1, <2>1 DEF ReplyInv, StackInv
  <1>14. NoNewReply
        BY <1>8 DEF NoNewReply
  <1>15. ReplyStays(ret)
    <2>1. p[k].delete_me = pending[k].delete_me
          BY <1>2
    <2>2. ret /\ pending[k].delete_me => "true after cancel" \in Careless
          BY <1>1, <2>1
    <2>3. QED
          BY <1>8, <2>2 DEF ReplyStays, f, k
  <1>16. QED
         BY <1>1, <1>7, <1>11, <1>12, <1>13, <1>14, <1>15, ShallowStack

\* The callback of pending_timeout_cb() returns.
LEMMA AfterTimeout ==
  ASSUME ReplyInv, NEW ret \in BOOLEAN, TimeoutReturns(ret)
  PROVE  ReplyInv' /\ NoNewReply /\ ReplyStays(ret)
  <1> DEFINE f == Top
             k == IndexOf(pending, f.id)
             p == Returned(pending, k, f.was_used)
  <1>1. /\ stack # <<>> /\ f.handler = "timeout" /\ stack' = Popped
        /\ request_id' = request_id /\ state' = state
        /\ (ret /\ ~p[k].delete_me /\ pending' = p) \/ pending' = SOL_REENTRANT_FREE(p, k)
        BY DEF TimeoutReturns
  <1>2. Popped = <<>> /\ stack[1].handler = "timeout"
        BY <1>1, OnlyFrame
  <1>3. state = "up"
        BY <1>1, <1>2 DEF ReplyInv, StackInv
  <1>4. /\ Coherent(p, <<>>) /\ Len(p) = Len(pending)
        /\ \A j \in 1..Len(pending) : /\ p[j].id = pending[j].id /\ p[j].observing = pending[j].observing
                                      /\ p[j].delete_me = pending[j].delete_me
        /\ k \in 1..Len(pending)
        BY <1>1, <1>2, TopReturns
  <1>5. /\ Coherent(SOL_REENTRANT_FREE(p, k), <<>>)
        /\ \A j \in 1..Len(SOL_REENTRANT_FREE(p, k)) :
             /\ SOL_REENTRANT_FREE(p, k)[j].id # f.id
             /\ \E l \in 1..Len(pending) : SOL_REENTRANT_FREE(p, k)[j] = p[l]
    <2>1. Top.handler # "unobserve"
          BY <1>1
    <2>2. QED
          BY <1>1, <2>1, BottomReturns
  <1> HIDE DEF f, k, p
  <1>6. /\ Coherent(pending', stack') /\ stack' = <<>>
        /\ \A j \in 1..Len(pending') : \E l \in 1..Len(pending) :
             pending'[j].id = pending[l].id /\ pending'[j].observing = pending[l].observing
    <2>1. CASE pending' = p
          BY <1>1, <1>2, <1>4, <2>1
    <2>2. CASE pending' = SOL_REENTRANT_FREE(p, k)
      <3>1. \A j \in 1..Len(pending') : \E l \in 1..Len(pending) : pending'[j] = p[l]
            BY <1>5, <2>2
      <3>2. QED
            BY <1>1, <1>2, <1>4, <1>5, <2>2, <3>1
    <2>3. QED
          BY <1>1, <2>1, <2>2
  <1>7. pending' \in Seq(Reply) /\ pending \in Seq(Reply)
        BY <1>6, ReplyTypes DEF Coherent
  <1>8. /\ Cardinality(Observing(pending')) \in Nat
        /\ Cardinality(Observing(pending')) <= Cardinality(Observing(pending))
        BY <1>6, <1>7, ObservingFewer, ObservingFinite
  <1>9. request_id' + Cardinality(Observing(pending')) <= MaxId /\ request_id' \in Nat
        BY <1>1, <1>8, ReplyTypes
  <1>10. \A j \in 1..Len(pending') : pending'[j].id <= request_id'
        BY <1>1, <1>6 DEF ReplyInv
  <1>11. NoNewReply
        BY <1>6 DEF NoNewReply
  <1>12. ReplyStays(ret)
    <2>1. \/ ret /\ ~pending[k].delete_me
          \/ \A j \in 1..Len(pending') : pending'[j].id # f.id
          BY <1>1, <1>4, <1>5
    <2>2. QED
          BY <2>1 DEF ReplyStays, f, k
  <1>13. QED
         BY <1>1, <1>3, <1>6, <1>9, <1>10, <1>11, <1>12, ShallowStack

\* A walk below the innermost callback stands at the same reply.
LEMMA PoppedWalks ==
  ASSUME ReplyInv, stack # <<>>
  PROVE  \A l \in 1..Len(Popped) : Walking(Popped[l]) => Popped[l].id = Top.id
  <1>1. /\ Len(stack) \in Nat \ {0}
        /\ \A l \in 1..Len(Popped) : Popped[l] = stack[l] /\ l \in 1..Len(stack)
        BY ReplyTypes, PoppedFrames DEF Popped
  <1>2. Len(stack) \in 1..Len(stack)
        BY <1>1
  <1>3. QED
        BY <1>1, <1>2 DEF ReplyInv, StackInv, Top

\* The callback of sol_coap_unobserve_by_token() returns.
LEMMA AfterUnobserve ==
  ASSUME ReplyInv, UnobserveReturns
  PROVE  ReplyInv' /\ NoNewReply
  <1> DEFINE f == Top
             k == IndexOf(pending, f.id)
             p == Returned(pending, k, f.was_used)
             d == SOL_REENTRANT_FREE(p, k)
  <1>1. /\ stack # <<>> /\ f.handler = "unobserve" /\ stack' = Popped
        /\ request_id' = request_id + 1 /\ state' = state /\ pending' = d
        BY DEF UnobserveReturns
  <1>2. /\ Coherent(p, Popped) /\ k \in 1..Len(pending) /\ pending[k].id = f.id /\ f \in FrameType
        /\ Len(p) = Len(pending)
        /\ \A j \in 1..Len(pending) : p[j].id = pending[j].id /\ p[j].observing = pending[j].observing
        BY <1>1, TopReturns
  <1>3. /\ Popped \in Seq(FrameType) /\ Len(Popped) = Len(stack) - 1 /\ Len(stack) \in Nat \ {0}
        /\ \A l \in 1..Len(Popped) : Popped[l] = stack[l] /\ l \in 1..Len(stack)
        BY <1>1, ReplyTypes, PoppedFrames DEF Popped
  <1>4. state = "up"
    <2>1. stack[Len(stack)].handler = "unobserve"
          BY <1>1 DEF Top
    <2>2. QED
          BY <1>1, <2>1 DEF ReplyInv, StackInv
  <1>5. \A l \in 1..Len(Popped) : Walking(Popped[l]) => Popped[l].id = f.id
        BY <1>1, PoppedWalks
  <1> HIDE DEF f, k, p
  <1>6. /\ Coherent(d, Popped)
        /\ \A j \in 1..Len(d) : \E l \in 1..Len(p) :
             d[j].id = p[l].id /\ d[j].observing = p[l].observing
    <2>1. k \in 1..Len(p) /\ p[k].id = f.id
          BY <1>2
    <2>2. Coherent(p, Popped) /\ NoOtherWalk(Popped, p[k].id)
          BY <1>2, <1>5, <2>1 DEF NoOtherWalk
    <2>3. Coherent(d, Popped) /\ Freed(p, k, d)
          BY <2>1, <2>2, FreeCoherent
    <2> HIDE DEF d
    <2>4. QED
          BY <2>3 DEF Freed
  <1> HIDE DEF d
  <1>7. /\ Coherent(pending', stack')
        /\ \A j \in 1..Len(pending') : \E l \in 1..Len(pending) :
             pending'[j].id = pending[l].id /\ pending'[j].observing = pending[l].observing
        BY <1>1, <1>2, <1>6
  <1>8. pending' \in Seq(Reply) /\ pending \in Seq(Reply)
        BY <1>7, ReplyTypes DEF Coherent
  <1>9. /\ Cardinality(Observing(pending')) \in Nat
        /\ Cardinality(Observing(pending')) <= Cardinality(Observing(pending))
        BY <1>7, <1>8, ObservingFewer, ObservingFinite
  <1>10. /\ Cardinality(Unobserving(stack)) = Cardinality(Unobserving(stack')) + 1
         /\ Cardinality(Unobserving(stack')) \in Nat
        BY <1>1, <1>3, ReplyTypes, UnobservingFinite DEF Popped, Top, f
  <1>11. CountInv' /\ request_id' \in 0..MaxId
    <2>1. request_id + Cardinality(Observing(pending)) + Cardinality(Unobserving(stack)) <= MaxId
          BY DEF ReplyInv, CountInv
    <2> DEFINE a == Cardinality(Observing(pending))
               b == Cardinality(Observing(pending'))
               c == Cardinality(Unobserving(stack'))
    <2>2. a \in Nat /\ b \in Nat /\ c \in Nat /\ b <= a /\ request_id \in Nat /\ MaxId \in Nat
          BY <1>9, <1>10, ReplyTypes
    <2>3. request_id + a + (c + 1) <= MaxId
          BY <1>10, <2>1
    <2> HIDE DEF a, b, c
    <2>4. request_id + 1 + b + c <= MaxId /\ request_id + 1 \in 0..MaxId
          BY <2>2, <2>3
    <2>5. QED
          BY <1>1, <2>4 DEF CountInv, b, c
  <1>12. StackInv'
    <2>1. /\ \A l \in 2..Len(Popped) : l \in 2..Len(stack) /\ Popped[l] = stack[l]
          BY <1>3
    <2>2. QED
          BY <1>1, <1>3, <1>4, <2>1 DEF ReplyInv, StackInv
  <1>13. \A j \in 1..Len(pending') : pending'[j].id <= request_id'
    <2> SUFFICES ASSUME NEW j \in 1..Len(pending') PROVE pending'[j].id <= request_id'
        OBVIOUS
    <2>1. PICK l \in 1..Len(pending) : pending'[j].id = pending[l].id
          BY <1>7
    <2>2. pending[l].id <= request_id /\ pending[l].id \in Nat /\ request_id \in Nat
          BY ReplyTypes DEF ReplyInv, Ids
    <2>3. QED
          BY <1>1, <2>1, <2>2
  <1>14. NoNewReply
         BY <1>7 DEF NoNewReply
  <1>15. QED
         BY <1>1, <1>4, <1>7, <1>11, <1>12, <1>13, <1>14 DEF ReplyInv

\* sol_coap_server_destroy() tells the last reply, or is through.
LEMMA DestroyGoesOn ==
  ASSUME NEW p, Coherent(p, <<>>), DestroyWalk(p, Len(p)), outgoing' = <<>>,
         request_id' \in Nat,
         \A j \in 1..Len(p) : p[j].id <= request_id',
         request_id' + Cardinality(Observing(p)) <= MaxId
  PROVE  /\ ReplyInv' /\ Len(pending') = Len(p)
         /\ \A j \in 1..Len(p) : pending'[j].id = p[j].id
  <1>1. p \in Seq(Reply) /\ Len(p) \in Nat /\ DOMAIN p = 1..Len(p) /\ MaxId \in Nat
        BY LenProperties, CoapAssumption DEF Coherent
  <1>2. CASE Len(p) = 0
    <2>1. p = <<>> /\ pending' = p /\ stack' = <<>> /\ state' = "gone"
          BY <1>1, <1>2, EmptySeq DEF DestroyWalk
    <2>2. StackInv'
          BY <2>1 DEF StackInv
    <2>3. stack' \in Seq(FrameType)
          BY <2>1
    <2>4. Cardinality(Unobserving(stack')) = 0
      <3>1. \A l \in 1..Len(stack') : stack'[l].handler # "unobserve"
            BY <2>1
      <3>2. QED
            BY <2>3, <3>1, UnobservingFinite
    <2>5. Cardinality(Observing(pending')) \in Nat /\ pending' = p
          BY <1>1, <2>1, ObservingFinite
    <2>6. CountInv' /\ request_id' \in 0..MaxId
          BY <1>1, <2>4, <2>5 DEF CountInv
    <2>7. Coherent(pending', stack')
          BY <2>1
    <2>8. QED
          BY <2>1, <2>2, <2>5, <2>6, <2>7 DEF ReplyInv
  <1>3. CASE Len(p) # 0
    <2> DEFINE k == Len(p)
               f == Frame("destroy", p[k], k, NoMsg, FALSE)
    <2>1. k \in 1..Len(p)
          BY <1>1, <1>3
    <2>2. pending' = Called(p, k) /\ stack' = Append(<<>>, f) /\ state' = "closing"
          BY <1>1, <2>1 DEF DestroyWalk, Calls
    <2>3. NoMsg \in Msg
          BY DEF NoMsg, Msg, NoToken, NoObserve
    <2>4. f.handler = "destroy" /\ f.k = k
          BY DEF Frame
    <2> HIDE DEF k
    <2>5. /\ Coherent(pending', stack') /\ Len(pending') = Len(p)
          /\ \A j \in 1..Len(p) : pending'[j].id = p[j].id /\ pending'[j].observing = p[j].observing
          BY <2>1, <2>2, <2>3, CallCoherent DEF Handlers
    <2> HIDE DEF f
    <2>6. Append(<<>>, f) = <<f>>
          OBVIOUS
    <2>7. Len(stack') = 1 /\ stack'[1] = f
          BY <2>2, <2>6
    <2>8. \A l \in 1..Len(stack') : l = 1
          BY <2>7
    <2>9. \A l \in 2..Len(stack') : FALSE
          BY <2>7
    <2>10. StackInv'
      <3>1. Len(pending') = k
            BY <2>5 DEF k
      <3>2. QED
            BY <2>2, <2>4, <2>7, <2>8, <2>9, <3>1 DEF StackInv
    <2>11. pending' \in Seq(Reply) /\ stack' \in Seq(FrameType)
          BY <2>5 DEF Coherent
    <2>12. /\ Cardinality(Observing(pending')) <= Cardinality(Observing(p))
           /\ Cardinality(Observing(pending')) \in Nat /\ Cardinality(Observing(p)) \in Nat
          BY <1>1, <2>5, <2>11, ObservingFewer, ObservingFinite
    <2>13. Cardinality(Unobserving(stack')) = 0
          BY <2>4, <2>7, <2>8, <2>11, UnobservingFinite
    <2>14. CountInv' /\ request_id' \in 0..MaxId
          BY <1>1, <2>12, <2>13 DEF CountInv
    <2>15. \A j \in 1..Len(pending') : pending'[j].id <= request_id'
          BY <2>5
    <2>16. ReplyInv'
          BY <2>2, <2>5, <2>10, <2>14, <2>15 DEF ReplyInv
    <2>17. QED
          BY <2>5, <2>16
  <1>4. QED
        BY <1>2, <1>3

\* sol_coap_server_destroy() begins.
LEMMA DestroyBegins ==
  ASSUME ReplyInv, sol_coap_server_destroy
  PROVE  ReplyInv' /\ NoNewReply
  <1>1. /\ stack = <<>> /\ outgoing' = <<>> /\ DestroyWalk(pending, Len(pending))
        /\ request_id' = request_id
        BY DEF sol_coap_server_destroy, Idle
  <1>2. Coherent(pending, <<>>) /\ \A j \in 1..Len(pending) : pending[j].id <= request_id
        BY <1>1 DEF ReplyInv
  <1>3. request_id \in Nat /\ request_id + Cardinality(Observing(pending)) <= MaxId
        BY ReplyTypes
  <1>4. QED
        BY <1>1, <1>2, <1>3, DestroyGoesOn DEF NoNewReply

\* A callback of sol_coap_server_destroy() returns.
LEMMA AfterDestroy ==
  ASSUME ReplyInv, DestroyReturns
  PROVE  ReplyInv' /\ NoNewReply /\ ReplyStays(FALSE)
  <1> DEFINE f == Top
             k == IndexOf(pending, f.id)
             p == Returned(pending, k, f.was_used)
             d == SOL_REENTRANT_FREE(p, k)
  <1>1. /\ stack # <<>> /\ f.handler = "destroy" /\ DestroyWalk(d, f.k - 1)
        /\ request_id' = request_id /\ outgoing' = outgoing
        BY DEF DestroyReturns
  <1>2. Len(stack) = 1 /\ f = stack[1]
        BY <1>1, OnlyFrame
  <1>3. outgoing = <<>> /\ f.k = Len(pending)
    <2>1. 1 \in 1..Len(stack) /\ stack # <<>>
          BY <1>1, <1>2
    <2>2. state = "closing"
          BY <1>1, <1>2, <2>1 DEF ReplyInv, StackInv
    <2>3. QED
          BY <1>2, <2>2 DEF ReplyInv, StackInv
  <1>4. /\ Coherent(d, <<>>) /\ Len(d) = Len(pending) - 1
        /\ \A j \in 1..Len(d) : d[j].id # f.id /\ \E l \in 1..Len(pending) : l # k /\ d[j] = p[l]
    <2>1. Top.handler # "unobserve"
          BY <1>1
    <2>2. QED
          BY <1>1, <2>1, BottomReturns
  <1>5. \A j \in 1..Len(pending) : p[j].id = pending[j].id /\ p[j].observing = pending[j].observing
        BY <1>1, TopReturns
  <1> HIDE DEF f, k, p, d
  <1>6. \A j \in 1..Len(d) : \E l \in 1..Len(pending) :
          d[j].id = pending[l].id /\ d[j].observing = pending[l].observing
        BY <1>4, <1>5
  <1>7. d \in Seq(Reply) /\ pending \in Seq(Reply)
        BY <1>4, ReplyTypes DEF Coherent
  <1>8. /\ Cardinality(Observing(d)) \in Nat
        /\ Cardinality(Observing(d)) <= Cardinality(Observing(pending))
        BY <1>6, <1>7, ObservingFewer, ObservingFinite
  <1>9. request_id' + Cardinality(Observing(d)) <= MaxId /\ request_id' \in Nat
        BY <1>1, <1>8, ReplyTypes
  <1>10. \A j \in 1..Len(d) : d[j].id <= request_id'
        BY <1>1, <1>6 DEF ReplyInv
  <1>11. DestroyWalk(d, Len(d)) /\ outgoing' = <<>>
        BY <1>1, <1>3, <1>4
  <1>12. /\ ReplyInv' /\ Len(pending') = Len(d)
         /\ \A j \in 1..Len(d) : pending'[j].id = d[j].id
         BY <1>4, <1>9, <1>10, <1>11, DestroyGoesOn
  <1>13. NoNewReply
         BY <1>6, <1>12 DEF NoNewReply
  <1>14. ReplyStays(FALSE)
         BY <1>4, <1>12 DEF ReplyStays, f
  <1>15. QED
         BY <1>12, <1>13, <1>14

\* A call of the API leaves the frames as they are, but for the count.
LEMMA CountedStack ==
  ASSUME ReplyInv, stack' = Counted(stack), state' = state, state = "up",
         pending' \in Seq(Reply)
  PROVE  /\ StackInv' /\ stack' \in Seq(FrameType) /\ Len(stack') = Len(stack)
         /\ Unobserving(stack') = Unobserving(stack)
  <1>1. stack \in Seq(FrameType)
        BY ReplyTypes
  <1>2. /\ stack' \in Seq(FrameType) /\ Len(stack') = Len(stack)
        /\ DOMAIN stack' = DOMAIN stack
        /\ \A l \in 1..Len(stack) : stack'[l].handler = stack[l].handler /\ stack'[l].id = stack[l].id
        BY <1>1, CountedFrames
  <1>3. Len(stack) \in Nat /\ DOMAIN stack = 1..Len(stack)
        BY ReplyTypes
  <1>4. StackInv'
    <2>1. \A l \in 2..Len(stack) : l \in 1..Len(stack)
          BY <1>3
    <2>2. QED
          BY <1>2, <2>1, SMTT(30) DEF ReplyInv, StackInv, Walking
  <1>5. Unobserving(stack') = Unobserving(stack)
        BY <1>2, <1>3 DEF Unobserving
  <1>6. QED
        BY <1>2, <1>4, <1>5

\* An endpoint whose callbacks keep the rules is up when the API is called.
LEMMA CalledUp ==
  ASSUME CallbacksKeepRules, CanCall
  PROVE  state = "up"
  BY DEF CallbacksKeepRules, CanCall, Idle

\* The id of the next request.
LEMMA NextId ==
  ASSUME ReplyInv, request_id + 1 <= MaxRequests
  PROVE  request_id + 1 \in Ids
  <1>1. request_id \in Nat /\ MaxId \in Nat /\ MaxRequests \in 0..MaxId
        BY ReplyTypes, CoapAssumption
  <1>2. QED
        BY <1>1 DEF Ids

\* sol_coap_send_packet_with_reply()
LEMMA RequestSent ==
  ASSUME ReplyInv, CallbacksKeepRules, NEW kind \in Kinds, NEW stored \in BOOLEAN,
         sol_coap_send_packet_with_reply(kind, stored)
  PROVE  /\ ReplyInv' /\ InCallback' = InCallback
         /\ \A j \in 1..Len(pending') :
              \/ pending'[j] = NewReply(request_id + 1, RequestOf(kind, request_id + 1))
              \/ j \in 1..Len(pending) /\ pending'[j] = pending[j]
  <1> DEFINE id == request_id + 1
             pkt == RequestOf(kind, id)
             r == NewReply(id, pkt)
  <1>1. /\ CanCall /\ id <= MaxRequests /\ request_id' = id /\ stack' = Counted(stack)
        /\ state' = state /\ IdsLeft
        /\ pending' = Append(pending, r) \/ pending' = pending
        BY DEF sol_coap_send_packet_with_reply
  <1>2. state = "up"
        BY <1>1, CalledUp
  <1>3. request_id \in Nat /\ id \in Ids /\ request_id' \in 0..MaxId
    <2>1. request_id \in Nat /\ MaxId \in Nat /\ MaxRequests \in 0..MaxId
          BY ReplyTypes, CoapAssumption
    <2>2. QED
          BY <1>1, <2>1 DEF Ids
  <1>4. pkt.token \in Ids \cup {NoToken}
    <2>1. kind \in {"con", "non", "obs", "ping"}
          BY CoapAssumption
    <2> HIDE DEF id
    <2>2. QED
          BY <1>3, <2>1 DEF RequestOf, sol_coap_packet_new_request
  <1> HIDE DEF pkt
  <1>5. r \in Reply /\ r.id = id /\ ~r.in_use
    <2> HIDE DEF id
    <2>1. QED
          BY <1>3, <1>4 DEF NewReply, Reply
  <1> HIDE DEF r
  <1>6. \A j \in 1..Len(pending) : pending[j].id # id /\ pending[j].id <= id
    <2> SUFFICES ASSUME NEW j \in 1..Len(pending) PROVE pending[j].id # id /\ pending[j].id <= id
        OBVIOUS
    <2>1. pending[j].id \in Nat /\ pending[j].id <= request_id
          BY ReplyTypes DEF ReplyInv, Ids
    <2>2. QED
          BY <1>3, <2>1
  <1>7. /\ Coherent(pending', stack)
        /\ \A j \in 1..Len(pending') : pending'[j] = r \/ (j \in 1..Len(pending) /\ pending'[j] = pending[j])
    <2>1. CASE pending' = pending
          BY <2>1 DEF ReplyInv
    <2>2. CASE pending' = Append(pending, r)
      <3>1. Coherent(pending, stack) /\ \A j \in 1..Len(pending) : pending[j].id # r.id
            BY <1>5, <1>6 DEF ReplyInv
      <3>2. QED
            BY <1>5, <2>2, <3>1, AddCoherent
    <2>3. QED
          BY <1>1, <2>1, <2>2
  <1>8. Coherent(pending', stack') /\ pending' \in Seq(Reply)
    <2>1. Coherent(pending', Counted(stack))
          BY <1>7, CountedCoherent
    <2>2. QED
          BY <1>1, <2>1 DEF Coherent
  <1>9. StackInv'
        BY <1>1, <1>2, <1>8, CountedStack
  <1>10. \A j \in 1..Len(pending') : pending'[j].id <= request_id'
    <2>1. id <= id
          BY <1>3
    <2>2. QED
          BY <1>1, <1>5, <1>6, <1>7, <2>1
  <1>11. CountInv'
        BY <1>1 DEF IdsLeft, CountInv
  <1>12. state' \in {"up", "closing", "gone"}
        BY <1>1 DEF ReplyInv
  <1>13. ReplyInv'
         BY <1>3, <1>8, <1>9, <1>10, <1>11, <1>12 DEF ReplyInv
  <1>14. InCallback' = InCallback
    <2>1. /\ DOMAIN Counted(stack) = 1..Len(stack) /\ DOMAIN stack = 1..Len(stack)
          /\ \A l \in 1..Len(stack) : Counted(stack)[l].id = stack[l].id
          BY ReplyTypes, CountedFrames
    <2>2. QED
          BY <1>1, <2>1 DEF InCallback
  <1>15. QED
         BY <1>7, <1>13, <1>14 DEF r, pkt

\* sol_coap_cancel_send_packet()
LEMMA RequestCancelled ==
  ASSUME ReplyInv, CallbacksKeepRules, NEW id \in Ids, sol_coap_cancel_send_packet(id)
  PROVE  ReplyInv' /\ NoNewReply
  <1> DEFINE k == IndexOf(pending, id)
             d == SOL_REENTRANT_FREE(pending, k)
  <1>1. /\ CanCall /\ WalkAllows(id) /\ stack' = Counted(stack) /\ state' = state /\ IdsLeft
        /\ request_id' = request_id + 1 \/ request_id' = request_id
        /\ pending' = pending \/ (IsPending(pending, id) /\ pending' = d)
        BY DEF sol_coap_cancel_send_packet, Waits
  <1>2. state = "up"
        BY <1>1, CalledUp
  <1>3. /\ Coherent(pending', stack)
        /\ \A j \in 1..Len(pending') : \E l \in 1..Len(pending) : pending'[j].id = pending[l].id
    <2>1. CASE pending' = pending
          BY <2>1 DEF ReplyInv
    <2>2. CASE IsPending(pending, id) /\ pending' = d
      <3>1. k \in 1..Len(pending) /\ pending[k].id = id
            BY <2>2, ReplyTypes, FoundById
      <3>2. NoOtherWalk(stack, pending[k].id)
            BY <1>1, <3>1, ReplyTypes DEF WalkAllows, Walking, CallbacksKeepRules, NoOtherWalk
      <3> HIDE DEF k
      <3>3. /\ Coherent(d, stack)
            /\ \A j \in 1..Len(d) : \E l \in 1..Len(pending) : d[j].id = pending[l].id
        <4>1. Coherent(pending, stack)
              BY DEF ReplyInv
        <4>2. Coherent(d, stack) /\ Freed(pending, k, d)
              BY <3>1, <3>2, <4>1, FreeCoherent
        <4> HIDE DEF d
        <4>3. QED
              BY <4>2 DEF Freed
      <3> HIDE DEF d
      <3>4. QED
            BY <2>2, <3>3
    <2>3. QED
          BY <1>1, <2>1, <2>2
  <1> HIDE DEF d, k
  <1>4. Coherent(pending', stack') /\ pending' \in Seq(Reply)
    <2>1. Coherent(pending', Counted(stack))
          BY <1>3, CountedCoherent
    <2>2. QED
          BY <1>1, <2>1 DEF Coherent
  <1>5. StackInv' /\ stack' \in Seq(FrameType)
        BY <1>1, <1>2, <1>4, CountedStack
  <1>6. CountInv'
        BY <1>1 DEF IdsLeft, CountInv
  <1>7. request_id' \in 0..MaxId /\ request_id <= request_id' /\ request_id \in Nat
    <2>1. Cardinality(Observing(pending')) \in Nat /\ Cardinality(Unobserving(stack')) \in Nat
          BY <1>4, <1>5, ObservingFinite, UnobservingFinite
    <2>2. request_id \in Nat /\ MaxId \in Nat
          BY ReplyTypes
    <2>3. QED
          BY <1>1, <1>6, <2>1, <2>2 DEF CountInv
  <1>8. \A j \in 1..Len(pending') : pending'[j].id <= request_id'
    <2> SUFFICES ASSUME NEW j \in 1..Len(pending') PROVE pending'[j].id <= request_id'
        OBVIOUS
    <2>1. PICK l \in 1..Len(pending) : pending'[j].id = pending[l].id
          BY <1>3
    <2>2. pending[l].id <= request_id /\ pending[l].id \in Nat
          BY ReplyTypes DEF ReplyInv, Ids
    <2>3. QED
          BY <1>7, <2>1, <2>2
  <1>9. state' \in {"up", "closing", "gone"}
        BY <1>1 DEF ReplyInv
  <1>10. QED
         BY <1>3, <1>4, <1>5, <1>6, <1>7, <1>8, <1>9 DEF ReplyInv, NoNewReply

\* sol_coap_unobserve_by_token() calls back.
LEMMA UnobserveCalls ==
  ASSUME ReplyInv, CallbacksKeepRules, NEW id \in Ids, sol_coap_unobserve_by_token(id)
  PROVE  ReplyInv' /\ NoNewReply
  <1> DEFINE k == IndexOf(pending, id)
             fs == Counted(stack)
             f == Frame("unobserve", pending[k], k, NoMsg, FALSE)
             gs == Append(fs, f)
  <1>1. /\ CanCall /\ WalkAllows(id) /\ IsPending(pending, id)
        /\ pending' = Called(pending, k) /\ stack' = gs
        /\ state' = state /\ request_id' = request_id /\ IdsLeft
        BY DEF sol_coap_unobserve_by_token, Calls
  <1>2. state = "up"
        BY <1>1, CalledUp
  <1>3. k \in 1..Len(pending) /\ pending[k].id = id
        BY <1>1, ReplyTypes, FoundById
  <1>4. Coherent(pending, fs)
        BY CountedCoherent DEF ReplyInv
  <1>5. NoMsg \in Msg
        BY DEF NoMsg, Msg, NoToken, NoObserve
  <1>6. f.handler = "unobserve" /\ f.id = id
        BY <1>3 DEF Frame
  <1>7. /\ fs \in Seq(FrameType) /\ Len(fs) = Len(stack) /\ Len(stack) \in Nat
        /\ \A l \in 1..Len(stack) : fs[l].handler = stack[l].handler /\ fs[l].id = stack[l].id
        BY ReplyTypes, CountedFrames
  <1> HIDE DEF fs, k
  <1>8. /\ Coherent(pending', stack') /\ Len(pending') = Len(pending)
        /\ \A j \in 1..Len(pending) : pending'[j].id = pending[j].id
        BY <1>1, <1>3, <1>4, <1>5, CallCoherent DEF Handlers
  <1>9. f \in FrameType
        BY <1>3, <1>5, ReplyTypes DEF Frame, FrameType, Handlers, Reply
  <1> HIDE DEF f
  <1>10. /\ stack' \in Seq(FrameType) /\ Len(stack') = Len(stack) + 1 /\ stack'[Len(stack) + 1] = f
         /\ \A l \in 1..Len(stack) : stack'[l].handler = stack[l].handler /\ stack'[l].id = stack[l].id
    <2>1. /\ gs \in Seq(FrameType) /\ Len(gs) = Len(fs) + 1 /\ gs[Len(fs) + 1] = f
          /\ \A l \in 1..Len(fs) : gs[l] = fs[l]
          BY <1>7, <1>9, AppendProperties
    <2> HIDE DEF gs
    <2>2. QED
          BY <1>1, <1>7, <2>1
  <1> HIDE DEF gs
  <1>11. \A l \in 1..Len(stack') : \/ l = Len(stack) + 1 /\ stack'[l].handler = "unobserve" /\ stack'[l].id = id
                                   \/ /\ l \in 1..Len(stack) /\ stack'[l].handler = stack[l].handler
                                      /\ stack'[l].id = stack[l].id
    <2>1. \A l \in 1..Len(stack') : l = Len(stack) + 1 \/ l \in 1..Len(stack)
          BY <1>7, <1>10
    <2>2. QED
          BY <1>6, <1>10, <2>1
  <1>12. \A l \in 1..Len(stack) : Walking(stack[l]) => stack[l].id = id
        BY <1>1, ReplyTypes DEF WalkAllows, Walking, CallbacksKeepRules
  <1>13. StackInv'
    <2>1. \A l \in 2..Len(stack') : stack'[l].handler = "unobserve"
      <3> SUFFICES ASSUME NEW l \in 2..Len(stack') PROVE stack'[l].handler = "unobserve"
          OBVIOUS
      <3>1. l \in 1..Len(stack') /\ (l \in 1..Len(stack) => l \in 2..Len(stack))
            BY <1>7, <1>10
      <3>2. \A m \in 2..Len(stack) : stack[m].handler = "unobserve"
            BY DEF ReplyInv, StackInv
      <3>3. QED
            BY <1>11, <3>1, <3>2
    <2>2. ASSUME NEW m \in 1..Len(stack'), NEW l \in 1..Len(stack'), Walking(stack'[m])
          PROVE  stack'[l].id = stack'[m].id
      <3>1. m \in 1..Len(stack) /\ Walking(stack[m]) /\ stack'[m].id = stack[m].id
            BY <1>11, <2>2 DEF Walking
      <3>2. stack[m].id = id /\ \A n \in 1..Len(stack) : stack[n].id = stack[m].id
            BY <1>12, <3>1 DEF ReplyInv, StackInv
      <3>3. QED
            BY <1>11, <3>1, <3>2
    <2>3. \A l \in 1..Len(stack') : stack'[l].handler # "destroy"
          BY <1>2, <1>11 DEF ReplyInv, StackInv
    <2>4. QED
          BY <1>1, <1>2, <2>1, <2>2, <2>3 DEF StackInv
  <1>14. CountInv'
        BY <1>1 DEF IdsLeft, CountInv
  <1>15. \A j \in 1..Len(pending') : pending'[j].id <= request_id'
        BY <1>1, <1>8 DEF ReplyInv
  <1>16. state' \in {"up", "closing", "gone"} /\ request_id' \in 0..MaxId
        BY <1>1 DEF ReplyInv
  <1>17. NoNewReply
         BY <1>8 DEF NoNewReply
  <1>18. QED
         BY <1>8, <1>13, <1>14, <1>15, <1>16, <1>17 DEF ReplyInv

\* A step that touches no reply, outside of all callbacks, or none at all.
LEMMA RepliesLeftAlone ==
  ASSUME ReplyInv, UNCHANGED <<state, pending, request_id, stack>>,
         state = "up" \/ outgoing' = outgoing
  PROVE  ReplyInv'
  BY DEF ReplyInv, StackInv, CountInv, Coherent

\* The endpoint starts without replies.
LEMMA ReplyInit ==
  ASSUME Init
  PROVE  ReplyInv
  <1>1. state = "up" /\ pending = <<>> /\ stack = <<>> /\ request_id = 0
        BY DEF Init
  <1>2. \A j \in 1..0 : FALSE
        OBVIOUS
  <1>3. Coherent(<<>>, <<>>)
    <2>1. <<>> \in Seq(Reply) /\ <<>> \in Seq(FrameType) /\ Len(<<>>) = 0
          OBVIOUS
    <2>2. QED
          BY <1>2, <2>1 DEF Coherent, OnePerId
  <1>4. Cardinality(Observing(<<>>)) = 0
    <2>1. DOMAIN <<>> = {}
          OBVIOUS
    <2>2. Observing(<<>>) = {}
          BY <2>1 DEF Observing
    <2>3. QED
          BY <2>2, FS_EmptySet
  <1>6. Cardinality(Unobserving(<<>>)) = 0
    <2>1. DOMAIN <<>> = {}
          OBVIOUS
    <2>2. Unobserving(<<>>) = {}
          BY <2>1 DEF Unobserving
    <2>3. QED
          BY <2>2, FS_EmptySet
  <1>7. CountInv /\ request_id \in 0..MaxId
        BY <1>1, <1>4, <1>6, CoapAssumption DEF CountInv
  <1>8. StackInv
        BY <1>1 DEF StackInv
  <1>9. \A j \in 1..Len(pending) : pending[j].id <= request_id
        BY <1>1
  <1>10. QED
         BY <1>1, <1>3, <1>7, <1>8, <1>9 DEF ReplyInv

-----------------------------------------------------------------------------
(* The queue.  Waiting is what the queue may hold while the socket is not  *)
(* monitored: packets whose retransmission timeout is set.                 *)

Waiting == {o \in Outgoing : o.timer}

QueueTypes == outgoing \in Seq(Outgoing) /\ sent \subseteq Packet

NothingStalls == monitor \in BOOLEAN /\ (monitor \/ outgoing \in Seq(Waiting))

\* A packet is queued.
LEMMA Enqueued ==
  ASSUME NEW q \in Seq(Outgoing), NEW pkt \in Packet
  PROVE  enqueue_packet(q, pkt) \in Seq(Outgoing) /\ Len(enqueue_packet(q, pkt)) = Len(q) + 1
  <1> DEFINE o == [pkt |-> pkt, timer |-> FALSE, counter |-> 0]
  <1>1. o \in Outgoing
        BY CoapAssumption DEF Outgoing
  <1> HIDE DEF o
  <1>2. Append(q, o) \in Seq(Outgoing) /\ Len(Append(q, o)) = Len(q) + 1
        BY <1>1, AppendProperties
  <1>3. QED
        BY <1>2 DEF enqueue_packet, o

\* A packet is taken off the queue.
LEMMA Dequeued ==
  ASSUME NEW E, NEW q \in Seq(E), NEW id
  PROVE  remove_outgoing_confirmable_packet(q, id) \in Seq(E)
  <1> DEFINE same == {k \in DOMAIN q : q[k].pkt.id = id /\ q[k].pkt.type = "CON"}
  <1>1. CASE same = {}
        BY <1>1 DEF remove_outgoing_confirmable_packet
  <1>2. CASE same # {}
    <2>1. Len(q) \in Nat /\ DOMAIN q = 1..Len(q)
          BY LenProperties
    <2>2. same \subseteq 1..Len(q) /\ same \subseteq 0..Len(q)
          BY <2>1
    <2>3. remove_outgoing_confirmable_packet(q, id) = sol_vector_del(q, Max(same))
          BY <1>2 DEF remove_outgoing_confirmable_packet
    <2> HIDE DEF same
    <2>4. Max(same) \in 1..Len(q)
          BY <1>2, <2>1, <2>2, MinMax
    <2>5. sol_vector_del(q, Max(same)) \in Seq(E)
          BY <2>4, DeletedProperties
    <2>6. QED
          BY <2>3, <2>5
  <1>3. QED
        BY <1>1, <1>2

\* Packets that the endpoint makes.
LEMMA PacketsMade ==
  /\ sol_coap_packet_new \in Packet
  /\ \A kind \in Kinds, id \in Ids : RequestOf(kind, id) \in Packet
  /\ \A id \in Ids, token \in Ids \cup {NoToken} :
       sol_coap_packet_new_request("CON", id, token, 1) \in Packet
  <1>1. sol_coap_packet_new \in Packet
        BY DEF sol_coap_packet_new, Packet
  <1>2. ASSUME NEW kind \in Kinds, NEW id \in Ids PROVE RequestOf(kind, id) \in Packet
    <2>1. kind \in {"con", "non", "obs", "ping"}
          BY CoapAssumption
    <2>2. QED
          BY <2>1 DEF RequestOf, sol_coap_packet_new_request, Packet
  <1>3. \A id \in Ids, token \in Ids \cup {NoToken} :
          sol_coap_packet_new_request("CON", id, token, 1) \in Packet
        BY DEF sol_coap_packet_new_request, Packet
  <1>4. QED
        BY <1>1, <1>2, <1>3

\* What peers answer to what was sent.
LEMMA ResponsesTyped ==
  ASSUME sent \subseteq Packet
  PROVE  Responses \subseteq Msg
  <1>1. \A r \in sent : r.id \in Ids \cup {0} /\ r.token \in Ids \cup {NoToken}
        BY DEF Packet
  <1>2. QED
        BY <1>1 DEF Responses, Msg

\* The walk of respond_packet() leaves the queue as it was, or shorter, or with a
\* packet more; then the socket is monitored.
LEMMA WalkQueue ==
  ASSUME NEW fs, NEW q \in Seq(Outgoing), NEW p, NEW from, NEW msg, NEW keep,
         NEW found, NEW x, RespondWalk(fs, q, p, from, msg, keep, found, x),
         outgoing \in Seq(Outgoing), q = outgoing \/ Len(q) > Len(outgoing)
  PROVE  outgoing' \in Seq(Outgoing) /\ (NothingStalls => NothingStalls')
  <1> DEFINE matching == {k \in 1..from : k <= Len(p) /\ match_reply(p[k], msg)}
             q1 == IF keep THEN q ELSE remove_outgoing_confirmable_packet(q, msg.id)
             reset == msg.observe >= 0 /\ ~found
             longer == Len(q) > Len(outgoing)
  <1>1. q1 \in Seq(Outgoing) /\ (q \in Seq(Waiting) => q1 \in Seq(Waiting))
    <2>1. CASE keep
          BY <2>1
    <2>2. CASE ~keep
      <3>1. q1 = remove_outgoing_confirmable_packet(q, msg.id)
            BY <2>2
      <3>2. QED
            BY <3>1, Dequeued
    <2>3. QED
          BY <2>1, <2>2
  <1>2. CASE matching # {}
    <2>1. outgoing' = q /\ monitor' = (monitor \/ longer)
          BY <1>2 DEF RespondWalk
    <2>2. QED
          BY <2>1 DEF NothingStalls
  <1>3. CASE matching = {} /\ reset
    <2>1. outgoing' = enqueue_packet(q1, sol_coap_packet_new) /\ monitor' = TRUE
          BY <1>3 DEF RespondWalk
    <2> HIDE DEF q1
    <2>2. outgoing' \in Seq(Outgoing)
          BY <1>1, <2>1, PacketsMade, Enqueued
    <2>3. QED
          BY <2>1, <2>2 DEF NothingStalls
  <1>4. CASE matching = {} /\ ~reset
    <2>1. outgoing' = q1 /\ monitor' = (monitor \/ longer \/ reset)
          BY <1>4 DEF RespondWalk
    <2> HIDE DEF q1
    <2>2. QED
          BY <1>1, <1>4, <2>1 DEF NothingStalls
  <1>5. QED
        BY <1>2, <1>3, <1>4

\* The attempt to send a packet that has attempts left.
LEMMA Attempted ==
  ASSUME NEW o \in Outgoing, ~o.timer, ~GivenUp(o)
  PROVE  timeout_expired(o) \in Outgoing
  <1>1. /\ o.pkt \in Packet /\ o.timer \in BOOLEAN /\ o.counter \in 0..MaxRetransmit
        /\ o = [pkt |-> o.pkt, timer |-> o.timer, counter |-> o.counter]
        BY DEF Outgoing
  <1>2. CASE o.pkt.type # "CON"
        BY <1>2 DEF timeout_expired
  <1>3. CASE o.pkt.type = "CON"
    <2>1. o.counter + 1 \in 0..MaxRetransmit
          BY <1>1, <1>3, CoapAssumption DEF GivenUp
    <2>2. timeout_expired(o) = [pkt |-> o.pkt, timer |-> TRUE, counter |-> o.counter + 1]
          BY <1>1, <1>3 DEF timeout_expired
    <2>3. QED
          BY <1>1, <2>1, <2>2 DEF Outgoing
  <1>4. QED
        BY <1>2, <1>3

\* on_can_write(): what it keeps waits for its timeout, and the monitor goes off
\* only when nothing else is left, unless sendmsg() fails for good.
LEMMA QueueWritten ==
  ASSUME QueueTypes, NEW result \in SendResults, on_can_write(result)
  PROVE  QueueTypes' /\ (NothingStalls /\ "send error" \notin Careless => NothingStalls')
  <1> DEFINE q == outgoing
             ready == {k \in DOMAIN q : ~q[k].timer /\ ~GivenUp(q[k])}
             first == IF ready = {} THEN Len(q) + 1 ELSE Min(ready)
             S == {k \in DOMAIN q : ~GivenUp(q[k])}
             pre == SubSeq(q, 1, first - 1)
             kept == Kept(pre, S)
             o == timeout_expired(q[first])
             rest == SubSeq(q, first + 1, Len(q))
  <1>1. /\ IF ready = {}
           THEN result = "sent" /\ outgoing' = kept /\ monitor' = FALSE /\ sent' = sent
           ELSE /\ outgoing' = IF result = "sent" /\ ~o.timer THEN kept \o rest ELSE kept \o <<o>> \o rest
                /\ sent' = IF result = "sent" /\ o.pkt.id # 0 THEN sent \cup {o.pkt} ELSE sent
                /\ monitor' = StaysMonitored(result, o, outgoing')
        BY DEF on_can_write
  <1>2. /\ q \in Seq(Outgoing) /\ sent \subseteq Packet /\ Len(q) \in Nat /\ DOMAIN q = 1..Len(q)
        /\ \A k \in 1..Len(q) : q[k] \in Outgoing
        BY LenProperties, ElementOfSeq DEF QueueTypes
  <1>3. /\ ready \subseteq 1..Len(q) /\ ready \subseteq 0..Len(q)
        /\ \A k \in 1..Len(q) : k \notin ready /\ k \in S => q[k].timer
        /\ \A k \in ready : ~q[k].timer /\ ~GivenUp(q[k])
        BY <1>2
  <1> HIDE DEF ready, S
  <1>4. /\ ready # {} => first \in ready /\ first \in 1..Len(q)
        /\ ready = {} => first = Len(q) + 1
        /\ first \in Nat /\ \A k \in 1..Len(q) : k < first => k \notin ready
        /\ first - 1 \in 0..Len(q)
    <2>1. CASE ready = {}
          BY <1>2, <2>1
    <2>2. CASE ready # {}
      <3>1. Min(ready) \in ready /\ \A y \in ready : Min(ready) <= y
            BY <1>2, <1>3, <2>2, MinMax
      <3>2. first = Min(ready)
            BY <2>2
      <3> HIDE DEF first
      <3>a. first \in ready /\ \A y \in ready : first <= y
            BY <3>1, <3>2
      <3>3. first \in ready /\ first \in 1..Len(q) /\ \A y \in ready : first <= y /\ y \in Nat
            BY <1>2, <1>3, <3>a
      <3>4. \A k \in 1..Len(q) : k < first => k \notin ready
            BY <3>3
      <3>5. QED
            BY <1>2, <2>2, <3>3, <3>4
    <2>3. QED
          BY <2>1, <2>2
  <1> HIDE DEF first
  <1>5. /\ pre \in Seq(Outgoing) /\ Len(pre) = first - 1
        /\ \A j \in 1..(first - 1) : pre[j] = q[j]
        BY <1>2, <1>4, PrefixProperties
  <1> HIDE DEF pre
  <1>6. kept \in Seq(Outgoing) /\ Selects(kept, pre, S, Len(pre))
        BY <1>5, KeptProperties
  <1> HIDE DEF kept
  <1>7. kept \in Seq(Waiting)
    <2>1. Len(kept) \in Nat /\ \A j \in 1..Len(kept) : kept[j] \in Outgoing
          BY <1>6, LenProperties, ElementOfSeq
    <2>2. ASSUME NEW j \in 1..Len(kept) PROVE kept[j] \in Waiting
      <3>1. PICK n \in S \cap (1..Len(pre)) : kept[j] = pre[n]
            BY <1>6, <2>2 DEF Selects
      <3>2. n \in 1..(first - 1) /\ n \in 1..Len(q) /\ n < first /\ n \in S
            BY <1>2, <1>4, <1>5, <3>1
      <3>3. q[n].timer /\ kept[j] = q[n]
            BY <1>3, <1>4, <1>5, <3>1, <3>2
      <3>4. QED
            BY <1>2, <3>2, <3>3 DEF Waiting
    <2>3. kept \in [1..Len(kept) -> Outgoing]
          BY <1>6, LenProperties
    <2>4. kept \in [1..Len(kept) -> Waiting]
          BY <2>2, <2>3
    <2>5. QED
          BY <2>1, <2>4, SeqDef
  <1>8. CASE ready = {}
        BY <1>1, <1>2, <1>6, <1>7, <1>8 DEF QueueTypes, NothingStalls
  <1>9. CASE ready # {}
    <2>1. q[first] \in Outgoing /\ ~q[first].timer /\ ~GivenUp(q[first])
          BY <1>2, <1>3, <1>4, <1>9
    <2>2. o \in Outgoing
          BY <2>1, Attempted
    <2>3. rest \in Seq(Outgoing)
      <3>1. first \in 0..Len(q)
            BY <1>2, <1>4, <1>9
      <3>2. QED
            BY <1>2, <3>1, PrefixProperties
    <2> HIDE DEF o, rest
    <2>4. /\ outgoing' = kept \o rest \/ outgoing' = kept \o <<o>> \o rest
          /\ sent' = sent \cup {o.pkt} \/ sent' = sent
          /\ monitor' = StaysMonitored(result, o, outgoing')
          BY <1>1, <1>9
    <2>5. outgoing' \in Seq(Outgoing)
      <3>1. <<o>> \in Seq(Outgoing)
            BY <2>2
      <3>2. kept \o <<o>> \in Seq(Outgoing)
            BY <1>6, <3>1, ConcatProperties
      <3>3. kept \o <<o>> \o rest \in Seq(Outgoing) /\ kept \o rest \in Seq(Outgoing)
            BY <1>6, <2>3, <3>2, ConcatProperties
      <3>4. QED
            BY <2>4, <3>3
    <2>6. sent' \subseteq Packet
      <3>1. o.pkt \in Packet
            BY <2>2 DEF Outgoing
      <3>2. QED
            BY <1>2, <2>4, <3>1
    <2>7. ASSUME "send error" \notin Careless PROVE NothingStalls'
      <3>1. result = "sent" \/ result = "again"
            BY <2>7 DEF SendResults
      <3>2. monitor' = (result = "again" \/ (result = "sent" /\ outgoing' # <<>>))
            BY <2>4 DEF StaysMonitored
      <3>3. monitor' \/ outgoing' = <<>>
            BY <3>1, <3>2
      <3>4. <<>> \in Seq(Waiting)
            BY EmptySeq
      <3>5. monitor' \in BOOLEAN
            BY <3>2
      <3>6. QED
            BY <3>3, <3>4, <3>5 DEF NothingStalls
    <2>8. QED
          BY <2>5, <2>6, <2>7 DEF QueueTypes
  <1>10. QED
         BY <1>8, <1>9

\* timeout_cb(): the packet may be written again, and the socket is monitored.
LEMMA PacketTimedOut ==
  ASSUME QueueTypes, NEW k \in DOMAIN outgoing, timeout_cb(k)
  PROVE  QueueTypes' /\ NothingStalls'
  <1> DEFINE o == [outgoing[k] EXCEPT !.timer = FALSE]
  <1>1. outgoing \in Seq(Outgoing) /\ k \in 1..Len(outgoing) /\ DOMAIN outgoing = 1..Len(outgoing)
        BY LenProperties DEF QueueTypes
  <1>2. o \in Outgoing
    <2>1. outgoing[k] \in Outgoing
          BY <1>1, ElementOfSeq
    <2>2. QED
          BY <2>1 DEF Outgoing
  <1>3. outgoing' = [outgoing EXCEPT ![k] = o] /\ monitor' = TRUE /\ sent' = sent
        BY <1>1 DEF timeout_cb
  <1> HIDE DEF o
  <1>4. outgoing' \in Seq(Outgoing)
        BY <1>1, <1>2, <1>3, ExceptSeq
  <1>5. QED
        BY <1>3, <1>4 DEF QueueTypes, NothingStalls

\* Steps that queue one packet, and steps that leave the queue alone.
LEMMA QueueGrows ==
  ASSUME QueueTypes, NEW q \in Seq(Outgoing), NEW pkt \in Packet,
         outgoing' = enqueue_packet(q, pkt), monitor' = TRUE, sent' = sent
  PROVE  QueueTypes' /\ NothingStalls'
  <1>1. outgoing' \in Seq(Outgoing)
        BY Enqueued
  <1>2. QED
        BY <1>1 DEF QueueTypes, NothingStalls

\* A step that touches neither queue nor monitor keeps what is said of them.
LEMMA QueueLeftAlone ==
  ASSUME QueueTypes, UNCHANGED <<outgoing, monitor, sent>>
  PROVE  QueueTypes' /\ (NothingStalls => NothingStalls')
  BY DEF QueueTypes, NothingStalls

\* The callback of respond_packet() returns: an unobserve packet may be queued.
LEMMA QueueAfterRespond ==
  ASSUME ReplyInv, ReplyInv', QueueTypes, NEW ret \in BOOLEAN, RespondReturns(ret)
  PROVE  QueueTypes' /\ (NothingStalls => NothingStalls')
  <1> DEFINE f == Top
             k == IndexOf(pending, f.id)
             p == Returned(pending, k, f.was_used)
             ends == ~ret /\ p[k].observing
             q == IF ends THEN enqueue_packet(outgoing, Unobserve(p[k].token)) ELSE outgoing
  <1>1. /\ stack # <<>> /\ sent' = sent
        /\ request_id' = IF ends THEN request_id + 1 ELSE request_id
        /\ \E fs, p1, from, msg, keep, found, x : RespondWalk(fs, q, p1, from, msg, keep, found, x)
        BY DEF RespondReturns
  <1>2. Coherent(p, Popped) /\ k \in 1..Len(pending) /\ Len(p) = Len(pending)
        BY <1>1, TopReturns
  <1> HIDE DEF f, k, p
  <1>3. p[k].token \in Ids \cup {NoToken}
    <2>1. p[k] \in Reply
          BY <1>2, ElementOfSeq DEF Coherent
    <2>2. QED
          BY <2>1 DEF Reply
  <1>4. outgoing \in Seq(Outgoing) /\ Len(outgoing) \in Nat
        BY LenProperties DEF QueueTypes
  <1>5. q \in Seq(Outgoing) /\ (q = outgoing \/ Len(q) > Len(outgoing))
    <2>1. CASE ~ends
          BY <1>4, <2>1
    <2>2. CASE ends
      <3>1. request_id + 1 \in Ids
        <4>1. request_id' = request_id + 1 /\ request_id' \in 0..MaxId /\ request_id \in Nat
              BY <1>1, <2>2, ReplyTypes DEF ReplyInv
        <4>2. QED
              BY <4>1 DEF Ids
      <3>2. Unobserve(p[k].token) \in Packet
            BY <1>3, <3>1, PacketsMade DEF Unobserve
      <3> DEFINE pkt == Unobserve(p[k].token)
      <3>3. q = enqueue_packet(outgoing, pkt)
            BY <2>2
      <3> HIDE DEF pkt, q
      <3>4. q \in Seq(Outgoing) /\ Len(q) = Len(outgoing) + 1
        <4>1. pkt \in Packet
              BY <3>2 DEF pkt
        <4>2. QED
              BY <1>4, <3>3, <4>1, Enqueued
      <3>5. QED
            BY <1>4, <3>4
    <2>3. QED
          BY <2>1, <2>2
  <1> HIDE DEF q
  <1>6. outgoing' \in Seq(Outgoing) /\ (NothingStalls => NothingStalls')
        BY <1>1, <1>4, <1>5, WalkQueue
  <1>7. QED
        BY <1>1, <1>6 DEF QueueTypes

\* sol_coap_unobserve_by_token() queues an unobserve packet.
LEMMA QueueAfterUnobserve ==
  ASSUME ReplyInv, ReplyInv', QueueTypes, UnobserveReturns
  PROVE  QueueTypes' /\ NothingStalls'
  <1> DEFINE k == IndexOf(pending, Top.id)
             p == Returned(pending, k, Top.was_used)
             pkt == Unobserve(p[k].token)
  <1>1. /\ stack # <<>> /\ sent' = sent /\ request_id' = request_id + 1 /\ monitor' = TRUE
        /\ outgoing' = enqueue_packet(outgoing, pkt)
        BY DEF UnobserveReturns
  <1>2. Coherent(p, Popped) /\ k \in 1..Len(pending) /\ Len(p) = Len(pending)
        BY <1>1, TopReturns
  <1> HIDE DEF k, p
  <1>3. p[k].token \in Ids \cup {NoToken}
    <2>1. p[k] \in Reply
          BY <1>2, ElementOfSeq DEF Coherent
    <2>2. QED
          BY <2>1 DEF Reply
  <1>4. request_id + 1 \in Ids
    <2>1. request_id' = request_id + 1 /\ request_id' \in 0..MaxId /\ request_id \in Nat
          BY <1>1, ReplyTypes DEF ReplyInv
    <2>2. QED
          BY <2>1 DEF Ids
  <1>5. pkt \in Packet
        BY <1>3, <1>4, PacketsMade DEF Unobserve
  <1> HIDE DEF pkt
  <1>6. outgoing \in Seq(Outgoing)
        BY DEF QueueTypes
  <1>7. QED
        BY <1>1, <1>5, <1>6, QueueGrows

\* sol_coap_cancel_send_packet() takes packets off the queue, and may queue an
\* unobserve packet.
LEMMA QueueAfterCancel ==
  ASSUME ReplyInv, ReplyInv', QueueTypes, NEW id \in Ids, sol_coap_cancel_send_packet(id)
  PROVE  QueueTypes' /\ (NothingStalls => NothingStalls')
  <1> DEFINE S == {j \in DOMAIN outgoing : outgoing[j].pkt.id # id}
             q == Kept(outgoing, S)
             k == IndexOf(pending, id)
             ends == Waits(id) /\ pending[k].observing
             pkt == Unobserve(pending[k].token)
  <1>1. /\ outgoing' = IF ends THEN enqueue_packet(q, pkt) ELSE q
        /\ monitor' = (monitor \/ ends) /\ sent' = sent
        /\ request_id' = IF ends THEN request_id + 1 ELSE request_id
        BY DEF sol_coap_cancel_send_packet
  <1> HIDE DEF S
  <1>2. q \in Seq(Outgoing) /\ (outgoing \in Seq(Waiting) => q \in Seq(Waiting))
        BY KeptProperties DEF QueueTypes
  <1> HIDE DEF q
  <1>3. CASE ends
    <2>1. request_id + 1 \in Ids
      <3>1. request_id' = request_id + 1 /\ request_id' \in 0..MaxId /\ request_id \in Nat
            BY <1>1, <1>3, ReplyTypes DEF ReplyInv
      <3>2. QED
            BY <3>1 DEF Ids
    <2>2. pending[k].token \in Ids \cup {NoToken}
      <3>1. k \in 1..Len(pending)
            BY <1>3, ReplyTypes, FoundById DEF Waits
      <3> HIDE DEF k
      <3>2. pending[k] \in Reply
            BY <3>1, ReplyTypes
      <3>3. QED
            BY <3>2 DEF Reply
    <2>3. pkt \in Packet
          BY <2>1, <2>2, PacketsMade DEF Unobserve
    <2>4. outgoing' = enqueue_packet(q, pkt) /\ monitor' = TRUE /\ sent' = sent
          BY <1>1, <1>3
    <2> HIDE DEF pkt
    <2>5. QED
          BY <1>2, <2>3, <2>4, QueueGrows
  <1>4. CASE ~ends
    <2>1. outgoing' = q /\ monitor' = (monitor \/ ends) /\ sent' = sent
          BY <1>1, <1>4
    <2> HIDE DEF ends
    <2>2. QED
          BY <1>2, <1>4, <2>1 DEF QueueTypes, NothingStalls
  <1>5. QED
        BY <1>3, <1>4

\* sol_coap_notify() queues a packet for every observer.
LEMMA QueueAfterNotify ==
  ASSUME QueueTypes, observers \in Seq(Peers), sol_coap_notify
  PROVE  QueueTypes' /\ NothingStalls'
  <1> DEFINE o == [pkt |-> sol_coap_packet_new, timer |-> FALSE, counter |-> 0]
             n == [k \in DOMAIN observers |-> o]
  <1>1. outgoing' = outgoing \o n /\ monitor' = TRUE /\ sent' = sent
        BY DEF sol_coap_notify
  <1>2. o \in Outgoing
        BY PacketsMade, CoapAssumption DEF Outgoing
  <1> HIDE DEF o
  <1>3. n \in Seq(Outgoing)
    <2>1. Len(observers) \in Nat /\ DOMAIN observers = 1..Len(observers)
          BY LenProperties
    <2>2. n \in [1..Len(observers) -> Outgoing]
          BY <1>2, <2>1
    <2>3. QED
          BY <2>1, <2>2, SeqDef
  <1> HIDE DEF n
  <1>4. outgoing' \in Seq(Outgoing)
        BY <1>1, <1>3, ConcatProperties DEF QueueTypes
  <1>5. QED
        BY <1>1, <1>4 DEF QueueTypes, NothingStalls

-----------------------------------------------------------------------------
(* The observers.                                                          *)

ObserverInv == registered \in BOOLEAN /\ observers \in Seq(Peers) /\ ObserversDiffer

\* register_observer() adds an observer it does not find, and removes the last
\* entry of one it finds.
LEMMA ObserverRegistered ==
  ASSUME ObserverInv, NEW peer \in Peers, NEW observe,
         observers' = register_observer(peer, observe), registered' = registered
  PROVE  ObserverInv'
  <1> DEFINE same == {k \in DOMAIN observers : observers[k] = peer}
  <1>1. /\ observers \in Seq(Peers) /\ Len(observers) \in Nat
        /\ DOMAIN observers = 1..Len(observers)
        BY LenProperties DEF ObserverInv
  <1>2. CASE same = {}
    <2>1. observers' = Append(observers, peer)
          BY <1>2 DEF register_observer
    <2>2. /\ observers' \in Seq(Peers) /\ Len(observers') = Len(observers) + 1
          /\ observers'[Len(observers) + 1] = peer
          /\ \A k \in 1..Len(observers) : observers'[k] = observers[k] /\ observers[k] # peer
          BY <1>1, <1>2, <2>1, AppendProperties
    <2>3. DOMAIN observers' = 1..(Len(observers) + 1)
          BY <2>2, LenProperties
    <2>4. ASSUME NEW j \in DOMAIN observers', NEW k \in DOMAIN observers',
                 observers'[j] = observers'[k]
          PROVE  j = k
      <3>1. /\ j = Len(observers) + 1 \/ j \in 1..Len(observers)
            /\ k = Len(observers) + 1 \/ k \in 1..Len(observers)
            BY <1>1, <2>3, <2>4
      <3>2. CASE j \in 1..Len(observers) /\ k \in 1..Len(observers)
            BY <1>1, <2>2, <2>4, <3>2 DEF ObserverInv, ObserversDiffer
      <3>3. QED
            BY <2>2, <2>4, <3>1, <3>2
    <2>5. QED
          BY <2>2, <2>4 DEF ObserverInv, ObserversDiffer
  <1>3. CASE same # {} /\ observe = 1
    <2>1. same \subseteq 1..Len(observers) /\ same \subseteq 0..Len(observers)
          BY <1>1
    <2> DEFINE m == Max(same)
    <2>2. observers' = sol_vector_del(observers, m)
          BY <1>3 DEF register_observer
    <2> HIDE DEF same
    <2>3. m \in 1..Len(observers)
          BY <1>1, <1>3, <2>1, MinMax
    <2> HIDE DEF m
    <2>4. /\ observers' \in Seq(Peers) /\ Len(observers') = Len(observers) - 1
          /\ \A j \in 1..(Len(observers) - 1) :
               observers'[j] = IF j < m THEN observers[j] ELSE observers[j + 1]
          BY <1>1, <2>2, <2>3, DeletedProperties
    <2>5. DOMAIN observers' = 1..(Len(observers) - 1)
          BY <2>4, LenProperties
    <2> DEFINE from(j) == IF j < m THEN j ELSE j + 1
    <2>6. \A j \in DOMAIN observers' : from(j) \in DOMAIN observers /\ observers'[j] = observers[from(j)]
          BY <1>1, <2>3, <2>4, <2>5
    <2>7. \A j, k \in DOMAIN observers' : from(j) = from(k) => j = k
          BY <1>1, <2>3, <2>5
    <2> HIDE DEF from
    <2>8. QED
          BY <2>4, <2>6, <2>7 DEF ObserverInv, ObserversDiffer
  <1>4. CASE same # {} /\ observe # 1
    <2>1. observers' = observers
          BY <1>4 DEF register_observer
    <2>2. QED
          BY <2>1 DEF ObserverInv, ObserversDiffer
  <1>5. QED
        BY <1>2, <1>3, <1>4

\* No step but a request with the option, and the ends of the resource, touches
\* the observers.
LEMMA ObserverStep ==
  ASSUME ObserverInv, [Next]_vars
  PROVE  ObserverInv'
  <1>1. CASE UNCHANGED resourceVars
        BY <1>1 DEF ObserverInv, ObserversDiffer, resourceVars
  <1>2. CASE registered' \in BOOLEAN /\ observers' = <<>>
    <2>1. <<>> \in Seq(Peers) /\ DOMAIN <<>> = {}
          BY EmptySeq
    <2>2. QED
          BY <1>2, <2>1 DEF ObserverInv, ObserversDiffer
  <1>3. CASE UNCHANGED vars
        BY <1>1, <1>3 DEF vars, resourceVars
  <1>4. CASE \E result \in SendResults : on_can_write(result)
        BY <1>1, <1>4 DEF on_can_write
  <1>5. CASE \E k \in DOMAIN outgoing : timeout_cb(k)
        BY <1>1, <1>5 DEF timeout_cb
  <1>6. CASE \E id \in Ids : pending_timeout_cb(id)
        BY <1>1, <1>6 DEF pending_timeout_cb
  <1>7. CASE Receive
    <2>1. CASE ReceivePing \/ ReceiveUnknown
          BY <1>1, <2>1 DEF ReceivePing, ReceiveUnknown
    <2>2. CASE \E msg \in Responses : ReceiveResponse(msg)
          BY <1>1, <2>2 DEF ReceiveResponse
    <2>3. CASE \E r \in sent : ReceiveEmpty(r.id)
          BY <1>1, <2>3 DEF ReceiveEmpty
    <2>4. ASSUME NEW peer \in Peers, NEW observe \in {NoObserve, 0, 1}, NEW answers \in BOOLEAN,
                 ReceiveRequest(peer, observe, answers)
          PROVE  ObserverInv'
      <3>1. registered' = registered
            BY <2>4 DEF ReceiveRequest
      <3>2. \/ observers' = observers
            \/ observers' = register_observer(peer, observe)
            BY <2>4 DEF ReceiveRequest
      <3>3. QED
            BY <1>1, <3>1, <3>2, ObserverRegistered DEF resourceVars
    <2>5. QED
          BY <1>7, <2>1, <2>2, <2>3, <2>4 DEF Receive, Arrives
  <1>8. CASE Returns
    <2>1. CASE \E ret \in BOOLEAN : RespondReturns(ret) \/ TimeoutReturns(ret)
          BY <1>1, <2>1 DEF RespondReturns, TimeoutReturns
    <2>2. CASE UnobserveReturns
          BY <1>1, <2>2 DEF UnobserveReturns
    <2>3. CASE DestroyReturns
          BY <1>1, <1>2, <2>3 DEF DestroyReturns, DestroyWalk
    <2>4. QED
          BY <1>8, <2>1, <2>2, <2>3 DEF Returns
  <1>9. CASE Api
    <2>1. CASE \E kind \in Kinds, stored \in BOOLEAN : sol_coap_send_packet_with_reply(kind, stored)
          BY <1>1, <2>1 DEF sol_coap_send_packet_with_reply
    <2>2. CASE \E id \in Ids : sol_coap_cancel_send_packet(id) \/ sol_coap_unobserve_by_token(id)
          BY <1>1, <2>2 DEF sol_coap_cancel_send_packet, sol_coap_unobserve_by_token
    <2>3. CASE sol_coap_server_destroy
          BY <1>1, <1>2, <2>3 DEF sol_coap_server_destroy, DestroyWalk
    <2>4. CASE RegisterResource \/ UnregisterResource
          BY <1>2, <2>4 DEF RegisterResource, UnregisterResource
    <2>5. CASE sol_coap_notify
          BY <1>1, <2>5 DEF sol_coap_notify
    <2>6. QED
          BY <1>9, <2>1, <2>2, <2>3, <2>4, <2>5 DEF Api
  <1>10. QED
         BY <1>3, <1>4, <1>5, <1>6, <1>7, <1>8, <1>9 DEF Next

\* No observer is in the list twice, whatever peers and the application do:
\* register_observer() looks a peer up before it adds it.
THEOREM ObserversAlwaysDiffer == Spec => []ObserversDiffer
  <1>1. Init => ObserverInv
    <2>1. <<>> \in Seq(Peers) /\ DOMAIN <<>> = {}
          BY EmptySeq
    <2>2. QED
          BY <2>1 DEF Init, ObserverInv, ObserversDiffer
  <1>2. ObserverInv /\ [Next]_vars => ObserverInv'
        BY ObserverStep
  <1>3. ObserverInv => ObserversDiffer
        BY DEF ObserverInv
  <1>4. QED
        BY <1>1, <1>2, <1>3, PTL DEF Spec

-----------------------------------------------------------------------------
(* The endpoint.                                                           *)

\* Every step keeps replies and callbacks coherent.
LEMMA ReplyStep ==
  ASSUME ReplyInv, QueueTypes, CallbacksKeepRules, [Next]_vars
  PROVE  ReplyInv'
  <1>1. CASE state = "up" /\ UNCHANGED <<state, pending, request_id, stack>>
        BY <1>1, RepliesLeftAlone
  <1>2. CASE UNCHANGED vars
        BY <1>2, RepliesLeftAlone DEF vars
  <1>3. CASE \E result \in SendResults : on_can_write(result)
        BY <1>1, <1>3 DEF on_can_write, Idle
  <1>4. CASE \E k \in DOMAIN outgoing : timeout_cb(k)
        BY <1>1, <1>4 DEF timeout_cb, Idle
  <1>5. CASE \E id \in Ids : pending_timeout_cb(id)
        BY <1>5, TimeoutCalls
  <1>6. CASE Receive
    <2>1. CASE ReceivePing \/ ReceiveUnknown
          BY <1>1, <2>1 DEF ReceivePing, ReceiveUnknown, Idle
    <2>2. CASE \E msg \in Responses : ReceiveResponse(msg)
          BY <2>2, ResponsesTyped, ResponseArrives DEF QueueTypes
    <2>3. CASE \E r \in sent : ReceiveEmpty(r.id)
          BY <1>1, <2>3 DEF ReceiveEmpty, Idle
    <2>4. CASE \E peer \in Peers, observe \in {NoObserve, 0, 1}, answers \in BOOLEAN :
                 ReceiveRequest(peer, observe, answers)
          BY <1>1, <2>4 DEF ReceiveRequest, Idle
    <2>5. QED
          BY <1>6, <2>1, <2>2, <2>3, <2>4 DEF Receive, Arrives
  <1>7. CASE Returns
        BY <1>7, AfterRespond, AfterTimeout, AfterUnobserve, AfterDestroy DEF Returns
  <1>8. CASE Api
    <2>1. CASE \E kind \in Kinds, stored \in BOOLEAN : sol_coap_send_packet_with_reply(kind, stored)
          BY <2>1, RequestSent
    <2>2. CASE \E id \in Ids : sol_coap_cancel_send_packet(id) \/ sol_coap_unobserve_by_token(id)
          BY <2>2, RequestCancelled, UnobserveCalls
    <2>3. CASE sol_coap_server_destroy
          BY <2>3, DestroyBegins
    <2>4. CASE RegisterResource \/ UnregisterResource
          BY <1>1, <2>4 DEF RegisterResource, UnregisterResource, Idle
    <2>5. CASE sol_coap_notify
          BY <1>1, <2>5 DEF sol_coap_notify, Idle
    <2>6. QED
          BY <1>8, <2>1, <2>2, <2>3, <2>4, <2>5 DEF Api
  <1>9. QED
        BY <1>2, <1>3, <1>4, <1>5, <1>6, <1>7, <1>8 DEF Next

\* Every step keeps the queue's types, and the packets that wait from stalling.
LEMMA QueueStep ==
  ASSUME ReplyInv, ReplyInv', QueueTypes, ObserverInv, [Next]_vars
  PROVE  QueueTypes' /\ (NothingStalls /\ "send error" \notin Careless => NothingStalls')
  <1>1. CASE UNCHANGED <<outgoing, monitor, sent>>
        BY <1>1, QueueLeftAlone
  <1>2. CASE UNCHANGED vars
        BY <1>1, <1>2 DEF vars
  <1>3. CASE \E result \in SendResults : on_can_write(result)
        BY <1>3, QueueWritten
  <1>4. CASE \E k \in DOMAIN outgoing : timeout_cb(k)
        BY <1>4, PacketTimedOut
  <1>5. CASE \E id \in Ids : pending_timeout_cb(id)
        BY <1>1, <1>5 DEF pending_timeout_cb
  <1>6. CASE Receive
    <2>0. outgoing \in Seq(Outgoing) /\ sol_coap_packet_new \in Packet
          BY PacketsMade DEF QueueTypes
    <2>1. CASE ReceivePing \/ ReceiveUnknown
      <3>1. /\ outgoing' = enqueue_packet(outgoing, sol_coap_packet_new)
            /\ monitor' = TRUE /\ sent' = sent
            BY <2>1 DEF ReceivePing, ReceiveUnknown
      <3>2. QED
            BY <2>0, <3>1, QueueGrows
    <2>2. ASSUME NEW msg \in Responses, ReceiveResponse(msg)
          PROVE  QueueTypes' /\ (NothingStalls => NothingStalls')
      <3>1. /\ RespondWalk(<<>>, outgoing, pending, Len(pending), msg, FALSE, FALSE, exchange)
            /\ sent' = sent
            BY <2>2 DEF ReceiveResponse
      <3>2. QED
            BY <2>0, <3>1, WalkQueue DEF QueueTypes
    <2>3. ASSUME NEW r \in sent, ReceiveEmpty(r.id)
          PROVE  QueueTypes' /\ (NothingStalls => NothingStalls')
      <3>1. /\ outgoing' = remove_outgoing_confirmable_packet(outgoing, r.id)
            /\ monitor' = monitor /\ sent' = sent
            BY <2>3 DEF ReceiveEmpty
      <3>2. outgoing' \in Seq(Outgoing) /\ (outgoing \in Seq(Waiting) => outgoing' \in Seq(Waiting))
            BY <2>0, <3>1, Dequeued
      <3>3. QED
            BY <3>1, <3>2 DEF QueueTypes, NothingStalls
    <2>4. ASSUME NEW peer \in Peers, NEW observe \in {NoObserve, 0, 1}, NEW answers \in BOOLEAN,
                 ReceiveRequest(peer, observe, answers)
          PROVE  QueueTypes' /\ (NothingStalls => NothingStalls')
      <3>1. sent' = sent /\ monitor' = (monitor \/ answers)
            BY <2>4 DEF ReceiveRequest
      <3>2. CASE answers
        <4>1. outgoing' = enqueue_packet(outgoing, sol_coap_packet_new) /\ monitor' = TRUE
              BY <2>4, <3>2 DEF ReceiveRequest
        <4>2. QED
              BY <2>0, <3>1, <4>1, QueueGrows
      <3>3. CASE ~answers
        <4>1. outgoing' = outgoing
              BY <2>4, <3>3 DEF ReceiveRequest
        <4>2. QED
              BY <3>1, <3>3, <4>1 DEF QueueTypes, NothingStalls
      <3>4. QED
            BY <3>2, <3>3
    <2>5. QED
          BY <1>6, <2>1, <2>2, <2>3, <2>4 DEF Receive, Arrives
  <1>7. CASE Returns
    <2>1. CASE \E ret \in BOOLEAN : TimeoutReturns(ret)
          BY <1>1, <2>1 DEF TimeoutReturns
    <2>2. CASE DestroyReturns
          BY <1>1, <2>2 DEF DestroyReturns
    <2>3. QED
          BY <1>7, <2>1, <2>2, QueueAfterRespond, QueueAfterUnobserve DEF Returns
  <1>8. CASE Api
    <2>1. ASSUME NEW kind \in Kinds, NEW stored \in BOOLEAN,
                 sol_coap_send_packet_with_reply(kind, stored)
          PROVE  QueueTypes' /\ NothingStalls'
      <3> DEFINE id == request_id + 1
                 pkt == RequestOf(kind, id)
      <3>1. /\ outgoing' = enqueue_packet(outgoing, pkt) /\ monitor' = TRUE /\ sent' = sent
            /\ request_id' = id
            BY <2>1 DEF sol_coap_send_packet_with_reply
      <3>2. id \in Ids
        <4>1. request_id \in Nat /\ request_id' \in 0..MaxId
              BY ReplyTypes DEF ReplyInv
        <4>2. QED
              BY <3>1, <4>1 DEF Ids
      <3> HIDE DEF id
      <3>3. pkt \in Packet
            BY <3>2, PacketsMade
      <3> HIDE DEF pkt
      <3>4. outgoing \in Seq(Outgoing)
            BY DEF QueueTypes
      <3>5. QED
            BY <3>1, <3>3, <3>4, QueueGrows
    <2>2. CASE \E id \in Ids : sol_coap_cancel_send_packet(id)
          BY <2>2, QueueAfterCancel
    <2>3. CASE \E id \in Ids : sol_coap_unobserve_by_token(id)
          BY <1>1, <2>3 DEF sol_coap_unobserve_by_token
    <2>4. CASE sol_coap_server_destroy
      <3>1. outgoing' = <<>> /\ monitor' = FALSE /\ sent' = sent
            BY <2>4 DEF sol_coap_server_destroy
      <3>2. <<>> \in Seq(Outgoing) /\ <<>> \in Seq(Waiting)
            BY EmptySeq
      <3>3. QED
            BY <3>1, <3>2 DEF QueueTypes, NothingStalls
    <2>5. CASE RegisterResource \/ UnregisterResource
          BY <1>1, <2>5 DEF RegisterResource, UnregisterResource
    <2>6. CASE sol_coap_notify
          BY <2>6, QueueAfterNotify DEF ObserverInv
    <2>7. QED
          BY <1>8, <2>1, <2>2, <2>3, <2>4, <2>5, <2>6 DEF Api
  <1>9. QED
        BY <1>2, <1>3, <1>4, <1>5, <1>6, <1>7, <1>8 DEF Next

EndpointInv == ReplyInv /\ QueueTypes /\ ObserverInv

\* The invariant holds of a server that was just created.
LEMMA EndpointInit ==
  ASSUME Init
  PROVE  EndpointInv /\ NothingStalls
  <1>1. ReplyInv
        BY ReplyInit
  <1>2. <<>> \in Seq(Outgoing) /\ <<>> \in Seq(Waiting) /\ <<>> \in Seq(Peers) /\ DOMAIN <<>> = {}
        BY EmptySeq
  <1>3. QED
        BY <1>1, <1>2 DEF Init, EndpointInv, QueueTypes, ObserverInv, ObserversDiffer, NothingStalls

\* The invariant of an endpoint whose callbacks keep the rules.
THEOREM EndpointInvariant ==
  ASSUME CallbacksKeepRules
  PROVE  Spec => []EndpointInv
  <1>1. Init => EndpointInv
        BY EndpointInit
  <1>2. EndpointInv /\ [Next]_vars => EndpointInv'
        BY ReplyStep, QueueStep, ObserverStep DEF EndpointInv
  <1>3. QED
        BY <1>1, <1>2, PTL DEF Spec

\* While a callback runs its reply stays allocated and in use, and the walk that
\* called it still points at it; nothing is left of a destroyed endpoint.  For
\* any number of requests and observers, if callbacks do not cancel the replies
\* of others during a walk and do not call the API while the endpoint is being
\* destroyed: SOL_REENTRANT_CALL and SOL_REENTRANT_FREE are enough.
THEOREM RepliesAlwaysSurvive ==
  ASSUME CallbacksKeepRules
  PROVE  Spec => []RepliesSurviveCallbacks
  <1>1. EndpointInv => RepliesSurviveCallbacks
    <2> SUFFICES ASSUME ReplyInv PROVE RepliesSurviveCallbacks
        BY DEF EndpointInv
    <2>1. ASSUME NEW l \in DOMAIN stack
          PROVE  /\ IsPending(pending, stack[l].id)
                 /\ pending[IndexOf(pending, stack[l].id)].in_use
                 /\ stack[l].handler \in {"respond", "destroy"} =>
                      stack[l].k \in DOMAIN pending /\ pending[stack[l].k].id = stack[l].id
      <3>1. l \in 1..Len(stack) /\ DOMAIN pending = 1..Len(pending) /\ Coherent(pending, stack)
            BY <2>1, ReplyTypes DEF ReplyInv
      <3>2. PICK j \in 1..Len(pending) : pending[j].id = stack[l].id
            BY <3>1 DEF Coherent
      <3>3. IsPending(pending, stack[l].id) /\ IndexOf(pending, stack[l].id) = j
            BY <3>1, <3>2, ReplyTypes, FoundById DEF IsPending
      <3>4. pending[j].in_use
            BY <3>1, <3>2 DEF Coherent, InUse
      <3>5. QED
            BY <3>1, <3>3, <3>4 DEF Coherent, Walking
    <2>2. state = "gone" => stack = <<>> /\ pending = <<>> /\ outgoing = <<>>
          BY DEF ReplyInv, StackInv
    <2>3. QED
          BY <2>1, <2>2 DEF RepliesSurviveCallbacks
  <1>2. QED
        BY <1>1, EndpointInvariant, PTL

-----------------------------------------------------------------------------
(* Exchanges.                                                              *)

ExchangeTypes == exchange \in [Ids -> {"none", "open", "heard", "over"}]

\* The reply of an exchange that is over is there for its callback to return.
OverInv ==
  \A j \in 1..Len(pending) :
    exchange[pending[j].id] = "over" => pending[j].in_use /\ pending[j].delete_me

\* Being called back does not end an exchange.
LEMMA Heard ==
  ASSUME NEW x \in [Ids -> {"none", "open", "heard", "over"}], NEW id
  PROVE  /\ Hears(x, id) \in [Ids -> {"none", "open", "heard", "over"}]
         /\ \A i \in Ids : Hears(x, id)[i] = "over" => x[i] = "over"
  BY DEF Hears

\* What a step may do to exchanges: end those in S, and note calls.
Ends(S) ==
  /\ ExchangeTypes'
  /\ \A i \in Ids \ S : exchange'[i] = "over" => exchange[i] = "over"

\* The steps that end exchanges, and those that end none.
LEMMA ExchangesEnd ==
  ASSUME ExchangeTypes, [Next]_vars
  PROVE  /\ ExchangeTypes'
         /\ (\A ret \in BOOLEAN : RespondReturns(ret) \/ TimeoutReturns(ret) =>
               Ends(IF ret THEN {} ELSE {Top.id}))
         /\ UnobserveReturns \/ DestroyReturns => Ends({Top.id})
         /\ \A id \in Ids : sol_coap_cancel_send_packet(id) => Ends({id})
         /\ \/ Ends({})
            \/ Returns
            \/ \E id \in Ids : sol_coap_cancel_send_packet(id)
  <1> DEFINE T == [Ids -> {"none", "open", "heard", "over"}]
  <1>0. exchange \in T
        BY DEF ExchangeTypes
  <1>1. ASSUME UNCHANGED exchange PROVE Ends({})
        BY <1>1 DEF ExchangeTypes, Ends
  <1>2. ASSUME NEW ret \in BOOLEAN, RespondReturns(ret)
        PROVE  Ends(IF ret THEN {} ELSE {Top.id})
    <2> DEFINE x == [exchange EXCEPT ![Top.id] = IF ret THEN @ ELSE "over"]
    <2>1. exchange' = x \/ \E i : exchange' = Hears(x, i)
          BY <1>2 DEF RespondReturns, RespondWalk
    <2>2. x \in T /\ \A i \in Ids \ (IF ret THEN {} ELSE {Top.id}) : x[i] = "over" => exchange[i] = "over"
          BY <1>0
    <2> HIDE DEF x
    <2>3. QED
          BY <2>1, <2>2, Heard DEF Ends, ExchangeTypes
  <1>3. ASSUME NEW ret \in BOOLEAN, TimeoutReturns(ret)
        PROVE  Ends(IF ret THEN {} ELSE {Top.id})
    <2>1. exchange' = [exchange EXCEPT ![Top.id] = IF ret THEN @ ELSE "over"]
          BY <1>3 DEF TimeoutReturns
    <2>2. QED
          BY <1>0, <2>1 DEF Ends, ExchangeTypes
  <1>4. ASSUME UnobserveReturns \/ DestroyReturns PROVE Ends({Top.id})
    <2>1. exchange' = [exchange EXCEPT ![Top.id] = "over"]
          BY <1>4 DEF UnobserveReturns, DestroyReturns
    <2>2. QED
          BY <1>0, <2>1 DEF Ends, ExchangeTypes
  <1>5. ASSUME NEW id \in Ids, sol_coap_cancel_send_packet(id) PROVE Ends({id})
    <2>1. exchange' = [exchange EXCEPT ![id] = "over"]
          BY <1>5 DEF sol_coap_cancel_send_packet
    <2>2. QED
          BY <1>0, <2>1 DEF Ends, ExchangeTypes
  <1>6. ASSUME \E i : exchange' = Hears(exchange, i) PROVE Ends({})
        BY <1>0, <1>6, Heard DEF Ends, ExchangeTypes
  <1>7. CASE \/ UNCHANGED vars
             \/ \E result \in SendResults : on_can_write(result)
             \/ \E k \in DOMAIN outgoing : timeout_cb(k)
             \/ RegisterResource \/ UnregisterResource \/ sol_coap_notify
             \/ sol_coap_server_destroy
             \/ ReceivePing \/ ReceiveUnknown \/ \E r \in sent : ReceiveEmpty(r.id)
             \/ \E peer \in Peers, observe \in {NoObserve, 0, 1}, answers \in BOOLEAN :
                  ReceiveRequest(peer, observe, answers)
    <2>1. UNCHANGED exchange
          BY <1>7 DEF vars, on_can_write, timeout_cb, RegisterResource, UnregisterResource,
             sol_coap_notify, sol_coap_server_destroy, ReceivePing, ReceiveUnknown, ReceiveEmpty,
             ReceiveRequest
    <2>2. Ends({})
          BY <1>1, <2>1
    <2>3. QED
          BY <1>2, <1>3, <1>4, <1>5, <2>2 DEF Ends
  <1>8. CASE \/ \E id \in Ids : pending_timeout_cb(id) \/ sol_coap_unobserve_by_token(id)
             \/ \E msg \in Responses : ReceiveResponse(msg)
    <2>0. ASSUME NEW msg \in Responses, ReceiveResponse(msg)
          PROVE  UNCHANGED exchange \/ \E i : exchange' = Hears(exchange, i)
          BY <2>0 DEF ReceiveResponse, RespondWalk
    <2>1. UNCHANGED exchange \/ \E i : exchange' = Hears(exchange, i)
          BY <1>8, <2>0 DEF pending_timeout_cb, sol_coap_unobserve_by_token
    <2>2. Ends({})
          BY <1>1, <1>6, <2>1
    <2>3. QED
          BY <1>2, <1>3, <1>4, <1>5, <2>2 DEF Ends
  <1>9. CASE \E kind \in Kinds, stored \in BOOLEAN : sol_coap_send_packet_with_reply(kind, stored)
    <2>1. UNCHANGED exchange \/ \E i : exchange' = [exchange EXCEPT ![i] = "open"]
          BY <1>9 DEF sol_coap_send_packet_with_reply
    <2>2. Ends({})
      <3>1. ASSUME NEW i, exchange' = [exchange EXCEPT ![i] = "open"] PROVE Ends({})
            BY <1>0, <3>1 DEF Ends, ExchangeTypes
      <3>2. QED
            BY <1>1, <2>1, <3>1
    <2>3. QED
          BY <1>2, <1>3, <1>4, <1>5, <2>2 DEF Ends
  <1>10. CASE Returns
         BY <1>2, <1>3, <1>4, <1>5, <1>10 DEF Returns, Ends
  <1>11. CASE \E id \in Ids : sol_coap_cancel_send_packet(id)
         BY <1>2, <1>3, <1>4, <1>5, <1>11 DEF Ends
  <1>12. QED
         BY <1>7, <1>8, <1>9, <1>10, <1>11 DEF Next, Receive, Arrives, Api

\* A handler at the bottom of the stack goes on after its callback.
LEMMA OverBelow ==
  ASSUME ReplyInv, OverInv, stack # <<>>, Top.handler # "unobserve",
         "true after cancel" \notin Careless, NEW ret \in BOOLEAN,
         NoNewReply, ReplyStays(ret), Ends(IF ret THEN {} ELSE {Top.id})
  PROVE  OverInv'
  <1> SUFFICES ASSUME NEW j \in 1..Len(pending'), exchange'[pending'[j].id] = "over"
               PROVE  FALSE
      BY DEF OverInv
  <1>1. PICK l \in 1..Len(pending) : pending'[j].id = pending[l].id
        BY DEF NoNewReply
  <1>2. pending[l].id \in Ids /\ IndexOf(pending, pending[l].id) = l
        BY ReplyTypes, FoundById
  <1>3. CASE pending[l].id = Top.id
    <2>1. ret /\ ~pending[l].delete_me
          BY <1>1, <1>2, <1>3 DEF ReplyStays
    <2>2. exchange[pending[l].id] = "over"
          BY <1>1, <1>2, <2>1 DEF Ends
    <2>3. QED
          BY <2>1, <2>2 DEF OverInv
  <1>4. CASE pending[l].id # Top.id
    <2>1. exchange[pending[l].id] = "over"
          BY <1>1, <1>2, <1>4 DEF Ends
    <2>2. PICK m \in 1..Len(stack) : stack[m].id = pending[l].id
          BY <2>1 DEF OverInv, ReplyInv, Coherent, InUse
    <2>3. Len(stack) = 1 /\ Top = stack[1]
          BY OnlyFrame
    <2>4. m = 1
          BY <2>3, OneIndex
    <2>5. QED
          BY <1>4, <2>2, <2>3, <2>4
  <1>5. QED
        BY <1>3, <1>4

\* A handler starts, outside of all callbacks: no reply is in use.
LEMMA OverIdle ==
  ASSUME ReplyInv, OverInv, stack = <<>>, NoNewReply, Ends({})
  PROVE  OverInv'
  <1> SUFFICES ASSUME NEW j \in 1..Len(pending'), exchange'[pending'[j].id] = "over"
               PROVE  FALSE
      BY DEF OverInv
  <1>1. PICK l \in 1..Len(pending) : pending'[j].id = pending[l].id
        BY DEF NoNewReply
  <1>2. pending[l].id \in Ids
        BY ReplyTypes
  <1>3. exchange[pending[l].id] = "over"
        BY <1>1, <1>2 DEF Ends
  <1>4. InUse(stack, pending[l].id)
        BY <1>3 DEF OverInv, ReplyInv, Coherent
  <1>5. QED
        BY <1>4 DEF InUse

\* SOL_REENTRANT_FREE() of the reply of an exchange that ends.
LEMMA OverFreed ==
  ASSUME NEW p, NEW fs, Coherent(p, fs), NEW k \in 1..Len(p),
         \A l \in 1..Len(fs) : Walking(fs[l]) => fs[l].id = p[k].id,
         \A l \in 1..Len(p) : l # k /\ exchange[p[l].id] = "over" => p[l].in_use /\ p[l].delete_me,
         pending' = SOL_REENTRANT_FREE(p, k), Ends({p[k].id})
  PROVE  OverInv'
  <1> DEFINE d == SOL_REENTRANT_FREE(p, k)
  <1>1. Coherent(d, fs) /\ Freed(p, k, d)
    <2>1. NoOtherWalk(fs, p[k].id)
          BY DEF NoOtherWalk
    <2>2. QED
          BY <2>1, FreeCoherent
  <1> HIDE DEF d
  <1>2. pending' = d
        BY DEF d
  <1> SUFFICES ASSUME NEW j \in 1..Len(d), exchange'[d[j].id] = "over"
               PROVE  d[j].in_use /\ d[j].delete_me
      BY <1>2 DEF OverInv
  <1>3. PICK l \in 1..Len(p) : /\ d[j].id = p[l].id
                               /\ l # k => d[j] = p[l]
                               /\ l = k => p[k].in_use /\ d[j].delete_me
        BY <1>1 DEF Freed
  <1>4. CASE l = k
    <2>1. (d[j].in_use <=> InUse(fs, d[j].id)) /\ (p[k].in_use <=> InUse(fs, p[k].id))
          BY <1>1 DEF Coherent
    <2>2. QED
          BY <1>3, <1>4, <2>1
  <1>5. CASE l # k
    <2>1. p[l].id # p[k].id /\ p[l].id \in Ids
      <3>1. p \in Seq(Reply) /\ OnePerId(p)
            BY DEF Coherent
      <3>2. p[l] \in Reply
            BY <3>1, ElementOfSeq
      <3>3. QED
            BY <1>5, <3>1, <3>2 DEF Reply, OnePerId
    <2>2. exchange[p[l].id] = "over"
          BY <1>3, <2>1 DEF Ends
    <2>3. QED
          BY <1>3, <1>5, <2>2
  <1>6. QED
        BY <1>4, <1>5

\* Every step keeps the replies of ended exchanges from being called again.
LEMMA OverStep ==
  ASSUME ReplyInv, QueueTypes, ExchangeTypes, OverInv, CallbacksKeepRules,
         "true after cancel" \notin Careless, [Next]_vars
  PROVE  OverInv'
  <1>1. CASE UNCHANGED <<pending, exchange>>
        BY <1>1 DEF OverInv
  <1>2. CASE \/ UNCHANGED vars
             \/ \E result \in SendResults : on_can_write(result)
             \/ \E k \in DOMAIN outgoing : timeout_cb(k)
             \/ RegisterResource \/ UnregisterResource \/ sol_coap_notify
             \/ ReceivePing \/ ReceiveUnknown \/ \E r \in sent : ReceiveEmpty(r.id)
             \/ \E peer \in Peers, observe \in {NoObserve, 0, 1}, answers \in BOOLEAN :
                  ReceiveRequest(peer, observe, answers)
        BY <1>1, <1>2 DEF vars, on_can_write, timeout_cb, RegisterResource, UnregisterResource,
             sol_coap_notify, ReceivePing, ReceiveUnknown, ReceiveEmpty, ReceiveRequest
  <1>3. CASE \E id \in Ids : pending_timeout_cb(id)
    <2>1. stack = <<>> /\ NoNewReply
          BY <1>3, TimeoutCalls DEF pending_timeout_cb, Idle
    <2>2. \E i : exchange' = Hears(exchange, i)
          BY <1>3 DEF pending_timeout_cb
    <2>3. Ends({})
          BY <2>2, Heard DEF Ends, ExchangeTypes
    <2>4. QED
          BY <2>1, <2>3, OverIdle
  <1>4. ASSUME NEW msg \in Responses, ReceiveResponse(msg) PROVE OverInv'
    <2>1. stack = <<>> /\ NoNewReply
          BY <1>4, ResponsesTyped, ResponseArrives DEF ReceiveResponse, Idle, QueueTypes
    <2>2. exchange' = exchange \/ \E i : exchange' = Hears(exchange, i)
          BY <1>4 DEF ReceiveResponse, RespondWalk
    <2>3. Ends({})
          BY <2>2, Heard DEF Ends, ExchangeTypes
    <2>4. QED
          BY <2>1, <2>3, OverIdle
  <1>5. CASE sol_coap_server_destroy
    <2>1. stack = <<>> /\ NoNewReply /\ exchange' = exchange
          BY <1>5, DestroyBegins DEF sol_coap_server_destroy, Idle
    <2>2. Ends({})
          BY <2>1 DEF Ends, ExchangeTypes
    <2>3. QED
          BY <2>1, <2>2, OverIdle
  <1>6. ASSUME NEW ret \in BOOLEAN, RespondReturns(ret) \/ TimeoutReturns(ret) PROVE OverInv'
    <2>1. stack # <<>> /\ Top.handler # "unobserve"
          BY <1>6 DEF RespondReturns, TimeoutReturns
    <2>2. NoNewReply /\ ReplyStays(ret)
          BY <1>6, AfterRespond, AfterTimeout
    <2>3. Ends(IF ret THEN {} ELSE {Top.id})
          BY <1>6, ExchangesEnd
    <2>4. QED
          BY <2>1, <2>2, <2>3, OverBelow
  <1>7. CASE DestroyReturns
    <2>1. stack # <<>> /\ Top.handler # "unobserve"
          BY <1>7 DEF DestroyReturns
    <2>2. NoNewReply /\ ReplyStays(FALSE)
          BY <1>7, AfterDestroy
    <2>3. Ends({Top.id})
          BY <1>7, ExchangesEnd
    <2>4. Ends(IF FALSE THEN {} ELSE {Top.id})
          BY <2>3
    <2>5. QED
          BY <2>1, <2>2, <2>4, OverBelow
  <1>8. CASE UnobserveReturns
    <2> DEFINE f == Top
               k == IndexOf(pending, f.id)
               p == Returned(pending, k, f.was_used)
    <2>1. stack # <<>> /\ f.handler = "unobserve" /\ pending' = SOL_REENTRANT_FREE(p, k)
          BY <1>8 DEF UnobserveReturns
    <2>2. /\ Coherent(p, Popped) /\ k \in 1..Len(pending) /\ pending[k].id = f.id
          /\ Len(p) = Len(pending)
          /\ \A j \in 1..Len(pending) : p[j].id = pending[j].id
          BY <2>1, TopReturns
    <2>3. \A l \in 1..Len(Popped) : Walking(Popped[l]) => Popped[l].id = f.id
          BY <2>1, PoppedWalks
    <2>4. \A l \in 1..Len(pending) : l # k => p[l] = pending[l]
      <3> HIDE DEF k, f
      <3>1. QED
            BY <2>2, ReplyTypes DEF Returned
    <2>5. Ends({f.id})
          BY <1>8, ExchangesEnd
    <2> HIDE DEF f, k, p
    <2>6. k \in 1..Len(p) /\ p[k].id = f.id
          BY <2>2
    <2>7. \A l \in 1..Len(p) : l # k /\ exchange[p[l].id] = "over" => p[l].in_use /\ p[l].delete_me
          BY <2>2, <2>4 DEF OverInv
    <2>8. QED
          BY <2>1, <2>2, <2>3, <2>5, <2>6, <2>7, OverFreed, ZenonT(60)
  <1>9. ASSUME NEW kind \in Kinds, NEW stored \in BOOLEAN,
               sol_coap_send_packet_with_reply(kind, stored)
        PROVE  OverInv'
    <2> DEFINE id == request_id + 1
               r == NewReply(id, RequestOf(kind, id))
    <2>1. /\ id <= MaxRequests
          /\ \/ UNCHANGED <<pending, exchange>>
             \/ pending' = Append(pending, r) /\ exchange' = [exchange EXCEPT ![id] = "open"]
          BY <1>9 DEF sol_coap_send_packet_with_reply
    <2>2. CASE pending' = Append(pending, r) /\ exchange' = [exchange EXCEPT ![id] = "open"]
      <3>1. r.id = id
            BY DEF NewReply
      <3>2. id \in Ids
        <4>1. request_id + 1 <= MaxRequests
              BY <2>1
        <4>2. QED
              BY <4>1, NextId
      <3> HIDE DEF id, r
      <3>3. \A i \in Ids : exchange'[i] = "over" => i # id /\ exchange[i] = "over"
            BY <2>2, <3>2 DEF ExchangeTypes
      <3>4. ASSUME NEW j \in 1..Len(pending')
            PROVE  pending'[j] = r \/ (j \in 1..Len(pending) /\ pending'[j] = pending[j])
            BY <1>9, <3>4, RequestSent DEF r, id
      <3>5. ASSUME NEW j \in 1..Len(pending'), exchange'[pending'[j].id] = "over"
            PROVE  pending'[j].in_use /\ pending'[j].delete_me
        <4>1. CASE pending'[j] = r
              BY <3>1, <3>2, <3>3, <3>5, <4>1
        <4>2. CASE j \in 1..Len(pending) /\ pending'[j] = pending[j]
          <5>1. pending[j].id \in Ids
                BY <4>2, ReplyTypes
          <5>2. exchange[pending[j].id] = "over"
                BY <3>3, <3>5, <4>2, <5>1
          <5>3. QED
                BY <4>2, <5>2 DEF OverInv
        <4>3. QED
              BY <3>4, <4>1, <4>2
      <3>6. QED
            BY <3>5 DEF OverInv
    <2>3. QED
          BY <1>1, <2>1, <2>2
  <1>10. ASSUME NEW id \in Ids, sol_coap_cancel_send_packet(id) PROVE OverInv'
    <2> DEFINE k == IndexOf(pending, id)
    <2>1. /\ WalkAllows(id)
          /\ pending' = IF IsPending(pending, id) THEN SOL_REENTRANT_FREE(pending, k) ELSE pending
          BY <1>10 DEF sol_coap_cancel_send_packet, Waits
    <2>2. Ends({id})
          BY <1>10, ExchangesEnd
    <2>3. CASE IsPending(pending, id)
      <3>1. k \in 1..Len(pending) /\ pending[k].id = id
            BY <2>3, ReplyTypes, FoundById
      <3>2. pending' = SOL_REENTRANT_FREE(pending, k)
            BY <2>1, <2>3
      <3>3. \A l \in 1..Len(stack) : Walking(stack[l]) => stack[l].id = id
            BY <2>1, ReplyTypes DEF WalkAllows, Walking, CallbacksKeepRules
      <3> HIDE DEF k
      <3>4. Coherent(pending, stack) /\ Ends({pending[k].id})
            BY <2>2, <3>1 DEF ReplyInv
      <3>5. \A l \in 1..Len(stack) : Walking(stack[l]) => stack[l].id = pending[k].id
            BY <3>1, <3>3
      <3>6. \A l \in 1..Len(pending) : l # k /\ exchange[pending[l].id] = "over" =>
              pending[l].in_use /\ pending[l].delete_me
            BY DEF OverInv
      <3>7. QED
            BY <3>1, <3>2, <3>4, <3>5, <3>6, OverFreed
    <2>4. CASE ~IsPending(pending, id)
      <3>1. pending' = pending
            BY <2>1, <2>4
      <3>2. \A j \in 1..Len(pending) : pending[j].id \in Ids \ {id}
            BY <2>4, ReplyTypes DEF IsPending
      <3>3. QED
            BY <2>2, <3>1, <3>2 DEF OverInv, Ends
    <2>5. QED
          BY <2>3, <2>4
  <1>11. ASSUME NEW id \in Ids, sol_coap_unobserve_by_token(id) PROVE OverInv'
    <2> DEFINE k == IndexOf(pending, id)
    <2>1. /\ IsPending(pending, id) /\ pending' = Called(pending, k)
          /\ exchange' = Hears(exchange, id)
          BY <1>11 DEF sol_coap_unobserve_by_token, Calls
    <2>2. k \in 1..Len(pending)
          BY <2>1, ReplyTypes, FoundById
    <2> HIDE DEF k
    <2>3. /\ Len(pending') = Len(pending)
          /\ \A j \in 1..Len(pending) : /\ pending'[j].id = pending[j].id
                                        /\ pending'[j].delete_me = pending[j].delete_me
                                        /\ pending[j].in_use => pending'[j].in_use
      <3>1. Coherent(pending, stack) /\ NoMsg \in Msg
            BY DEF ReplyInv, NoMsg, Msg, NoToken, NoObserve
      <3>2. /\ Len(pending') = Len(pending)
            /\ \A j \in 1..Len(pending) : /\ pending'[j].id = pending[j].id
                                          /\ pending'[j].delete_me = pending[j].delete_me
            BY <2>1, <2>2, <3>1, CallCoherent DEF Handlers
      <3>3. \A j \in 1..Len(pending) : pending[j].in_use => pending'[j].in_use
            BY <2>1, <2>2, ReplyTypes DEF Called, Reply
      <3>4. QED
            BY <3>2, <3>3
    <2>4. \A i \in Ids : exchange'[i] = "over" => exchange[i] = "over"
          BY <2>1, Heard DEF ExchangeTypes
    <2>5. \A j \in 1..Len(pending) : pending[j].id \in Ids
          BY ReplyTypes
    <2>6. QED
          BY <2>3, <2>4, <2>5 DEF OverInv
  <1>12. QED
         BY <1>2, <1>3, <1>4, <1>5, <1>6, <1>7, <1>8, <1>9, <1>10, <1>11
            DEF Next, Receive, Arrives, Returns, Api

\* No packet that waits to be written is forgotten, and none is tried more often
\* than MAX_RETRANSMIT: whenever one waits without a timeout the socket is
\* monitored (on_can_write(), timeout_cb(), enqueue_packet()).  This needs a
\* sendmsg() that only fails with EAGAIN; after another error on_can_write()
\* turns the monitor off with packets in the queue.
THEOREM PacketsNeverStall ==
  ASSUME CallbacksKeepRules, "send error" \notin Careless
  PROVE  Spec => []NoPacketStalls
  <1> DEFINE Inv == EndpointInv /\ NothingStalls /\ ExchangeTypes
  <1>1. Init => Inv
        BY EndpointInit DEF Init, ExchangeTypes
  <1>2. Inv /\ [Next]_vars => Inv'
    <2> SUFFICES ASSUME Inv, [Next]_vars PROVE Inv'
        OBVIOUS
    <2>1. ReplyInv /\ QueueTypes /\ ObserverInv /\ NothingStalls /\ ExchangeTypes
          BY DEF EndpointInv
    <2>2. ReplyInv' /\ ObserverInv' /\ ExchangeTypes'
          BY <2>1, ReplyStep, ObserverStep, ExchangesEnd
    <2>3. QueueTypes' /\ NothingStalls'
          BY <2>1, <2>2, QueueStep
    <2>4. QED
          BY <2>2, <2>3 DEF EndpointInv
  <1>3. Inv => NoPacketStalls
    <2> SUFFICES ASSUME Inv PROVE NoPacketStalls
        OBVIOUS
    <2>1. ReplyInv /\ QueueTypes /\ ObserverInv /\ NothingStalls /\ ExchangeTypes
          BY DEF EndpointInv
    <2>2. \A l \in DOMAIN stack : stack[l].id \in Ids
          BY <2>1, ReplyTypes DEF FrameType
    <2>3. state \in {"up", "closing", "gone"} /\ request_id \in 0..MaxId
          BY <2>1 DEF ReplyInv
    <2>4. TypeOK
      <3>1. pending \in Seq(Reply)
            BY <2>1, ReplyTypes
      <3>2. outgoing \in Seq(Outgoing) /\ sent \subseteq Packet /\ observers \in Seq(Peers)
            BY <2>1 DEF QueueTypes, ObserverInv
      <3>3. monitor \in BOOLEAN /\ registered \in BOOLEAN
            BY <2>1 DEF NothingStalls, ObserverInv
      <3>4. exchange \in [Ids -> {"none", "open", "heard", "over"}]
            BY <2>1 DEF ExchangeTypes
      <3>5. QED
            BY <2>2, <2>3, <3>1, <3>2, <3>3, <3>4 DEF TypeOK
    <2>5. (\E k \in DOMAIN outgoing : ~outgoing[k].timer) => monitor
      <3>1. SUFFICES ASSUME outgoing \in Seq(Waiting) PROVE \A k \in DOMAIN outgoing : outgoing[k].timer
            BY <2>1 DEF NothingStalls
      <3>2. \A k \in DOMAIN outgoing : outgoing[k] \in Waiting
            BY <3>1, LenProperties, ElementOfSeq
      <3>3. QED
            BY <3>2 DEF Waiting
    <2>6. QED
          BY <2>4, <2>5 DEF NoPacketStalls
  <1>4. QED
        BY <1>1, <1>2, <1>3, PTL DEF Spec

\* At the start there is no reply.
LEMMA OverInit ==
  ASSUME Init
  PROVE  OverInv
  <1>1. Len(pending) = 0
        BY DEF Init
  <1>2. \A j \in 1..0 : FALSE
        OBVIOUS
  <1>3. QED
        BY <1>1, <1>2 DEF OverInv

\* Every step calls back only for replies that are there.
LEMMA CalledForPending ==
  ASSUME ReplyInv, QueueTypes, CallbacksKeepRules, [Next]_vars, NEW id \in InCallback' \ InCallback
  PROVE  \E j \in 1..Len(pending) : pending[j].id = id
  <1>1. ReplyInv'
        BY ReplyStep
  <1>2. PICK j \in 1..Len(pending') : pending'[j].id = id
    <2>1. PICK l \in DOMAIN stack' : stack'[l].id = id
          BY DEF InCallback
    <2>2. stack' \in Seq(FrameType) /\ Coherent(pending', stack')
          BY <1>1 DEF ReplyInv, Coherent
    <2>3. l \in 1..Len(stack')
          BY <2>1, <2>2, LenProperties
    <2>4. QED
          BY <2>1, <2>2, <2>3 DEF Coherent
  <1>3. CASE NoNewReply
        BY <1>2, <1>3 DEF NoNewReply
  <1>4. CASE InCallback' = InCallback
        BY <1>4
  <1>5. CASE \/ UNCHANGED vars
             \/ \E result \in SendResults : on_can_write(result)
             \/ \E k \in DOMAIN outgoing : timeout_cb(k)
             \/ RegisterResource \/ UnregisterResource \/ sol_coap_notify
             \/ ReceivePing \/ ReceiveUnknown \/ \E r \in sent : ReceiveEmpty(r.id)
             \/ \E peer \in Peers, observe \in {NoObserve, 0, 1}, answers \in BOOLEAN :
                  ReceiveRequest(peer, observe, answers)
    <2>1. stack' = stack
          BY <1>5 DEF vars, on_can_write, timeout_cb, RegisterResource, UnregisterResource,
             sol_coap_notify, ReceivePing, ReceiveUnknown, ReceiveEmpty, ReceiveRequest
    <2>2. QED
          BY <1>4, <2>1 DEF InCallback
  <1>6. CASE \E i \in Ids : pending_timeout_cb(i)
        BY <1>3, <1>6, TimeoutCalls
  <1>7. CASE \E msg \in Responses : ReceiveResponse(msg)
        BY <1>3, <1>7, ResponsesTyped, ResponseArrives DEF QueueTypes
  <1>8. CASE Returns
        BY <1>3, <1>8, AfterRespond, AfterTimeout, AfterUnobserve, AfterDestroy DEF Returns
  <1>9. CASE sol_coap_server_destroy
        BY <1>3, <1>9, DestroyBegins
  <1>10. CASE \E kind \in Kinds, stored \in BOOLEAN : sol_coap_send_packet_with_reply(kind, stored)
        BY <1>4, <1>10, RequestSent
  <1>11. CASE \E i \in Ids : sol_coap_cancel_send_packet(i) \/ sol_coap_unobserve_by_token(i)
        BY <1>3, <1>11, RequestCancelled, UnobserveCalls
  <1>12. QED
         BY <1>5, <1>6, <1>7, <1>8, <1>9, <1>10, <1>11 DEF Next, Receive, Arrives, Api

\* After a callback has returned false, or its request was cancelled or
\* unobserved, it is not called again by a late or duplicated answer, the timeout
\* or sol_coap_server_destroy().  This needs callbacks that do not return true
\* after they have cancelled their own request: respond_packet() does not look.
THEOREM NeverCalledAfterEnd ==
  ASSUME CallbacksKeepRules, "true after cancel" \notin Careless
  PROVE  Spec => NoCallAfterEnd
  <1> DEFINE Inv == EndpointInv /\ ExchangeTypes /\ OverInv
  <1>1. Init => Inv
    <2> SUFFICES ASSUME Init PROVE Inv
        OBVIOUS
    <2>1. EndpointInv /\ ExchangeTypes
          BY EndpointInit DEF Init, ExchangeTypes
    <2>2. QED
          BY <2>1, OverInit
  <1>2. Inv /\ [Next]_vars => Inv'
    <2> SUFFICES ASSUME Inv, [Next]_vars PROVE Inv'
        OBVIOUS
    <2>1. ReplyInv /\ QueueTypes /\ ObserverInv /\ ExchangeTypes /\ OverInv
          BY DEF EndpointInv
    <2>2. ReplyInv' /\ ObserverInv' /\ ExchangeTypes'
          BY <2>1, ReplyStep, ObserverStep, ExchangesEnd
    <2>3. QueueTypes'
          BY <2>1, <2>2, QueueStep
    <2>4. OverInv'
          BY <2>1, OverStep
    <2>5. QED
          BY <2>2, <2>3, <2>4 DEF EndpointInv
  <1>3. Inv /\ [Next]_vars => [\A id \in InCallback' \ InCallback : exchange[id] # "over"]_vars
    <2> SUFFICES ASSUME Inv, [Next]_vars, NEW id \in InCallback' \ InCallback PROVE exchange[id] # "over"
        OBVIOUS
    <2>1. ReplyInv /\ QueueTypes /\ OverInv
          BY DEF EndpointInv
    <2>2. PICK j \in 1..Len(pending) : pending[j].id = id
          BY <2>1, CalledForPending
    <2>3. ~InUse(stack, id)
          BY <2>1, ReplyTypes DEF InUse, InCallback
    <2>4. ~pending[j].in_use
          BY <2>1, <2>2, <2>3 DEF ReplyInv, Coherent
    <2>5. QED
          BY <2>1, <2>2, <2>4 DEF OverInv
  <1>4. QED
        BY <1>1, <1>2, <1>3, PTL DEF Spec, NoCallAfterEnd
=============================================================================
