--------------------------- MODULE SerialHubProofs ---------------------------
(***************************************************************************)
(* Proofs about SerialHub, for every pool size, number of devices, set of  *)
(* addresses and set of numbers: types, SingleOwner, AnswersMatch,         *)
(* OnlyInfoLoses and BroadcastComplete.                                    *)
(***************************************************************************)
EXTENDS SerialHub, QueueLemmas, SequenceTheorems, FiniteSetTheorems, TLAPS

-----------------------------------------------------------------------------
\* A queue of descriptors without repetitions is no longer than the pool.
LEMMA FitsPool ==
  ASSUME NEW q \in Seq(Requests), IsInjective(q)
  PROVE  Len(q) \in 0..PoolSize
BY SizeAssumption, Pigeonhole DEF Requests
-----------------------------------------------------------------------------
(* One packet takes one descriptor. *)

\* The first free descriptor is nobody's token, and constructing a request in it
\* touches no other descriptor.
LEMMA Taken ==
  ASSUME IndInv, Accepts, NEW n \in Number, NEW a \in Target
  PROVE  /\ Head(pool) \in Requests
         /\ Head(pool) \notin held
         /\ Tail(pool) \in Seq(Requests)
         /\ IsInjective(Tail(pool))
         /\ Range(Tail(pool)) = Range(pool) \ {Head(pool)}
         /\ Allocated(n, a) \in [Requests -> Descriptor]
         /\ Allocated(n, a)[Head(pool)] = [destination |-> a, refs |-> 0, number |-> n]
         /\ \A d \in Requests \ {Head(pool)} : Allocated(n, a)[d] = request[d]
<1>1. /\ pool \in Seq(Requests) /\ pool # <<>> /\ IsInjective(pool)
      /\ Range(pool) \cap held = {}
      /\ request \in [Requests -> Descriptor]
  BY DEF IndInv, TypeOK, SingleOwner, Accepts
<1>2. /\ Head(pool) \in Requests
      /\ Head(pool) \in Range(pool)
      /\ Tail(pool) \in Seq(Requests)
      /\ IsInjective(Tail(pool))
      /\ Range(Tail(pool)) = Range(pool) \ {Head(pool)}
  BY <1>1, TakeFirst
<1>3. Fresh(n, a, request[Head(pool)]) = [destination |-> a, refs |-> 0, number |-> n]
  BY DEF Fresh
<1>4. [destination |-> a, refs |-> 0, number |-> n]
        \in Descriptor
  BY DEF Descriptor
<1>5. Head(pool) \notin held
  BY <1>1, <1>2
<1>6. Allocated(n, a) =
        [request EXCEPT ![Head(pool)] = [destination |-> a, refs |-> 0, number |-> n]]
  BY <1>3, Zenon DEF Allocated
<1>8. /\ Allocated(n, a) \in [Requests -> Descriptor]
      /\ Allocated(n, a)[Head(pool)] = [destination |-> a, refs |-> 0, number |-> n]
      /\ \A d \in Requests \ {Head(pool)} : Allocated(n, a)[d] = request[d]
  BY <1>1, <1>2, <1>4, <1>6, Overwritten
<1> QED BY <1>2, <1>5, <1>8

\* A descriptor that goes back in the call that took it leaves the same
\* descriptors free.
LEMMA Rotated ==
  ASSUME IndInv, Accepts
  PROVE  /\ Returned(Tail(pool), Head(pool), 0) \in Seq(Requests)
         /\ IsInjective(Returned(Tail(pool), Head(pool), 0))
         /\ Range(Returned(Tail(pool), Head(pool), 0)) = Range(pool)
<1>1. /\ pool \in Seq(Requests) /\ pool # <<>> /\ IsInjective(pool)
  BY DEF IndInv, TypeOK, SingleOwner, Accepts
<1>2. /\ Head(pool) \in Requests
      /\ Head(pool) \in Range(pool)
      /\ Tail(pool) \in Seq(Requests)
      /\ IsInjective(Tail(pool))
      /\ Range(Tail(pool)) = Range(pool) \ {Head(pool)}
  BY <1>1, TakeFirst
<1>3. Head(pool) \notin Range(Tail(pool))
  BY <1>2
<1>4. /\ Append(Tail(pool), Head(pool)) \in Seq(Requests)
      /\ IsInjective(Append(Tail(pool), Head(pool)))
      /\ Range(Append(Tail(pool), Head(pool))) = Range(Tail(pool)) \union {Head(pool)}
  <2> DEFINE left == Tail(pool)
             d    == Head(pool)
  <2>1. left \in Seq(Requests) /\ IsInjective(left) /\ d \in Requests /\ d \notin Range(left)
    BY <1>2, <1>3
  <2> HIDE DEF left, d
  <2>2. /\ Append(left, d) \in Seq(Requests)
        /\ IsInjective(Append(left, d))
        /\ Range(Append(left, d)) = Range(left) \union {d}
    BY <2>1, GiveBack
  <2> QED BY <2>2 DEF left, d
<1>5. Returned(Tail(pool), Head(pool), 0) = Append(Tail(pool), Head(pool))
  BY DEF Returned
<1> QED BY <1>2, <1>4, <1>5

\* The accounts of the host stay right when neither the descriptors that are
\* held nor what is owed changes.
LEMMA AccountsKept ==
  ASSUME AnswersMatch, held' = held, owed' = owed,
         \A d \in held : request'[d] = request[d]
  PROVE  AnswersMatch'
<1>1. ASSUME NEW h \in Header
      PROVE  Keeping(h)' = Keeping(h)
  BY DEF Keeping, Reply
<1>2. Header' = Header
  BY DEF Header
<1> QED BY <1>1, <1>2, Zenon DEF AnswersMatch

\* The headers responses are made with are headers the host may have sent.
LEMMA ReplyIsHeader ==
  ASSUME NEW r \in Descriptor
  PROVE  Reply(r) \in Header
BY DEF Reply, Header, Descriptor

\* What the hub leaves in a token is a descriptor.
LEMMA MarkedDescriptor ==
  ASSUME NEW r \in Descriptor, NEW a \in Target, NEW k \in 0..255
  PROVE  [r EXCEPT !.destination = a, !.refs = k] \in Descriptor
BY DEF Descriptor

\* The descriptors devices hold are finitely many.
LEMMA HeldFinite ==
  ASSUME held \in SUBSET Requests
  PROVE  IsFiniteSet(held)
<1>1. IsFiniteSet(Requests)
  BY SizeAssumption, FS_Interval DEF Requests
<1> QED BY <1>1, FS_Subset

\* One more descriptor held, one more answer owed under its header.
LEMMA AccountsMore ==
  ASSUME AnswersMatch, owed \in [Header -> Int], held \in SUBSET Requests,
         NEW d \in Requests \ held, held' = held \union {d},
         \A e \in held : request'[e] = request[e],
         NEW h \in Header, Reply(request'[d]) = h, owed' = Owe(h)
  PROVE  AnswersMatch'
<1>1. \A k \in Header : Keeping(k)' = IF k = h THEN Keeping(k) \union {d} ELSE Keeping(k)
  BY DEF Keeping, Reply
<1>2. \A k \in Header : /\ IsFiniteSet(Keeping(k)) /\ d \notin Keeping(k)
                       /\ Cardinality(Keeping(k)) = owed[k]
  BY HeldFinite, FS_Subset DEF Keeping, AnswersMatch
<1>3. \A k \in Header : Cardinality(Keeping(k) \union {d}) = owed[k] + 1
  BY <1>2, FS_AddElement
<1>4. \A k \in Header : owed'[k] = IF k = h THEN owed[k] + 1 ELSE owed[k]
  BY DEF Owe
<1>5. \A k \in Header : owed'[k] = Cardinality(Keeping(k)')
  BY <1>1, <1>2, <1>3, <1>4
<1>6. Header' = Header
  BY DEF Header
<1> QED BY <1>5, <1>6, Zenon DEF AnswersMatch

\* One descriptor less, one answer less under its header.
LEMMA AccountsFewer ==
  ASSUME AnswersMatch, owed \in [Header -> Int], held \in SUBSET Requests,
         NEW d \in held, held' = held \ {d}, request' = request,
         NEW h \in Header, Reply(request[d]) = h, owed' = Settled(owed, h)
  PROVE  AnswersMatch'
<1>1. \A k \in Header : Keeping(k)' = IF k = h THEN Keeping(k) \ {d} ELSE Keeping(k)
  BY DEF Keeping, Reply
<1>2. /\ \A k \in Header : /\ IsFiniteSet(Keeping(k))
                          /\ Cardinality(Keeping(k)) = owed[k]
      /\ d \in Keeping(h)
  BY HeldFinite, FS_Subset DEF Keeping, AnswersMatch
<1>3. Cardinality(Keeping(h) \ {d}) = owed[h] - 1
  <2>1. IsFiniteSet(Keeping(h)) /\ d \in Keeping(h) /\ Cardinality(Keeping(h)) = owed[h]
    BY <1>2
  <2>2. Cardinality(Keeping(h) \ {d}) = Cardinality(Keeping(h)) - 1
    BY <2>1, FS_RemoveElement
  <2> QED BY <2>1, <2>2
<1>4. \A k \in Header : owed'[k] = IF k = h THEN owed[k] - 1 ELSE owed[k]
  BY DEF Settled
<1>5. \A k \in Header : owed'[k] = Cardinality(Keeping(k)')
  BY <1>1, <1>2, <1>3, <1>4
<1>6. Header' = Header
  BY DEF Header
<1> QED BY <1>5, <1>6, Zenon DEF AnswersMatch

\* An account that rises and falls by one is as it was.
LEMMA UpAndDown ==
  ASSUME NEW S, NEW f \in [S -> Int], NEW x \in S
  PROVE  [[f EXCEPT ![x] = @ + 1] EXCEPT ![x] = @ - 1] = f
<1> DEFINE g == [[f EXCEPT ![x] = @ + 1] EXCEPT ![x] = @ - 1]
<1>1. g \in [S -> Int]
  OBVIOUS
<1>2. \A y \in S : g[y] = f[y]
  OBVIOUS
<1> HIDE DEF g
<1>3. g = f
  BY <1>1, <1>2
<1> QED BY <1>3 DEF g

-----------------------------------------------------------------------------
(* The invariant. *)

\* Initially every descriptor is free and nothing is owed.
LEMMA InitInvariant == Init => IndInv
<1> SUFFICES ASSUME Init PROVE IndInv
  OBVIOUS
<1>1. pool \in Seq(Requests) /\ IsInjective(pool)
  <2>1. pool = [i \in 1..PoolSize |-> i] /\ PoolSize \in Nat
    BY SizeAssumption DEF Init, Requests
  <2>2. pool \in Seq(Requests)
    BY <2>1 DEF Requests
  <2>3. IsInjective(pool)
    BY <2>1 DEF IsInjective
  <2> QED BY <2>2, <2>3
<1>2. Len(pool) \in 0..PoolSize
  BY <1>1, FitsPool
<1>3. request \in [Requests -> Descriptor]
  BY SizeAssumption DEF Init, Fresh, Target, Descriptor
<1>4. /\ held \in SUBSET Requests
      /\ address \in [Elements -> Target]
      /\ pc \in {"idle", "hub"} /\ index \in Elements /\ token \in Requests
      /\ asked \in Header /\ named \in Seq(Header)
      /\ owed \in [Header -> Int]
  BY SizeAssumption DEF Init, Header, Target, Elements, Requests
<1>5. AnswersMatch
  <2>1. \A h \in Header : Keeping(h) = {} /\ owed[h] = 0
    BY DEF Init, Keeping
  <2> QED BY <2>1, FS_EmptySet DEF AnswersMatch
<1> QED BY <1>1, <1>2, <1>3, <1>4, <1>5
        DEF Init, IndInv, TypeOK, SingleOwner, WalkOwnsToken, HeldUncounted

\* A packet that is ignored: its descriptor goes to the end of the queue.
LEMMA IgnoreStep ==
  ASSUME IndInv, NEW n \in Number, NEW a \in Target, Ignore(n, a)
  PROVE  IndInv'
<1> USE DEF Ignore
<1>1. /\ request' \in [Requests -> Descriptor]
      /\ \A d \in held : d \in Requests /\ request'[d] = request[d]
  <2>1. Accepts /\ request' = Allocated(n, a) /\ held \in SUBSET Requests
    BY DEF IndInv, TypeOK
  <2>2. /\ Head(pool) \in Requests /\ Head(pool) \notin held
        /\ Allocated(n, a) \in [Requests -> Descriptor]
        /\ \A d \in Requests \ {Head(pool)} : Allocated(n, a)[d] = request[d]
    BY <2>1, Taken
  <2> QED BY <2>1, <2>2
<1>2. pool' \in Seq(Requests) /\ IsInjective(pool') /\ Range(pool') = Range(pool)
  BY Rotated
<1>3. Len(pool') \in 0..PoolSize
  BY <1>2, FitsPool
<1>4. TypeOK'
  BY <1>1, <1>2, <1>3 DEF IndInv, TypeOK, infoVars
<1>5. SingleOwner' /\ WalkOwnsToken'
  BY <1>2 DEF IndInv, SingleOwner, WalkOwnsToken, Accepts, infoVars
<1>6. HeldUncounted'
  BY <1>1 DEF IndInv, HeldUncounted
<1>7. AnswersMatch'
  BY <1>1, AccountsKept DEF IndInv
<1> QED BY <1>4, <1>5, <1>6, <1>7 DEF IndInv

\* An answer inside the call: as before, and what is owed rises and falls by the
\* same header.
LEMMA AnswerStep ==
  ASSUME IndInv, NEW n \in Number, NEW a \in Target, Answer(n, a)
  PROVE  IndInv' /\ Range(pool') = Range(pool)
<1> USE DEF Answer
<1>1. /\ request' \in [Requests -> Descriptor]
      /\ \A d \in held : d \in Requests /\ request'[d] = request[d]
      /\ request'[Head(pool)] = [destination |-> a, refs |-> 0, number |-> n]
  BY Taken DEF IndInv, TypeOK
<1>2. pool' \in Seq(Requests) /\ IsInjective(pool') /\ Range(pool') = Range(pool)
  BY <1>1, Rotated
<1>3. Len(pool') \in 0..PoolSize
  BY <1>2, FitsPool
<1>4. owed' = owed
  <2>1. Reply(request'[Head(pool)]) = [number |-> n, address |-> a]
    BY <1>1 DEF Reply
  <2>2. [number |-> n, address |-> a] \in Header
    BY DEF Header
  <2>3. owed \in [Header -> Int]
    BY DEF IndInv, TypeOK
  <2> QED BY <2>1, <2>2, <2>3, UpAndDown DEF Owe, Settled
<1>5. TypeOK'
  BY <1>1, <1>2, <1>3, <1>4 DEF IndInv, TypeOK, infoVars
<1>6. SingleOwner' /\ WalkOwnsToken'
  BY <1>2 DEF IndInv, SingleOwner, WalkOwnsToken, Accepts, infoVars
<1>7. HeldUncounted'
  BY <1>1 DEF IndInv, HeldUncounted
<1>8. AnswersMatch'
  BY <1>1, <1>4, AccountsKept DEF IndInv
<1> QED BY <1>2, <1>5, <1>6, <1>7, <1>8 DEF IndInv

\* A device keeps the descriptor: it moves from the free ones to the held ones.
LEMMA QueueStep ==
  ASSUME IndInv, NEW n \in Number, NEW a \in Target, Queue(n, a)
  PROVE  IndInv' /\ Range(pool') \union held' = Range(pool) \union held
<1> USE DEF Queue
<1>1. /\ Head(pool) \in Requests /\ Head(pool) \notin held
      /\ request' \in [Requests -> Descriptor]
      /\ \A d \in held : d \in Requests /\ request'[d] = request[d]
      /\ request'[Head(pool)] = [destination |-> a, refs |-> 0, number |-> n]
  BY Taken DEF IndInv, TypeOK
<1>2. /\ pool' \in Seq(Requests) /\ IsInjective(pool')
      /\ Range(pool') = Range(pool) \ {Head(pool)}
  BY Taken
<1>3. Len(pool') \in 0..PoolSize
  BY <1>2, FitsPool
<1>4. [number |-> n, address |-> a] \in Header /\ owed \in [Header -> Int]
  BY DEF Header, IndInv, TypeOK
<1>5. owed' \in [Header -> Int]
  BY <1>4 DEF Owe
<1>6. TypeOK'
  BY <1>1, <1>2, <1>3, <1>5 DEF IndInv, TypeOK, infoVars
<1>7. SingleOwner' /\ WalkOwnsToken'
  BY <1>2 DEF IndInv, SingleOwner, WalkOwnsToken, Accepts, infoVars
<1>8. HeldUncounted'
  BY <1>1 DEF IndInv, HeldUncounted
<1>9. AnswersMatch'
  <2>1. Reply(request'[Head(pool)]) = [number |-> n, address |-> a]
    BY <1>1 DEF Reply
  <2>2. AnswersMatch /\ held \in SUBSET Requests
    BY DEF IndInv, TypeOK
  <2> QED BY <1>1, <1>4, <2>1, <2>2, AccountsMore
<1>10. Head(pool) \in Range(pool)
  BY TakeFirst DEF IndInv, TypeOK, SingleOwner, Accepts
<1> QED BY <1>2, <1>6, <1>7, <1>8, <1>9, <1>10 DEF IndInv

\* A late callback: the descriptor moves from the held ones to the free ones.
LEMMA CompleteStep ==
  ASSUME IndInv, NEW d \in Requests, Complete(d)
  PROVE  IndInv' /\ Range(pool') \union held' = Range(pool) \union held
<1> USE DEF Complete
<1>1. /\ d \in held /\ request[d].refs = 0 /\ d \notin Range(pool)
      /\ pool \in Seq(Requests) /\ IsInjective(pool)
  BY DEF IndInv, TypeOK, HeldUncounted, SingleOwner
<1>2. pool' = Append(pool, d)
  BY <1>1 DEF Returned
<1>3. /\ pool' \in Seq(Requests) /\ IsInjective(pool')
      /\ Range(pool') = Range(pool) \union {d}
  <2>1. /\ Append(pool, d) \in Seq(Requests) /\ IsInjective(Append(pool, d))
        /\ Range(Append(pool, d)) = Range(pool) \union {d}
    BY <1>1, GiveBack
  <2> QED BY <1>2, <2>1, Zenon
<1>4. Len(pool') \in 0..PoolSize
  BY <1>3, FitsPool
<1>5. Reply(request[d]) \in Header /\ owed \in [Header -> Int]
  BY ReplyIsHeader DEF IndInv, TypeOK
<1>6. owed' \in [Header -> Int]
  BY <1>5 DEF Settled
<1>7. TypeOK'
  BY <1>3, <1>4, <1>6 DEF IndInv, TypeOK, infoVars
<1>8. SingleOwner' /\ WalkOwnsToken'
  BY <1>1, <1>3 DEF IndInv, SingleOwner, WalkOwnsToken, infoVars
<1>9. HeldUncounted'
  BY DEF IndInv, HeldUncounted
<1>10. AnswersMatch'
  <2>1. AnswersMatch /\ held \in SUBSET Requests
    BY DEF IndInv, TypeOK
  <2> QED BY <1>1, <1>5, <2>1, AccountsFewer
<1> QED BY <1>1, <1>3, <1>7, <1>8, <1>9, <1>10 DEF IndInv

\* GET_DEVICE_INFO: the walk takes the descriptor, which nobody else has.
LEMMA AskStep ==
  ASSUME IndInv, NEW n \in Number, NEW a \in Target, AskInfo(n, a)
  PROVE  IndInv'
<1> USE DEF AskInfo
<1>1. /\ Head(pool) \in Requests /\ Head(pool) \notin held
      /\ request' \in [Requests -> Descriptor]
      /\ \A d \in held : d \in Requests /\ request'[d] = request[d]
  <2>1. Accepts /\ request' = Allocated(n, a) /\ held \in SUBSET Requests
    BY DEF IndInv, TypeOK
  <2>2. /\ Head(pool) \in Requests /\ Head(pool) \notin held
        /\ Allocated(n, a) \in [Requests -> Descriptor]
        /\ \A d \in Requests \ {Head(pool)} : Allocated(n, a)[d] = request[d]
    BY <2>1, Taken
  <2> QED BY <2>1, <2>2
<1>2. /\ pool' \in Seq(Requests) /\ IsInjective(pool')
      /\ Range(pool') = Range(pool) \ {Head(pool)}
  BY Taken
<1>3. Len(pool') \in 0..PoolSize
  BY <1>2, FitsPool
<1>4. /\ pc' = "hub" /\ index' \in Elements /\ token' \in Requests
      /\ asked' \in Header /\ named' \in Seq(Header)
  BY <1>1, SizeAssumption DEF Elements, Header
<1>5. TypeOK'
  BY <1>1, <1>2, <1>3, <1>4 DEF IndInv, TypeOK
<1>6. SingleOwner'
  BY <1>2 DEF IndInv, SingleOwner
<1>7. WalkOwnsToken'
  BY <1>1, <1>2 DEF WalkOwnsToken
<1>8. HeldUncounted'
  BY <1>1 DEF IndInv, HeldUncounted
<1>9. AnswersMatch'
  BY <1>1, AccountsKept DEF IndInv
<1> QED BY <1>5, <1>6, <1>7, <1>8, <1>9 DEF IndInv

\* One element of the hub.  The first one may return the token, which it finds
\* taken; a later one leaves a reference count that keeps free() from doing so.
LEMMA VisitStep ==
  ASSUME IndInv, Visit
  PROVE  IndInv'
<1>1. /\ pc = "hub" /\ index \in Elements /\ token \in Requests \ held
      /\ pool \in Seq(Requests) /\ IsInjective(pool)
      /\ index = 1 => token \notin Range(pool)
      /\ request \in [Requests -> Descriptor]
      /\ named \in Seq(Header)
  BY DEF IndInv, TypeOK, SingleOwner, WalkOwnsToken, Visit, Inform, Skip
<1>2. /\ held' = held /\ address' = address /\ token' = token /\ asked' = asked
      /\ owed' = owed
  BY DEF Visit
<1>3. /\ pool' \in Seq(Requests) /\ IsInjective(pool')
      /\ Range(pool') \subseteq Range(pool) \union {token}
  <2>1. CASE Skip
    BY <1>1, <2>1 DEF Skip
  <2>2. CASE Inform /\ index = 1
    <3>1. /\ Append(pool, token) \in Seq(Requests) /\ IsInjective(Append(pool, token))
          /\ Range(Append(pool, token)) = Range(pool) \union {token}
      BY <1>1, <2>2, GiveBack
    <3>2. pool' = Append(pool, token)
      BY <2>2 DEF Inform, Returned
    <3> QED BY <3>1, <3>2, Zenon
  <2>3. CASE Inform /\ index # 1
    <3>1. pool' = pool
      BY <1>1, <2>3 DEF Inform, Returned, Elements
    <3> QED BY <1>1, <3>1
  <2> QED BY <2>1, <2>2, <2>3 DEF Visit
<1>4. Len(pool') \in 0..PoolSize
  BY <1>3, FitsPool
<1>5. /\ request' \in [Requests -> Descriptor]
      /\ \A d \in held : request'[d] = request[d]
      /\ named' \in Seq(Header)
  <2>1. CASE Skip
    BY <1>1, <2>1 DEF Skip
  <2>2. CASE Inform
    <3>1. address[index] \in Target /\ index - 1 \in 0..255
      BY <1>1, SizeAssumption DEF IndInv, TypeOK, Elements
    <3>2. [request[token] EXCEPT !.destination = address[index], !.refs = index - 1]
            \in Descriptor
      BY <1>1, <3>1, MarkedDescriptor
    <3>3. request' = [request EXCEPT ![token] =
            [request[token] EXCEPT !.destination = address[index], !.refs = index - 1]]
      BY <2>2 DEF Inform
    <3>4. /\ request' \in [Requests -> Descriptor]
          /\ \A d \in Requests \ {token} : request'[d] = request[d]
      BY <1>1, <3>2, <3>3, Overwritten
    <3>5. held \in SUBSET Requests
      BY DEF IndInv, TypeOK
    <3>6. Reply(request'[token]) \in Header
      BY <1>1, <3>4, ReplyIsHeader
    <3>7. named' \in Seq(Header)
      BY <1>1, <2>2, <3>6, AppendProperties DEF Inform
    <3> QED BY <1>1, <3>4, <3>5, <3>7
  <2> QED BY <2>1, <2>2 DEF Visit
<1>6. /\ pc' \in {"idle", "hub"} /\ index' \in Elements
      /\ pc' = "hub" => index' # 1
  BY <1>1, SizeAssumption DEF Visit, Advance, Elements
<1>7. TypeOK'
  BY <1>1, <1>2, <1>3, <1>4, <1>5, <1>6 DEF IndInv, TypeOK
<1>8. SingleOwner'
  BY <1>1, <1>2, <1>3 DEF IndInv, SingleOwner
<1>9. WalkOwnsToken'
  BY <1>1, <1>2, <1>6 DEF WalkOwnsToken
<1>10. HeldUncounted'
  BY <1>2, <1>5 DEF IndInv, HeldUncounted
<1>11. AnswersMatch'
  BY <1>2, <1>5, AccountsKept DEF IndInv
<1> QED BY <1>7, <1>8, <1>9, <1>10, <1>11 DEF IndInv

\* A device's address has no part in the invariant but its type.
LEMMA AssignStep ==
  ASSUME IndInv, NEW i \in Elements, NEW a \in Target, Assign(i, a)
  PROVE  IndInv'
<1> USE DEF Assign
<1>1. TypeOK'
  BY DEF IndInv, TypeOK, infoVars
<1>2. SingleOwner' /\ WalkOwnsToken' /\ HeldUncounted'
  BY DEF IndInv, SingleOwner, WalkOwnsToken, HeldUncounted, infoVars
<1>3. AnswersMatch'
  BY AccountsKept DEF IndInv
<1> QED BY <1>1, <1>2, <1>3 DEF IndInv

\* A step that changes nothing keeps the invariant.
LEMMA StutterStep ==
  ASSUME IndInv, UNCHANGED vars
  PROVE  IndInv'
<1> USE DEF vars, infoVars
<1>1. TypeOK' /\ SingleOwner' /\ WalkOwnsToken' /\ HeldUncounted'
  BY DEF IndInv, TypeOK, SingleOwner, WalkOwnsToken, HeldUncounted
<1>2. AnswersMatch'
  BY AccountsKept DEF IndInv
<1> QED BY <1>1, <1>2 DEF IndInv

\* Every step keeps the invariant.
LEMMA NextInvariant == IndInv /\ [Next]_vars => IndInv'
<1> SUFFICES ASSUME IndInv, [Next]_vars PROVE IndInv'
  OBVIOUS
<1>1. ASSUME NEW n \in Number, NEW a \in Target, Ignore(n, a) PROVE IndInv'
  BY <1>1, IgnoreStep
<1>2. ASSUME NEW n \in Number, NEW a \in Target, Answer(n, a) PROVE IndInv'
  BY <1>2, AnswerStep
<1>3. ASSUME NEW n \in Number, NEW a \in Target, Queue(n, a) PROVE IndInv'
  BY <1>3, QueueStep
<1>4. ASSUME NEW n \in Number, NEW a \in Target, AskInfo(n, a) PROVE IndInv'
  BY <1>4, AskStep
<1>5. ASSUME NEW d \in Requests, Complete(d) PROVE IndInv'
  BY <1>5, CompleteStep
<1>6. CASE Visit
  BY <1>6, VisitStep
<1>7. ASSUME NEW i \in Elements, NEW a \in Target, Assign(i, a) PROVE IndInv'
  BY <1>7, AssignStep
<1>8. CASE UNCHANGED vars
  BY <1>8, StutterStep
<1> QED BY <1>1, <1>2, <1>3, <1>4, <1>5, <1>6, <1>7, <1>8 DEF Next

-----------------------------------------------------------------------------
(* The theorems. *)

\* The inductive invariant holds in every reachable state.
THEOREM Invariance == Spec => []IndInv
<1> QED BY InitInvariant, NextInvariant, PTL DEF Spec

\* Every variable keeps its type, and the queue of free descriptors never takes
\* more than the pool has (the assertion of Queue.hpp:50).
THEOREM TypeCorrect == Spec => []TypeOK
<1>1. IndInv => TypeOK
  BY DEF IndInv
<1> QED BY <1>1, Invariance, PTL

\* No descriptor is free twice, or free while a device holds it.
THEOREM Ownership == Spec => []SingleOwner
<1>1. IndInv => SingleOwner
  BY DEF IndInv
<1> QED BY <1>1, Invariance, PTL

\* The descriptors devices hold account exactly for the data requests that wait.
THEOREM Accounting == Spec => []AnswersMatch
<1>1. IndInv => AnswersMatch
  BY DEF IndInv
<1> QED BY <1>1, Invariance, PTL

\* Outside the walk of GET_DEVICE_INFO no step loses a descriptor or finds one
\* again: free and held ones together stay the same.
THEOREM DataLosesNothing == Spec => OnlyInfoLoses
<1>1. ASSUME IndInv, [Next]_vars
      PROVE  Lost' # Lost => "hub" \in {pc, pc'}
  <2>1. ASSUME NEW n \in Number, NEW a \in Target, Ignore(n, a)
        PROVE  Lost' = Lost
    <3>1. Range(pool') = Range(pool) /\ held' = held
      BY <1>1, <2>1, Rotated DEF Ignore
    <3> QED BY <3>1 DEF Lost, Requests
  <2>2. ASSUME NEW n \in Number, NEW a \in Target, Answer(n, a)
        PROVE  Lost' = Lost
    <3>1. Range(pool') = Range(pool) /\ held' = held
      BY <1>1, <2>2, AnswerStep DEF Answer
    <3> QED BY <3>1 DEF Lost, Requests
  <2>3. ASSUME NEW n \in Number, NEW a \in Target, Queue(n, a)
        PROVE  Lost' = Lost
    <3>1. Range(pool') \union held' = Range(pool) \union held
      BY <1>1, <2>3, QueueStep
    <3> QED BY <3>1 DEF Lost, Requests
  <2>4. ASSUME NEW d \in Requests, Complete(d)
        PROVE  Lost' = Lost
    <3>1. Range(pool') \union held' = Range(pool) \union held
      BY <1>1, <2>4, CompleteStep
    <3> QED BY <3>1 DEF Lost, Requests
  <2>5. ASSUME NEW n \in Number, NEW a \in Target, AskInfo(n, a)
        PROVE  pc' = "hub"
    BY <2>5 DEF AskInfo
  <2>6. CASE Visit
    BY <2>6 DEF Visit, Inform, Skip
  <2>7. ASSUME NEW i \in Elements, NEW a \in Target, Assign(i, a)
        PROVE  Lost' = Lost
    BY <2>7 DEF Assign, Lost, Requests
  <2>8. CASE UNCHANGED vars
    BY <2>8 DEF vars, Lost, Requests
  <2> QED BY <1>1, <2>1, <2>2, <2>3, <2>4, <2>5, <2>6, <2>7, <2>8 DEF Next
<1>2. IndInv /\ [Next]_vars => [Lost' # Lost => "hub" \in {pc, pc'}]_vars
  BY <1>1
<1> QED BY <1>2, Invariance, PTL DEF Spec, OnlyInfoLoses

-----------------------------------------------------------------------------
(* The walk of a broadcast. *)

\* Whatever the descriptor has gone through, the token of the walk keeps the number
\* the host gave, and the elements that were passed have answered.
WalkAnswers ==
  pc = "hub" => /\ request[token].number = asked.number
                /\ asked.address = Reserved => Introduced(named, index - 1)

\* One element more: it is silent without an address, or its response is the next one.
LEMMA OneMoreIntroduced ==
  ASSUME NEW m \in Elements, NEW s \in Seq(Header), Introduced(s, m - 1)
  PROVE  /\ address[m] = Reserved => Introduced(s, m)
         /\ \A r \in Header : address[m] # Reserved
                              /\ r = [number |-> asked.number, address |-> address[m]]
                                => Introduced(Append(s, r), m)
<1> DEFINE A(i) == Addressed(i)
           n == Cardinality(A(m - 1))
<1>1. m \in Nat /\ m >= 1 /\ Len(s) \in Nat /\ Len(s) = n
      /\ \A i \in A(m - 1) : s[Cardinality(A(i))] = [number |-> asked.number, address |-> address[i]]
  BY SizeAssumption DEF Elements, Introduced
<1>2. \A i \in Nat : IsFiniteSet(A(i)) /\ Cardinality(A(i)) \in Nat
  <2> SUFFICES ASSUME NEW i \in Nat
               PROVE  IsFiniteSet(A(i)) /\ Cardinality(A(i)) \in Nat
    OBVIOUS
  <2>1. IsFiniteSet(1..i) /\ A(i) \subseteq 1..i
    BY FS_Interval DEF Addressed
  <2> HIDE DEF A
  <2> QED BY <2>1, FS_Subset, FS_CardinalityType
<1>3. CASE address[m] = Reserved
  <2>1. A(m) = A(m - 1)
    BY <1>1, <1>3 DEF Addressed
  <2>2. Introduced(s, m)
    BY <1>1, <2>1 DEF Introduced
  <2> QED BY <1>3, <2>2
<1>4. ASSUME NEW r \in Header, address[m] # Reserved,
             r = [number |-> asked.number, address |-> address[m]]
      PROVE  Introduced(Append(s, r), m)
  <2> DEFINE t == Append(s, r)
  <2>1. A(m) = A(m - 1) \union {m} /\ m \notin A(m - 1)
    BY <1>1, <1>4 DEF Addressed
  <2>2. Cardinality(A(m)) = n + 1
    <3>1. m - 1 \in Nat /\ IsFiniteSet(A(m - 1))
      BY <1>1, <1>2
    <3> HIDE DEF A
    <3> QED BY <2>1, <3>1, FS_AddElement
  <2>3. Len(t) = n + 1 /\ t[n + 1] = r /\ \A j \in 1..n : t[j] = s[j]
    BY <1>1
  <2>4. ASSUME NEW i \in A(m)
        PROVE  t[Cardinality(A(i))] = [number |-> asked.number, address |-> address[i]]
    <3>1. CASE i = m
      BY <1>4, <2>2, <2>3, <3>1
    <3>2. CASE i # m
      <4>1. i \in A(m - 1) /\ i \in Nat /\ i \in A(i) /\ A(i) \subseteq A(m - 1) /\ m - 1 \in Nat
        BY <1>1, <2>1, <3>2 DEF Addressed
      <4>2. Cardinality(A(i)) <= n /\ Cardinality(A(i)) # 0
        <5>1. IsFiniteSet(A(m - 1)) /\ IsFiniteSet(A(i))
          BY <1>2, <4>1
        <5> HIDE DEF A
        <5> QED BY <4>1, <5>1, FS_Subset, FS_EmptySet
      <4>3. Cardinality(A(i)) \in 1..n
        BY <1>1, <1>2, <4>1, <4>2
      <4> QED BY <1>1, <2>3, <4>1, <4>3
    <3> QED BY <3>1, <3>2
  <2> HIDE DEF t
  <2>5. Introduced(t, m)
    BY <2>2, <2>3, <2>4 DEF Introduced
  <2> QED BY <2>5 DEF t
<1> QED BY <1>3, <1>4

\* A step of the walk: the element that is passed has answered.
LEMMA VisitIntroduces ==
  ASSUME IndInv, WalkAnswers, Visit
  PROVE  /\ request'[token].number = asked.number
         /\ asked.address = Reserved => Introduced(named', index)
<1>1. /\ pc = "hub" /\ index \in Elements /\ token \in Requests /\ named \in Seq(Header)
      /\ request \in [Requests -> Descriptor] /\ asked \in Header /\ address \in [Elements -> Target]
      /\ request[token].number = asked.number
      /\ asked.address = Reserved => Introduced(named, index - 1)
  BY DEF IndInv, TypeOK, WalkAnswers, Visit, Inform, Skip
<1>2. CASE Skip
  <2>1. asked.address = Reserved => address[index] = Reserved
    BY <1>2 DEF Skip, Names
  <2> QED BY <1>1, <1>2, <2>1, OneMoreIntroduced DEF Skip
<1>3. CASE Inform
  <2> DEFINE x == [request[token] EXCEPT !.destination = address[index], !.refs = index - 1]
             r == [number |-> asked.number, address |-> address[index]]
  <2>1. x.number = asked.number /\ x.destination = address[index]
    BY <1>1 DEF Descriptor
  <2>2. request'[token] = x
    BY <1>1, <1>3 DEF Inform
  <2>3. named' = Append(named, r) /\ address[index] # Reserved
    <3>1. named' = Append(named, Reply(request'[token])) /\ address[index] # Reserved
      BY <1>3 DEF Inform, Names
    <3> HIDE DEF x
    <3>2. Reply(request'[token]) = r
      BY <2>1, <2>2 DEF Reply
    <3> QED BY <3>1, <3>2
  <2>4. r \in Header
    BY <1>1 DEF Header
  <2> HIDE DEF x, r
  <2>5. ASSUME asked.address = Reserved
        PROVE  Introduced(named', index)
    BY <1>1, <2>3, <2>4, <2>5, OneMoreIntroduced DEF r
  <2> QED BY <2>1, <2>2, <2>5
<1> QED BY <1>2, <1>3 DEF Visit

LEMMA WalkKeeps ==
  ASSUME IndInv, WalkAnswers, [Next]_vars
  PROVE  /\ WalkAnswers'
         /\ pc = "hub" /\ pc' = "idle" /\ asked.address = Reserved => Introduced(named', Devices)
<1>1. CASE Visit
  <2>1. /\ request'[token].number = asked.number
        /\ asked.address = Reserved => Introduced(named', index)
    BY <1>1, VisitIntroduces
  <2>2. /\ UNCHANGED <<address, token, asked>> /\ index \in Nat
        /\ \/ index < Devices /\ pc' = "hub" /\ index' = index + 1
           \/ (asked.address = Reserved => ~(index < Devices)) /\ pc' = "idle"
    BY <1>1, SizeAssumption DEF Visit, Advance, IndInv, TypeOK, Elements
  <2>3. index <= Devices /\ Devices \in Nat
    BY SizeAssumption DEF IndInv, TypeOK, Elements
  <2>4. ASSUME pc' = "hub"
        PROVE  WalkAnswers'
    <3>1. index' - 1 = index
      BY <2>2, <2>4
    <3>2. \A i : Addressed(i)' = Addressed(i)
      BY <2>2 DEF Addressed
    <3>3. asked.address = Reserved => Introduced(named, index - 1)'
      BY <2>1, <2>2, <3>1, <3>2 DEF Introduced
    <3> QED BY <2>1, <2>2, <3>3 DEF WalkAnswers
  <2>5. ASSUME pc' = "idle", asked.address = Reserved
        PROVE  Introduced(named', Devices)
    <3>1. index = Devices
      BY <2>2, <2>3, <2>5
    <3> QED BY <2>1, <2>5, <3>1
  <2>6. pc' # "hub" => WalkAnswers'
    BY DEF WalkAnswers
  <2> QED BY <2>4, <2>5, <2>6
<1>2. ASSUME NEW n \in Number, NEW a \in Target, AskInfo(n, a)
      PROVE  WalkAnswers' /\ pc # "hub"
  <2>1. /\ pc = "idle" /\ token' = Head(pool) /\ request' = Allocated(n, a)
        /\ asked' = [number |-> n, address |-> a] /\ index' = 1 /\ named' = <<>>
    BY <1>2 DEF AskInfo, Accepts
  <2>2. Allocated(n, a)[Head(pool)] = [destination |-> a, refs |-> 0, number |-> n]
    BY <1>2, Taken DEF AskInfo
  <2>3. request'[token'].number = asked'.number
    BY <2>1, <2>2
  <2>4. Introduced(named, index - 1)'
    <3>1. Addressed(0)' = {}
      BY DEF Addressed
    <3>2. index' - 1 = 0
      BY <2>1
    <3> QED BY <2>1, <3>1, <3>2, FS_EmptySet DEF Introduced
  <2> QED BY <2>1, <2>3, <2>4 DEF WalkAnswers
<1>3. CASE pc = "idle" /\ pc' = pc
  BY <1>3 DEF WalkAnswers
<1>4. CASE UNCHANGED vars
  <2>1. UNCHANGED <<pc, request, token, asked, named, index, address>>
    BY <1>4 DEF vars, infoVars
  <2>2. \A i : Addressed(i)' = Addressed(i)
    BY <2>1 DEF Addressed
  <2>3. Introduced(named, index - 1)' <=> Introduced(named, index - 1)
    BY <2>1, <2>2 DEF Introduced
  <2> QED BY <2>1, <2>3 DEF WalkAnswers
<1>5. Next => \/ Visit \/ (pc = "idle" /\ pc' = pc)
              \/ \E n \in Number, a \in Target : AskInfo(n, a)
  BY DEF Next, Ignore, Answer, Queue, Complete, Assign, Accepts, infoVars
<1> QED BY <1>1, <1>2, <1>3, <1>4, <1>5

\* A broadcast for device information ends with the response of every addressed
\* element of the hub, each once, in their order and with the host's number, for every
\* number of elements and of descriptors (StaticDeviceHub.hpp:81-98).
THEOREM BroadcastsComplete == Spec => BroadcastComplete
<1> DEFINE J == IndInv /\ WalkAnswers
           Ends == pc = "hub" /\ pc' = "idle" /\ asked.address = Reserved
                     => Introduced(named', Devices)
<1>1. Init => J
  <2>1. Init => WalkAnswers
    BY DEF Init, WalkAnswers
  <2> QED BY <2>1, InitInvariant
<1>2. J /\ [Next]_vars => J'
  BY NextInvariant, WalkKeeps
<1>3. J /\ [Next]_vars => [Ends]_vars
  BY WalkKeeps
<1> QED BY <1>1, <1>2, <1>3, PTL DEF Spec, BroadcastComplete
=============================================================================
