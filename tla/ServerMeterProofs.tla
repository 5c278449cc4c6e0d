------------------------- MODULE ServerMeterProofs -------------------------
(***************************************************************************)
(* Proofs about ServerMeter, for every set of requests, every set of codes *)
(* and every capacity of the channel.                                      *)
(***************************************************************************)
EXTENDS ServerMeter, SequenceTheorems, FunctionTheorems,
        FiniteSetTheorems, TLAPS

-----------------------------------------------------------------------------
(* Types *)

\* The class of a code that handlers use.
LEMMA ClassType == \A code \in Codes : Class(code) \in Classes
BY DEF Classes

\* What net/http sends is a code, or nothing new.
LEMMA SentType ==
  ASSUME NEW r \in Requests, NEW code \in Codes, wire \in [Requests -> Answers]
  PROVE  Sent(r, code) \in [Requests -> Answers]
BY DEF Sent, Answers

\* A measure that is appended keeps the channel's type.
LEMMA AppendType ==
  ASSUME NEW S, NEW s \in Seq(S), NEW e \in S
  PROVE  Append(s, e) \in Seq(S) /\ Len(Append(s, e)) = Len(s) + 1
BY AppendProperties

\* So does taking the first one.
LEMMA TailType ==
  ASSUME NEW S, NEW s \in Seq(S), s # <<>>
  PROVE  Tail(s) \in Seq(S) /\ Len(Tail(s)) = Len(s) - 1 /\ Head(s) \in S
BY HeadTailProperties

\* A call of a handler counts, and marks the request.
LEMMA CallType ==
  ASSUME TypeOK, NEW r \in Requests,
         NEW marks \in SUBSET Oddities,
         Call(r, marks)
  PROVE  /\ calls' \in [Requests -> 0..MaxCalls]
         /\ odd' \in [Requests -> SUBSET Oddities]
         /\ UNCHANGED <<phase, panicking, ch, total, collecting>>
<1>1. calls[r] + 1 \in 0..MaxCalls
  BY ServerMeterAssumption DEF TypeOK, Call
<1> QED  BY <1>1, Zenon DEF TypeOK, Call, outside

\* The steps there are.
LEMMA StepKinds ==
  ASSUME [Next]_vars
  PROVE  \/ UNCHANGED vars
         \/ \E r \in Requests :
               \/ ServeHTTP(r) \/ Return(r) \/ Panic(r)
               \/ WriteOrFlush(r)
               \/ Hijack(r)
               \/ \E code \in Codes : WriteHeader(r, code)
               \/ WriteHeaderAgain(r)
               \/ Measure(r)
               \/ Recover(r)
         \/ CollectorReceives \/ CollectorStops
BY Zenon DEF Next, Handler

\* Every step keeps the types.
LEMMA TypeStep ==
  ASSUME TypeOK, [Next]_vars
  PROVE  TypeOK'
<1> USE DEF TypeOK
<1>1. CASE UNCHANGED vars
  BY <1>1 DEF vars, wrapper, outside
<1>2. ASSUME NEW r \in Requests, ServeHTTP(r) \/ Return(r) \/ Panic(r) PROVE TypeOK'
  <2>1. CASE ServeHTTP(r)
    BY <2>1 DEF ServeHTTP, wrapper, outside
  <2>2. CASE Return(r)
    BY <2>2 DEF Return, wrapper, outside
  <2>3. CASE Panic(r)
    BY <2>3 DEF Panic, outside
  <2> QED  BY <1>2, <2>1, <2>2, <2>3
<1>3. ASSUME NEW r \in Requests, WriteOrFlush(r) PROVE TypeOK'
  <2>1. wire' \in [Requests -> Answers]
    <3>1. wire' = Sent(r, 200)
      BY <1>3 DEF WriteOrFlush
    <3>2. 200 \in Codes
      BY ServerMeterAssumption
    <3> QED  BY <3>1, <3>2, SentType
  <2> QED  BY <1>3, <2>1, CallType DEF WriteOrFlush
<1>4. ASSUME NEW r \in Requests, Hijack(r) PROVE TypeOK'
  <2>1. {"hijacked"} \subseteq Oddities
    BY DEF Oddities
  <2>2. wire' \in [Requests -> Answers]
    BY <1>4 DEF Hijack, Answers
  <2> QED  BY <1>4, <2>1, <2>2, CallType DEF Hijack
<1>5. ASSUME NEW r \in Requests, NEW code \in Codes, WriteHeader(r, code) PROVE TypeOK'
  <2>1. wire' \in [Requests -> Answers]
    BY <1>5, SentType DEF WriteHeader
  <2>2. Marks(r, code) \subseteq Oddities
    BY DEF Marks, Oddities
  <2>3. /\ headerWritten' \in [Requests -> BOOLEAN]
        /\ statusCode' \in [Requests -> Codes]
    BY <1>5 DEF WriteHeader
  <2>4. Call(r, Marks(r, code))
    BY <1>5 DEF WriteHeader
  <2> QED  BY <2>1, <2>2, <2>3, <2>4, CallType
<1>6. ASSUME NEW r \in Requests, WriteHeaderAgain(r) PROVE TypeOK'
  BY <1>6, CallType DEF WriteHeaderAgain
<1>7. ASSUME NEW r \in Requests, Measure(r) PROVE TypeOK'
  <2>1. ch' \in Seq(Classes) /\ Len(ch') = Len(ch) + 1
    BY <1>7, AppendType, ClassType DEF Measure
  <2>2. Len(ch') <= Room
    <3>1. Len(ch) \in Nat /\ Room \in Nat
      BY LenProperties, ServerMeterAssumption
    <3>2. Len(ch) < Room
      BY <1>7 DEF Measure
    <3> QED  BY <2>1, <3>1, <3>2
  <2>3. phase' \in [Requests -> {"new", "handler", "measure", "recover", "done"}]
    BY <1>7 DEF Measure
  <2> QED  BY <1>7, <2>1, <2>2, <2>3 DEF Measure, wrapper
<1>8. ASSUME NEW r \in Requests, Recover(r) PROVE TypeOK'
  <2>1. wire' \in [Requests -> Answers]
    BY <1>8, SentType, ServerMeterAssumption DEF Recover
  <2> QED  BY <1>8, <2>1 DEF Recover, wrapper, outside
<1>9. CASE CollectorReceives
  <2>1. ch' \in Seq(Classes) /\ Len(ch') = Len(ch) - 1 /\ Head(ch) \in Classes
    BY <1>9, TailType DEF CollectorReceives
  <2>2. Len(ch') <= Room
    BY <2>1, LenProperties, ServerMeterAssumption
  <2>3. total' \in [Classes -> Nat]
    BY <1>9, <2>1 DEF CollectorReceives
  <2> QED  BY <1>9, <2>1, <2>2, <2>3 DEF CollectorReceives, wrapper
<1>10. CASE CollectorStops
  BY <1>10 DEF CollectorStops, wrapper
<1> HIDE DEF TypeOK
<1> QED
  BY <1>1, <1>2, <1>3, <1>4, <1>5, <1>6, <1>7, <1>8, <1>9, <1>10, StepKinds

\* The initial state has the types.
LEMMA InitType == Init => TypeOK
BY ServerMeterAssumption, EmptySeq, LenProperties DEF Init, TypeOK, Answers

\* Every variable keeps its type; the channel is never over its capacity.
THEOREM TypeCorrect == Spec => []TypeOK
BY InitType, TypeStep, PTL DEF Spec

-----------------------------------------------------------------------------
(* The status that is counted is the one that was sent *)

\* The status the wrapper remembers and the one on the wire, for a request
\* whose handler has done nothing the wrapper does not see: they agree once
\* WriteHeader was called; before that nothing, or 200, is on the wire.
Agrees(r) ==
    odd[r] = {} =>
      /\ headerWritten[r] => wire[r] = statusCode[r]
      /\ ~headerWritten[r] => statusCode[r] = 200 /\ wire[r] \in {None, 200}

StatusInv ==
    \A r \in Requests :
      /\ phase[r] # "done" => Agrees(r)
      /\ phase[r] = "done" =>
            /\ wire[r] # None
            /\ odd[r] = {} /\ ~panicking[r] => wire[r] = statusCode[r]

\* What Sent does to the status of the request and of the others.
LEMMA SentEffect ==
  ASSUME NEW r \in Requests, NEW code \in Codes, wire \in [Requests -> Answers],
         wire' = Sent(r, code)
  PROVE  /\ \A q \in Requests : q # r => wire'[q] = wire[q]
         /\ wire[r] # None => wire'[r] = wire[r]
         /\ wire[r] = None /\ code >= 200 => wire'[r] = code
BY DEF Sent

\* What StatusInv says of a request stays as it is.
Kept(q) ==
    /\ phase'[q] = phase[q] /\ panicking'[q] = panicking[q]
    /\ wire'[q] = wire[q] /\ odd'[q] = odd[q]
    /\ headerWritten'[q] = headerWritten[q]
    /\ statusCode'[q] = statusCode[q]

\* A call of one handler keeps StatusInv if it keeps the agreement of its own
\* request and leaves the others alone.
LEMMA OneHandler ==
  ASSUME StatusInv, NEW r \in Requests,
         phase'[r] # "done", Agrees(r)',
         \A q \in Requests : q # r => Kept(q)
  PROVE  StatusInv'
<1>1. ASSUME NEW q \in Requests, q # r
      PROVE  /\ phase'[q] # "done" => Agrees(q)'
             /\ phase'[q] = "done" =>
                   /\ wire'[q] # None
                   /\ odd'[q] = {} /\ ~panicking'[q] => wire'[q] = statusCode'[q]
  BY <1>1 DEF StatusInv, Agrees, Kept
<1> QED  BY <1>1 DEF StatusInv

\* A status that leaves no mark is the first one, and not an informational one.
LEMMA NoMarks ==
  ASSUME NEW r \in Requests, NEW code \in Codes,
         odd'[r] = odd[r] \cup Marks(r, code), odd'[r] = {}
  PROVE  wire[r] = None /\ code >= 200
<1>1. Marks(r, code) = {}
  OBVIOUS
<1>2. wire[r] = None /\ ~(code < 200)
  BY <1>1, Zenon DEF Marks
<1>3. code \in Int
  BY ServerMeterAssumption
<1> QED  BY <1>2, <1>3

\* Write and Flush keep the agreement: 200 is sent only before WriteHeader.
LEMMA FlushAgrees ==
  ASSUME NEW r \in Requests, Agrees(r), statusCode[r] # None,
         UNCHANGED <<odd, headerWritten, statusCode>>,
         wire[r] # None => wire'[r] = wire[r],
         wire[r] = None => wire'[r] = 200
  PROVE  Agrees(r)'
<1>1. CASE wire[r] = None
  BY <1>1 DEF Agrees
<1>2. CASE wire[r] # None
  BY <1>2 DEF Agrees
<1> QED  BY <1>1, <1>2

\* Every step keeps the agreement.
LEMMA StatusStep ==
  ASSUME TypeOK, StatusInv, [Next]_vars
  PROVE  StatusInv'
<1> USE ServerMeterAssumption DEF StatusInv, Agrees
<1>1. CASE UNCHANGED vars
  BY <1>1 DEF vars, wrapper, outside
<1>2. ASSUME NEW r \in Requests, ServeHTTP(r) \/ Return(r) \/ Panic(r) PROVE StatusInv'
  BY <1>2 DEF ServeHTTP, Return, Panic, wrapper, TypeOK
<1>3. ASSUME NEW r \in Requests, WriteOrFlush(r) PROVE StatusInv'
  <2>1. /\ phase[r] = "handler" /\ UNCHANGED <<phase, panicking, odd, headerWritten, statusCode>>
        /\ wire' = Sent(r, 200)
    BY <1>3 DEF WriteOrFlush, Call, TypeOK
  <2>2. /\ 200 \in Codes /\ 200 >= 200 /\ None \notin Codes
        /\ wire \in [Requests -> Answers]
    BY DEF TypeOK
  <2>3. /\ \A q \in Requests : q # r => wire'[q] = wire[q]
        /\ wire[r] # None => wire'[r] = wire[r]
        /\ wire[r] = None => wire'[r] = 200
    BY <2>1, <2>2, SentEffect
  <2>4. \A q \in Requests : q # r => Kept(q)
    BY <2>1, <2>3 DEF Kept
  <2>5. phase[r] # "done" /\ Agrees(r)
    BY <2>1
  <2>6. statusCode[r] # None
    BY <2>2 DEF TypeOK
  <2>7. Agrees(r)'
    <3> HIDE DEF Agrees
    <3> QED  BY <2>1, <2>3, <2>5, <2>6, FlushAgrees
  <2> QED  BY <2>1, <2>4, <2>7, OneHandler
<1>4. ASSUME NEW r \in Requests, Hijack(r) PROVE StatusInv'
  <2>1. /\ phase[r] = "handler" /\ UNCHANGED <<phase, panicking, headerWritten, statusCode>>
        /\ odd'[r] # {}
        /\ \A q \in Requests : q # r => odd'[q] = odd[q] /\ wire'[q] = wire[q]
    BY <1>4 DEF Hijack, Call, TypeOK
  <2> QED  BY <2>1
<1>5. ASSUME NEW r \in Requests, NEW code \in Codes, WriteHeader(r, code) PROVE StatusInv'
  <2>1. /\ phase[r] = "handler" /\ UNCHANGED <<phase, panicking>>
        /\ headerWritten'[r] /\ statusCode'[r] = code
        /\ odd'[r] = odd[r] \cup Marks(r, code)
        /\ wire' = Sent(r, code)
        /\ \A q \in Requests : q # r => /\ odd'[q] = odd[q]
                                        /\ headerWritten'[q] = headerWritten[q]
                                        /\ statusCode'[q] = statusCode[q]
    BY <1>5 DEF WriteHeader, Call, TypeOK
  <2>2. odd'[r] = {} => wire[r] = None /\ code >= 200
    <3> HIDE ServerMeterAssumption DEF StatusInv, Agrees
    <3>1. odd'[r] = odd[r] \cup Marks(r, code)
      BY <2>1
    <3> QED  BY <3>1, NoMarks
  <2>3. /\ \A q \in Requests : q # r => wire'[q] = wire[q]
        /\ wire[r] = None /\ code >= 200 => wire'[r] = code
    <3>1. wire \in [Requests -> Answers]
      BY DEF TypeOK
    <3> QED  BY <2>1, <3>1, SentEffect
  <2>4. Agrees(r)'
    BY <2>1, <2>2, <2>3
  <2>5. \A q \in Requests : q # r => Kept(q)
    BY <2>1, <2>3 DEF Kept
  <2> QED  BY <2>1, <2>4, <2>5, OneHandler
<1>6. ASSUME NEW r \in Requests, WriteHeaderAgain(r) PROVE StatusInv'
  <2>1. UNCHANGED <<phase, panicking, odd, headerWritten, statusCode, wire>>
    BY <1>6 DEF WriteHeaderAgain, Call, TypeOK
  <2> QED  BY <2>1
<1>7. ASSUME NEW r \in Requests, Measure(r) PROVE StatusInv'
  BY <1>7 DEF Measure, wrapper, TypeOK
<1>8. ASSUME NEW r \in Requests, Recover(r) PROVE StatusInv'
  <2>1. /\ phase[r] = "recover" /\ phase'[r] = "done"
        /\ \A q \in Requests : q # r => phase'[q] = phase[q]
        /\ UNCHANGED <<panicking, odd, headerWritten, statusCode>>
        /\ wire' = Sent(r, 500) \/ wire' = Sent(r, 200)
        /\ ~panicking[r] => wire' = Sent(r, 200)
    BY <1>8 DEF Recover, wrapper, TypeOK
  <2>0. /\ 200 \in Codes /\ 500 \in Codes /\ None \notin Codes
        /\ wire \in [Requests -> Answers] /\ 200 >= 200 /\ 500 >= 200
    BY DEF TypeOK
  <2>2. /\ \A q \in Requests : q # r => wire'[q] = wire[q]
        /\ wire[r] # None => wire'[r] = wire[r]
        /\ wire'[r] # None
        /\ ~panicking[r] /\ wire[r] = None => wire'[r] = 200
    <3>1. CASE wire' = Sent(r, 500) /\ panicking[r]
      BY <2>0, <3>1, SentEffect
    <3>2. CASE wire' = Sent(r, 200)
      BY <2>0, <3>2, SentEffect
    <3> QED  BY <2>1, <3>1, <3>2
  <2>3. \A code \in Codes : code # None
    OBVIOUS
  <2> QED  BY <2>1, <2>2, <2>3 DEF TypeOK
<1>9. CASE CollectorReceives \/ CollectorStops
  BY <1>9 DEF CollectorReceives, CollectorStops, wrapper
<1> QED  BY <1>1, <1>2, <1>3, <1>4, <1>5, <1>6, <1>7, <1>8, <1>9, StepKinds

\* StatusInv holds throughout, together with the types.
LEMMA StatusInvariant == Spec => [](TypeOK /\ StatusInv)
<1>1. Init => StatusInv
  BY ServerMeterAssumption DEF Init, StatusInv, Agrees
<1> QED  BY <1>1, InitType, TypeStep, StatusStep, PTL DEF Spec

\* The class that is counted for a request is the class of the status its
\* client was sent, unless the handler panicked or did one of the things the
\* wrapper does not see.
THEOREM CountsWhatWasSent == Spec => []CountedAsSent
<1>1. StatusInv => CountedAsSent
  BY DEF StatusInv, CountedAsSent
<1> QED  BY <1>1, StatusInvariant, PTL

\* No request ends without an answer.
THEOREM Answered == Spec => []AlwaysAnswered
<1>1. StatusInv => AlwaysAnswered
  BY DEF StatusInv, AlwaysAnswered
<1> QED  BY <1>1, StatusInvariant, PTL

-----------------------------------------------------------------------------
(* Every request is counted once *)

\* The places of an element in a sequence.
Places(s, e) == {i \in DOMAIN s : s[i] = e}

\* They are finitely many.
LEMMA PlacesFinite ==
  ASSUME NEW S, NEW s \in Seq(S), NEW e
  PROVE  IsFiniteSet(Places(s, e)) /\ Cardinality(Places(s, e)) \in Nat
<1>1. DOMAIN s = 1..Len(s) /\ Len(s) \in Nat
  BY LenProperties
<1>2. IsFiniteSet(1..Len(s))
  BY <1>1, FS_Interval
<1>3. Places(s, e) \in SUBSET (1..Len(s))
  BY <1>1 DEF Places
<1>4. IsFiniteSet(Places(s, e))
  BY <1>2, <1>3, FS_Subset
<1> QED  BY <1>4, FS_CardinalityType

\* Appending an element adds one place of that element.
LEMMA PlacesAppend ==
  ASSUME NEW S, NEW s \in Seq(S), NEW x \in S, NEW e
  PROVE  Cardinality(Places(Append(s, x), e)) =
            IF x = e THEN Cardinality(Places(s, e)) + 1
                     ELSE Cardinality(Places(s, e))
<1> DEFINE n == Len(s) + 1
           t == Append(s, x)
<1>1. /\ DOMAIN s = 1..Len(s) /\ Len(s) \in Nat
      /\ DOMAIN t = 1..n
      /\ \A i \in 1..Len(s) : t[i] = s[i]
      /\ t[n] = x
  <2>1. /\ t \in Seq(S) /\ Len(t) = n
        /\ \A i \in 1..Len(s) : t[i] = s[i]
        /\ t[n] = x
    BY AppendProperties
  <2>2. DOMAIN s = 1..Len(s) /\ Len(s) \in Nat /\ DOMAIN t = 1..Len(t)
    BY <2>1, LenProperties
  <2> QED  BY <2>1, <2>2
<1> HIDE DEF t
<1>2. DOMAIN t = DOMAIN s \cup {n} /\ n \notin DOMAIN s
  BY <1>1
<1>3. CASE x = e
  <2>1. Places(t, e) = Places(s, e) \cup {n} /\ n \notin Places(s, e)
    BY <1>1, <1>2, <1>3 DEF Places
  <2> QED  BY <1>3, <2>1, PlacesFinite, FS_AddElement DEF t
<1>4. CASE x # e
  <2>1. Places(t, e) = Places(s, e)
    BY <1>1, <1>2, <1>4 DEF Places
  <2> QED  BY <1>4, <2>1 DEF t
<1> QED  BY <1>3, <1>4

\* Taking the first element removes one place of that element.
LEMMA PlacesTail ==
  ASSUME NEW S, NEW s \in Seq(S), s # <<>>, NEW e
  PROVE  Cardinality(Places(s, e)) =
            IF Head(s) = e THEN Cardinality(Places(Tail(s), e)) + 1
                           ELSE Cardinality(Places(Tail(s), e))
<1> DEFINE t == Tail(s)
           P == Places(t, e)
           Q == Places(s, e) \ {1}
<1>1. /\ DOMAIN s = 1..Len(s) /\ Len(s) \in Nat /\ Len(s) # 0
      /\ DOMAIN t = 1..(Len(s) - 1)
      /\ \A i \in DOMAIN t : t[i] = s[i + 1]
      /\ Head(s) = s[1]
      /\ t \in Seq(S)
  <2>1. /\ t \in Seq(S) /\ Len(t) = Len(s) - 1
        /\ \A i \in 1..Len(t) : t[i] = s[i + 1]
    BY HeadTailProperties
  <2>2. /\ DOMAIN s = 1..Len(s) /\ Len(s) \in Nat /\ DOMAIN t = 1..Len(t)
    BY <2>1, LenProperties
  <2>3. Len(s) # 0
    BY EmptySeq
  <2> QED  BY <2>1, <2>2, <2>3
<1> HIDE DEF t
<1>2. Cardinality(Q) = Cardinality(P)
  <2> DEFINE f == [i \in P |-> i + 1]
  <2>1. \A i \in P : i \in DOMAIN t /\ t[i] = e
    BY DEF Places
  <2>2. \A i \in P : i + 1 \in Q /\ i \in Int
    BY <1>1, <2>1 DEF Places
  <2>3. f \in [P -> Q]
    BY <2>2
  <2>4. \A i, j \in P : f[i] = f[j] => i = j
    BY <2>2
  <2>5. ASSUME NEW j \in Q PROVE \E i \in P : f[i] = j
    <3>1. j \in 1..Len(s) /\ j # 1 /\ s[j] = e
      BY <1>1 DEF Places
    <3>2. j - 1 \in DOMAIN t /\ (j - 1) + 1 = j
      BY <1>1, <3>1
    <3>3. j - 1 \in P
      BY <1>1, <3>1, <3>2 DEF Places
    <3> QED  BY <3>2, <3>3
  <2>6. f \in Bijection(P, Q)
    BY <2>3, <2>4, <2>5, Fun_IsBij
  <2>7. ExistsBijection(P, Q)
    BY <2>6 DEF ExistsBijection
  <2>8. IsFiniteSet(P)
    BY <1>1, PlacesFinite
  <2> QED  BY <2>7, <2>8, FS_Bijection
<1>3. 1 \in Places(s, e) <=> Head(s) = e
  BY <1>1 DEF Places
<1>4. IsFiniteSet(Places(s, e)) /\ Cardinality(Places(s, e)) \in Nat
  BY PlacesFinite
<1>5. Cardinality(Q) = IF Head(s) = e THEN Cardinality(Places(s, e)) - 1
                                      ELSE Cardinality(Places(s, e))
  BY <1>3, <1>4, FS_RemoveElement
<1> QED  BY <1>2, <1>4, <1>5 DEF t

\* The requests that ended with a status of a class are finitely many.
LEMMA EndedFinite ==
  ASSUME NEW c
  PROVE  /\ IsFiniteSet(Ended(c)) /\ Cardinality(Ended(c)) \in Nat
         /\ IsFiniteSet(Ended(c)') /\ Cardinality(Ended(c)') \in Nat
<1>1. Ended(c) \in SUBSET Requests /\ Ended(c)' \in SUBSET Requests
  BY DEF Ended
<1> QED  BY <1>1, FS_Subset, FS_CardinalityType, ServerMeterAssumption

\* A step that neither measures nor receives leaves the requests that have
\* ended, their status, the channel and the totals alone.
Uncounted ==
    /\ UNCHANGED <<ch, total>>
    /\ \A r \in Requests :
          /\ Measured(r)' <=> Measured(r)
          /\ Measured(r) => statusCode'[r] = statusCode[r]

\* Every other step than Measure and CollectorReceives is of that kind.
LEMMA CountKinds ==
  ASSUME TypeOK, [Next]_vars
  PROVE  Uncounted \/ (\E r \in Requests : Measure(r)) \/ CollectorReceives
<1> USE DEF Uncounted, Measured
<1>1. CASE UNCHANGED vars
  BY <1>1 DEF vars, wrapper, outside
<1>2. ASSUME NEW r \in Requests, ServeHTTP(r) \/ Return(r) \/ Panic(r) PROVE Uncounted
  <2>1. CASE ServeHTTP(r)
    BY <2>1 DEF ServeHTTP, wrapper, outside, TypeOK
  <2>2. CASE Return(r)
    BY <2>2 DEF Return, wrapper, outside, TypeOK
  <2>3. CASE Panic(r)
    BY <2>3 DEF Panic, outside, TypeOK
  <2> QED  BY <1>2, <2>1, <2>2, <2>3
<1>3. ASSUME NEW r \in Requests, WriteOrFlush(r) PROVE Uncounted
  BY <1>3 DEF WriteOrFlush, Call, outside, TypeOK
<1>4. ASSUME NEW r \in Requests, Hijack(r) PROVE Uncounted
  BY <1>4 DEF Hijack, Call, outside, TypeOK
<1>5. ASSUME NEW r \in Requests, NEW code \in Codes, WriteHeader(r, code) PROVE Uncounted
  BY <1>5 DEF WriteHeader, Call, outside, TypeOK
<1>6. ASSUME NEW r \in Requests, WriteHeaderAgain(r) PROVE Uncounted
  BY <1>6 DEF WriteHeaderAgain, Call, outside, TypeOK
<1>7. ASSUME NEW r \in Requests, Recover(r) PROVE Uncounted
  BY <1>7 DEF Recover, wrapper, outside, TypeOK
<1>8. CASE CollectorStops
  BY <1>8 DEF CollectorStops, wrapper
<1> QED
  BY <1>1, <1>2, <1>3, <1>4, <1>5, <1>6, <1>7, <1>8, StepKinds

\* Every step keeps the count.
LEMMA CountStep ==
  ASSUME TypeOK, CountsAddUp, [Next]_vars
  PROVE  CountsAddUp'
<1> SUFFICES ASSUME NEW c \in Classes
             PROVE  total'[c] + Cardinality(Places(ch', c)) = Cardinality(Ended(c)')
  BY Zenon DEF CountsAddUp, Waiting, Places
<1>1. /\ total[c] + Cardinality(Places(ch, c)) = Cardinality(Ended(c))
      /\ ch \in Seq(Classes) /\ total \in [Classes -> Nat]
  BY Zenon DEF CountsAddUp, Waiting, Places, TypeOK
<1>2. CASE Uncounted
  <2>1. Ended(c)' = Ended(c)
    BY <1>2 DEF Uncounted, Ended
  <2> QED  BY <1>1, <1>2, <2>1, Zenon DEF Uncounted
<1>3. ASSUME NEW r \in Requests, Measure(r)
      PROVE  total'[c] + Cardinality(Places(ch', c)) = Cardinality(Ended(c)')
  <2> DEFINE x == Class(statusCode[r])
  <2>1. /\ x \in Classes
        /\ ch' = Append(ch, x) /\ UNCHANGED <<total, statusCode>>
        /\ ~Measured(r) /\ Measured(r)'
        /\ \A q \in Requests : q # r => (Measured(q)' <=> Measured(q))
    BY <1>3, ClassType DEF Measure, Measured, TypeOK, wrapper
  <2>2. Cardinality(Places(ch', c)) = IF x = c THEN Cardinality(Places(ch, c)) + 1
                                               ELSE Cardinality(Places(ch, c))
    BY <1>1, <2>1, PlacesAppend
  <2>3. r \notin Ended(c)
        /\ Ended(c)' = IF x = c THEN Ended(c) \cup {r} ELSE Ended(c)
    BY <2>1 DEF Ended
  <2>4. Cardinality(Ended(c)') = IF x = c THEN Cardinality(Ended(c)) + 1
                                          ELSE Cardinality(Ended(c))
    BY <2>3, EndedFinite, FS_AddElement
  <2>5. total'[c] = total[c] /\ total[c] \in Nat /\ Cardinality(Places(ch, c)) \in Nat
    BY <1>1, <2>1, PlacesFinite
  <2> HIDE DEF x
  <2> QED  BY <1>1, <2>2, <2>4, <2>5
<1>4. CASE CollectorReceives
  <2> DEFINE x == Head(ch)
  <2>1. /\ ch # <<>> /\ ch' = Tail(ch) /\ x \in Classes
        /\ total' = [total EXCEPT ![x] = total[x] + 1]
        /\ UNCHANGED <<phase, statusCode>>
    BY <1>1, <1>4, TailType DEF CollectorReceives, wrapper
  <2>2. Ended(c)' = Ended(c)
    BY <2>1 DEF Ended, Measured
  <2>3. Cardinality(Places(ch, c)) = IF x = c THEN Cardinality(Places(ch', c)) + 1
                                              ELSE Cardinality(Places(ch', c))
    BY <1>1, <2>1, PlacesTail
  <2>4. ch' \in Seq(Classes)
    BY <1>1, <2>1, TailType
  <2>5. Cardinality(Places(ch', c)) \in Nat
    BY <2>4, PlacesFinite
  <2>6. total[c] \in Nat /\ total'[c] = IF x = c THEN total[c] + 1 ELSE total[c]
    BY <1>1, <2>1
  <2> HIDE DEF x
  <2> QED  BY <1>1, <2>2, <2>3, <2>5, <2>6
<1> QED  BY <1>2, <1>3, <1>4, CountKinds

\* What the collector has counted in a class and what waits for it in the
\* channel is the number of requests that ended with a status of that class:
\* no request is lost by a full channel or a panic, and none is counted twice.
THEOREM EachCountedOnce == Spec => []CountsAddUp
<1>1. Init => CountsAddUp
  <2> SUFFICES ASSUME Init, NEW c \in Classes
               PROVE  total[c] + Cardinality(Waiting(c)) = Cardinality(Ended(c))
    BY DEF CountsAddUp
  <2>1. total[c] = 0 /\ ch = <<>>
    BY DEF Init
  <2>2. DOMAIN ch = {}
    BY <2>1, EmptySeq, LenProperties
  <2>3. Waiting(c) = {}
    BY <2>2 DEF Waiting
  <2>4. Ended(c) = {}
    BY DEF Init, Ended, Measured
  <2> QED  BY <2>1, <2>3, <2>4, FS_EmptySet
<1> QED  BY <1>1, InitType, TypeStep, CountStep, PTL DEF Spec

=============================================================================
