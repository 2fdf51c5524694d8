--------------------------- MODULE MessageStore_proofs ---------------------------
(***************************************************************************)
(* Proofs about the message store, for every batch size, every number of   *)
(* messages and every set of messages that cannot be bound.  A message     *)
(* moves along four sequences: the queue, the writer's batch or main's,    *)
(* and the table.  That no message is stored twice and that the rows are   *)
(* in order are one argument about a relation R that holds along each of   *)
(* the sequences and from each to the next: inequality and less-than.      *)
(***************************************************************************)
EXTENDS MessageStore, SequenceTheorems, TLAPS

Unequal == {p \in Nat \X Nat : p[1] # p[2]}
Less == {p \in Nat \X Nat : p[1] < p[2]}

\* R holds from every element of s to every later one, ...
Rising(R, s) == \A i, j \in DOMAIN s : i < j => <<s[i], s[j]>> \in R

\* ... and from every element of s to every element of t.
Before(R, s, t) == \A i \in DOMAIN s, j \in DOMAIN t : <<s[i], t[j]>> \in R

\* Table, the writer's batch, main's batch and queue: R holds along each of
\* them and from each to the next.
Chain(R, t, h, f, q) ==
    /\ Rising(R, t) /\ Rising(R, h) /\ Rising(R, f) /\ Rising(R, q)
    /\ Before(R, t, h) /\ Before(R, t, f) /\ Before(R, t, q)
    /\ Before(R, h, q) /\ Before(R, f, q)
    /\ Before(R, h, f) /\ Before(R, f, h)

LEMMA AppendKeepsRising ==
    ASSUME NEW R, NEW s \in Seq(Nat), NEW x \in Nat, Rising(R, s),
           \A i \in DOMAIN s : <<s[i], x>> \in R
    PROVE  Rising(R, Append(s, x))
BY AppendProperties, LenProperties DEF Rising

LEMMA AppendKeepsBefore ==
    ASSUME NEW R, NEW s \in Seq(Nat), NEW t \in Seq(Nat), NEW x \in Nat, Before(R, s, t),
           \A i \in DOMAIN s : <<s[i], x>> \in R
    PROVE  Before(R, s, Append(t, x))
BY AppendProperties, LenProperties DEF Before

LEMMA AppendedBefore ==
    ASSUME NEW R, NEW s \in Seq(Nat), NEW t \in Seq(Nat), NEW x \in Nat, Before(R, s, t),
           \A j \in DOMAIN t : <<x, t[j]>> \in R
    PROVE  Before(R, Append(s, x), t)
BY AppendProperties, LenProperties DEF Before

LEMMA TailFacts ==
    ASSUME NEW s \in Seq(Nat), s # <<>>
    PROVE  /\ Tail(s) \in Seq(Nat)
           /\ Head(s) \in Nat
           /\ Head(s) = s[1]
           /\ Len(s) \in Nat \ {0}
           /\ DOMAIN s = 1 .. Len(s)
           /\ DOMAIN Tail(s) = 1 .. Len(s) - 1
           /\ \A i \in 1 .. Len(s) - 1 : Tail(s)[i] = s[i + 1]
BY HeadTailProperties, LenProperties, EmptySeq

LEMMA TailKeepsRising ==
    ASSUME NEW R, NEW s \in Seq(Nat), s # <<>>, Rising(R, s)
    PROVE  /\ Rising(R, Tail(s))
           /\ \A j \in DOMAIN Tail(s) : <<Head(s), Tail(s)[j]>> \in R
<1>1. /\ Head(s) = s[1] /\ Len(s) \in Nat \ {0}
      /\ DOMAIN s = 1 .. Len(s) /\ DOMAIN Tail(s) = 1 .. Len(s) - 1
      /\ \A i \in 1 .. Len(s) - 1 : Tail(s)[i] = s[i + 1]
  BY TailFacts
<1>2. ASSUME NEW i \in DOMAIN Tail(s), NEW j \in DOMAIN Tail(s), i < j
      PROVE  <<Tail(s)[i], Tail(s)[j]>> \in R
  <2>1. /\ i + 1 \in DOMAIN s /\ j + 1 \in DOMAIN s /\ i + 1 < j + 1
        /\ Tail(s)[i] = s[i + 1] /\ Tail(s)[j] = s[j + 1]
    BY <1>1, <1>2
  <2>2. QED
    BY <2>1 DEF Rising
<1>3. ASSUME NEW j \in DOMAIN Tail(s)
      PROVE  <<Head(s), Tail(s)[j]>> \in R
  BY <1>1 DEF Rising
<1>4. QED
  BY <1>2, <1>3 DEF Rising

LEMMA TailKeepsBefore ==
    ASSUME NEW R, NEW s \in Seq(Nat), NEW t \in Seq(Nat), t # <<>>, Before(R, s, t)
    PROVE  /\ Before(R, s, Tail(t))
           /\ \A i \in DOMAIN s : <<s[i], Head(t)>> \in R
BY TailFacts DEF Before

LEMMA ConcatFacts ==
    ASSUME NEW s \in Seq(Nat), NEW t \in Seq(Nat)
    PROVE  /\ s \o t \in Seq(Nat)
           /\ Len(s) \in Nat /\ DOMAIN s = 1 .. Len(s)
           /\ Len(t) \in Nat /\ DOMAIN t = 1 .. Len(t)
           /\ DOMAIN (s \o t) = 1 .. Len(s) + Len(t)
           /\ \A i \in 1 .. Len(s) : (s \o t)[i] = s[i]
           /\ \A i \in 1 .. Len(t) : (s \o t)[Len(s) + i] = t[i]
           /\ \A i \in 1 .. Len(s) + Len(t) :
                 \/ i \in DOMAIN s /\ (s \o t)[i] = s[i]
                 \/ i - Len(s) \in DOMAIN t /\ (s \o t)[i] = t[i - Len(s)]
BY ConcatProperties, LenProperties

LEMMA ConcatKeepsRising ==
    ASSUME NEW R, NEW s \in Seq(Nat), NEW t \in Seq(Nat), Rising(R, s), Rising(R, t), Before(R, s, t)
    PROVE  Rising(R, s \o t)
<1> SUFFICES ASSUME NEW i \in DOMAIN (s \o t), NEW j \in DOMAIN (s \o t), i < j
             PROVE  <<(s \o t)[i], (s \o t)[j]>> \in R
  BY DEF Rising
<1>1. /\ Len(s) \in Nat /\ DOMAIN s = 1 .. Len(s)
      /\ Len(t) \in Nat /\ DOMAIN t = 1 .. Len(t)
      /\ i \in Int /\ j \in Int
  BY ConcatFacts
<1>2. CASE i \in DOMAIN s /\ (s \o t)[i] = s[i]
  <2>1. CASE j \in DOMAIN s /\ (s \o t)[j] = s[j]
    BY <1>2, <2>1 DEF Rising
  <2>2. CASE j - Len(s) \in DOMAIN t /\ (s \o t)[j] = t[j - Len(s)]
    BY <1>2, <2>2 DEF Before
  <2>3. \/ j \in DOMAIN s /\ (s \o t)[j] = s[j]
        \/ j - Len(s) \in DOMAIN t /\ (s \o t)[j] = t[j - Len(s)]
    BY ConcatFacts
  <2>4. QED
    BY <2>1, <2>2, <2>3
<1>3. CASE i - Len(s) \in DOMAIN t /\ (s \o t)[i] = t[i - Len(s)]
  <2>1. j - Len(s) \in DOMAIN t /\ (s \o t)[j] = t[j - Len(s)]
    BY <1>1, <1>3, ConcatFacts
  <2>2. i - Len(s) < j - Len(s)
    BY <1>1
  <2>3. <<t[i - Len(s)], t[j - Len(s)]>> \in R
    BY <1>3, <2>1, <2>2 DEF Rising
  <2>4. QED
    BY <1>3, <2>1, <2>3
<1>4. \/ i \in DOMAIN s /\ (s \o t)[i] = s[i]
      \/ i - Len(s) \in DOMAIN t /\ (s \o t)[i] = t[i - Len(s)]
  BY ConcatFacts
<1>5. QED
  BY <1>2, <1>3, <1>4

LEMMA ConcatKeepsBefore ==
    ASSUME NEW R, NEW s \in Seq(Nat), NEW t \in Seq(Nat), NEW u \in Seq(Nat),
           Before(R, s, u), Before(R, t, u)
    PROVE  Before(R, s \o t, u)
BY ConcatFacts DEF Before

--------------------------------------------------------------------------------
(***************************************************************************)
(* Types, and what the program counters say of the other variables: a      *)
(* batch that may still grow has room, the writer is gone once main has    *)
(* exited or joined it, and every committed row is counted or about to be. *)
(***************************************************************************)
Room == writer \in {"loop", "check", "get"} => Len(batch) < BatchSize

WriterGone == main = "exited" \/ (~givenUp /\ main \notin {"up", "join"}) => ~Alive

WriterUncounted == IF writer \in {"count", "lastcount"} THEN Len(batch) ELSE 0

MainUncounted == IF main = "count" THEN Len(flush) ELSE 0

Counted == main # "exited" => totalStored + WriterUncounted + MainUncounted = Len(table)

StoreInv == TypeOK /\ Room /\ WriterGone /\ Counted

LEMMA TypeFacts ==
    ASSUME TypeOK
    PROVE  /\ captured \in Nat /\ stopMark \in Nat /\ totalStored \in Nat
           /\ queue \in Seq(Message) /\ batch \in Seq(Message)
           /\ flush \in Seq(Message) /\ table \in Seq(Message)
           /\ Len(queue) \in Nat /\ Len(batch) \in Nat
           /\ Len(flush) \in Nat /\ Len(table) \in Nat
BY LenProperties, MessagesAssumption DEF TypeOK

LEMMA InitStoreInv == Init => StoreInv
<1> SUFFICES ASSUME Init PROVE StoreInv
  OBVIOUS
<1>1. <<>> \in Seq(Message) /\ Len(<<>>) = 0
  BY EmptySeq
<1>2. TypeOK
  <2>1. running \in BOOLEAN /\ givenUp \in BOOLEAN
    BY Zenon DEF Init
  <2>2. captured = 0 /\ stopMark = 0 /\ totalStored = 0 /\ writer = "loop" /\ main = "up"
        /\ queue = <<>> /\ batch = <<>> /\ flush = <<>> /\ table = <<>>
    BY Zenon DEF Init
  <2>3. QED
    BY <1>1, <2>1, <2>2, MessagesAssumption, BatchAssumption DEF TypeOK
<1>3. Room /\ WriterGone /\ Counted
  BY <1>1, BatchAssumption DEF Init, Room, WriterGone, Counted, WriterUncounted, MainUncounted, Alive
<1>4. QED
  BY <1>2, <1>3 DEF StoreInv

LEMMA StoreKeepsStoreInv ==
    ASSUME StoreInv, Store
    PROVE  StoreInv'
<1>1. /\ TypeOK /\ captured' = captured + 1
      /\ UNCHANGED <<running, writer, batch, main, givenUp, flush, table, totalStored, stopMark>>
  BY DEF StoreInv, Store
<1>2. Message \subseteq Message' /\ captured + 1 \in Message'
  BY <1>1, TypeFacts DEF Message
<1>3. queue \in Seq(Message') /\ batch' \in Seq(Message') /\ flush' \in Seq(Message')
      /\ table' \in Seq(Message')
  BY <1>1, <1>2, TypeFacts, SeqMonotonic
<1>4. queue' \in Seq(Message')
  BY <1>2, <1>3, AppendProperties DEF Store
<1>5. TypeOK'
  <2>1. running' \in BOOLEAN /\ givenUp' \in BOOLEAN /\ writer' = writer /\ main' = main
    BY <1>1, Zenon DEF TypeOK
  <2>2. captured' \in 0 .. MaxMessages /\ stopMark' \in 0 .. captured'
    BY <1>1, TypeFacts, MessagesAssumption DEF TypeOK, Store
  <2>3. /\ Len(batch') <= BatchSize
        /\ totalStored' \in 0 .. Len(table')
    BY <1>1 DEF TypeOK
  <2>4. QED
    BY <1>1, <1>3, <1>4, <2>1, <2>2, <2>3 DEF TypeOK
<1>6. QED
  BY <1>1, <1>5 DEF StoreInv, Room, WriterGone, Counted, WriterUncounted, MainUncounted, Alive

LEMMA NextKeepsStoreInv ==
    ASSUME StoreInv, [Next]_vars
    PROVE  StoreInv'
<1>t. TypeOK /\ Room /\ WriterGone /\ Counted
  BY DEF StoreInv
<1>f. /\ captured \in Nat /\ stopMark \in Nat /\ totalStored \in Nat
      /\ queue \in Seq(Message) /\ batch \in Seq(Message)
      /\ flush \in Seq(Message) /\ table \in Seq(Message)
      /\ Len(queue) \in Nat /\ Len(batch) \in Nat
      /\ Len(flush) \in Nat /\ Len(table) \in Nat
  BY <1>t, TypeFacts
<1>e. <<>> \in Seq(Message) /\ Len(<<>>) = 0
  BY EmptySeq
<1>u. WriterUncounted \in Nat /\ MainUncounted \in Nat
  BY <1>f DEF WriterUncounted, MainUncounted
<1>1. CASE Store
  BY <1>1, StoreKeepsStoreInv
<1>2. CASE CheckRunning \/ CheckQueue \/ GetTimesOut \/ WriterDies
  <2>8. WriterUncounted' = WriterUncounted /\ MainUncounted' = MainUncounted
    BY <1>2, <1>t DEF CheckRunning, CheckQueue, GetTimesOut, WriterDies, TypeOK, WriterUncounted, MainUncounted
  <2>9. Counted'
    BY <1>2, <1>t, <1>f, <1>u, <2>8 DEF CheckRunning, CheckQueue, GetTimesOut, WriterDies, Counted
  <2>10. TypeOK'
    BY <1>2, <1>t, <1>f DEF CheckRunning, CheckQueue, GetTimesOut, WriterDies, TypeOK, Message, Room
  <2>11. Room' /\ WriterGone'
    BY <1>2, <1>t, <1>f DEF CheckRunning, CheckQueue, GetTimesOut, WriterDies, TypeOK, Room, WriterGone, Alive
  <2>12. QED
    BY <2>9, <2>10, <2>11 DEF StoreInv
<1>3. CASE Get
  <2>1. /\ batch' \in Seq(Message) /\ Len(batch') = Len(batch) + 1
        /\ queue' \in Seq(Message)
    BY <1>3, <1>f, HeadTailProperties, AppendProperties DEF Get
  <2>8. WriterUncounted' = WriterUncounted /\ MainUncounted' = MainUncounted
    BY <1>3, <1>t, <2>1 DEF Get, TypeOK, WriterUncounted, MainUncounted
  <2>9. Counted'
    BY <1>3, <1>t, <1>f, <1>u, <2>8, <2>1 DEF Get, Counted
  <2>10. TypeOK'
    BY <1>3, <1>t, <1>f, <2>1, BatchAssumption DEF Get, TypeOK, Message, Room
  <2>11. Room' /\ WriterGone'
    BY <1>3, <1>t, <1>f, <2>1, BatchAssumption DEF Get, TypeOK, Room, WriterGone, Alive
  <2>12. QED
    BY <2>9, <2>10, <2>11 DEF StoreInv
<1>4. CASE CommitBatch
  <2>1. table' \in Seq(Message) /\ Len(table') = Len(table) + Len(batch)
    BY <1>4, <1>f, ConcatProperties DEF CommitBatch
  <2>2. main # "exited"
    BY <1>4, <1>t DEF CommitBatch, WriterGone, Alive
  <2>8. WriterUncounted = 0 /\ WriterUncounted' = Len(batch) /\ MainUncounted' = MainUncounted
    BY <1>4, <1>t, <2>1 DEF CommitBatch, TypeOK, WriterUncounted, MainUncounted
  <2>9. Counted'
    <3>1. totalStored' = totalStored
      BY <1>4 DEF CommitBatch
    <3>2. totalStored + MainUncounted = Len(table)
      BY <1>t, <1>f, <1>u, <2>2, <2>8 DEF Counted
    <3>3. QED
      BY <1>f, <1>u, <2>1, <2>8, <3>1, <3>2 DEF Counted
  <2>10. TypeOK'
    BY <1>4, <1>t, <1>f, <2>1 DEF CommitBatch, TypeOK, Message, Room
  <2>11. Room' /\ WriterGone'
    BY <1>4, <1>t, <1>f, <2>1 DEF CommitBatch, TypeOK, Room, WriterGone, Alive
  <2>12. QED
    BY <2>9, <2>10, <2>11 DEF StoreInv
<1>5. CASE CountBatch
  <2>1. main # "exited"
    BY <1>5, <1>t DEF CountBatch, WriterGone, Alive
  <2>2. WriterUncounted = Len(batch)
    BY <1>5 DEF CountBatch, WriterUncounted
  <2>3. totalStored' \in 0 .. Len(table)
    BY <1>5, <1>t, <1>f, <1>u, <2>1, <2>2 DEF CountBatch, Counted
  <2>8. WriterUncounted' = 0 /\ MainUncounted' = MainUncounted
    BY <1>5, <1>t, <1>e, <2>2, <2>3, BatchAssumption DEF CountBatch, TypeOK, WriterUncounted, MainUncounted
  <2>9. Counted'
    BY <1>5, <1>t, <1>f, <1>u, <2>8, <1>e, <2>2, <2>3, BatchAssumption DEF CountBatch, Counted
  <2>10. TypeOK'
    BY <1>5, <1>t, <1>f, <1>e, <2>2, <2>3, BatchAssumption DEF CountBatch, TypeOK, Message, Room
  <2>11. Room' /\ WriterGone'
    BY <1>5, <1>t, <1>f, <1>e, <2>2, <2>3, BatchAssumption DEF CountBatch, TypeOK, Room, WriterGone, Alive
  <2>12. QED
    BY <2>9, <2>10, <2>11 DEF StoreInv
<1>6. CASE Stop \/ Joined
  <2>1. givenUp' \in BOOLEAN
    BY <1>6, <1>t, Zenon DEF Stop, Joined, TypeOK, Alive
  <2>2. UNCHANGED <<captured, queue, batch, flush, table, totalStored, writer>>
    BY <1>6, Zenon DEF Stop, Joined
  <2>3. running' \in BOOLEAN /\ main' \in {"join", "flush"} /\ main \in {"up", "join"}
    BY <1>6, <1>t, Zenon DEF Stop, Joined, TypeOK
  <2>4. stopMark' = captured \/ stopMark' = stopMark
    BY <1>6, Zenon DEF Stop, Joined
  <2>8. WriterUncounted' = WriterUncounted /\ MainUncounted = 0 /\ MainUncounted' = 0
    BY <2>2, <2>3 DEF WriterUncounted, MainUncounted
  <2>9. Counted'
    BY <1>t, <1>f, <1>u, <2>2, <2>3, <2>8 DEF Counted
  <2>10. TypeOK'
    BY <1>t, <1>f, <2>1, <2>2, <2>3, <2>4 DEF TypeOK, Message
  <2>11. Room' /\ WriterGone'
    BY <1>6, <1>t, Zenon DEF Stop, Joined, Room, WriterGone, Alive
  <2>12. QED
    BY <2>9, <2>10, <2>11 DEF StoreInv
<1>7. CASE Exit
  <2>9. Counted'
    BY <1>7 DEF Exit, Counted
  <2>10. TypeOK'
    BY <1>7, <1>t, <1>f DEF Exit, TypeOK, Message, Room
  <2>11. Room' /\ WriterGone'
    BY <1>7, <1>t, <1>f DEF Exit, TypeOK, Room, WriterGone, Alive
  <2>12. QED
    BY <2>9, <2>10, <2>11 DEF StoreInv
<1>8. CASE FlushGet
  <2>1. flush' \in Seq(Message) /\ queue' \in Seq(Message)
    BY <1>8, <1>f, HeadTailProperties, AppendProperties DEF FlushGet
  <2>8. WriterUncounted' = WriterUncounted /\ MainUncounted' = MainUncounted
    BY <1>8, <1>t, <2>1 DEF FlushGet, TypeOK, WriterUncounted, MainUncounted
  <2>9. Counted'
    BY <1>8, <1>t, <1>f, <1>u, <2>8, <2>1 DEF FlushGet, Counted
  <2>10. TypeOK'
    BY <1>8, <1>t, <1>f, <2>1 DEF FlushGet, TypeOK, Message, Room
  <2>11. Room' /\ WriterGone'
    BY <1>8, <1>t, <1>f, <2>1 DEF FlushGet, TypeOK, Room, WriterGone, Alive
  <2>12. QED
    BY <2>9, <2>10, <2>11 DEF StoreInv
<1>9. CASE FlushDrained
  <2>8. WriterUncounted' = WriterUncounted /\ MainUncounted' = MainUncounted
    BY <1>9, <1>t DEF FlushDrained, TypeOK, WriterUncounted, MainUncounted
  <2>9. Counted'
    BY <1>9, <1>t, <1>f, <1>u, <2>8 DEF FlushDrained, Counted
  <2>10. TypeOK'
    BY <1>9, <1>t, <1>f DEF FlushDrained, TypeOK, Message, Room
  <2>11. Room' /\ WriterGone'
    BY <1>9, <1>t, <1>f DEF FlushDrained, TypeOK, Room, WriterGone, Alive
  <2>12. QED
    BY <2>9, <2>10, <2>11 DEF StoreInv
<1>10. CASE CommitFlush
  <2>1. table' \in Seq(Message) /\ Len(table') = Len(table) + Len(flush)
    BY <1>10, <1>f, ConcatProperties DEF CommitFlush
  <2>8. MainUncounted = 0 /\ MainUncounted' = Len(flush) /\ WriterUncounted' = WriterUncounted
    BY <1>10, <1>t, <2>1 DEF CommitFlush, TypeOK, WriterUncounted, MainUncounted
  <2>9. Counted'
    <3>1. totalStored' = totalStored /\ main # "exited"
      BY <1>10 DEF CommitFlush
    <3>2. totalStored + WriterUncounted = Len(table)
      BY <1>t, <1>f, <1>u, <2>8, <3>1 DEF Counted
    <3>3. QED
      BY <1>f, <1>u, <2>1, <2>8, <3>1, <3>2 DEF Counted
  <2>10. TypeOK'
    BY <1>10, <1>t, <1>f, <2>1 DEF CommitFlush, TypeOK, Message, Room
  <2>11. Room' /\ WriterGone'
    BY <1>10, <1>t, <1>f, <2>1 DEF CommitFlush, TypeOK, Room, WriterGone, Alive
  <2>12. QED
    BY <2>9, <2>10, <2>11 DEF StoreInv
<1>11. CASE CountFlush
  <2>1. MainUncounted = Len(flush)
    BY <1>11 DEF CountFlush, MainUncounted
  <2>2. totalStored' \in 0 .. Len(table)
    BY <1>11, <1>t, <1>f, <1>u, <2>1 DEF CountFlush, Counted
  <2>8. MainUncounted' = 0 /\ WriterUncounted' = WriterUncounted
    BY <1>11, <1>t, <2>1, <2>2 DEF CountFlush, TypeOK, WriterUncounted, MainUncounted
  <2>9. Counted'
    BY <1>11, <1>t, <1>f, <1>u, <2>8, <2>1, <2>2 DEF CountFlush, Counted
  <2>10. TypeOK'
    BY <1>11, <1>t, <1>f, <2>1, <2>2 DEF CountFlush, TypeOK, Message, Room
  <2>11. Room' /\ WriterGone'
    BY <1>11, <1>t, <1>f, <2>1, <2>2 DEF CountFlush, TypeOK, Room, WriterGone, Alive
  <2>12. QED
    BY <2>9, <2>10, <2>11 DEF StoreInv
<1>12. CASE UNCHANGED vars
  BY <1>12, <1>t DEF StoreInv, vars, TypeOK, Message, Room, WriterGone, Counted,
         WriterUncounted, MainUncounted, Alive
<1>13. QED
  BY <1>1, <1>2, <1>3, <1>4, <1>5, <1>6, <1>7, <1>8, <1>9, <1>10, <1>11, <1>12 DEF Next, WriterStep, MainStep

(***************************************************************************)
(* Type correctness of the store, the bound on the batch and the count     *)
(* included.                                                               *)
(***************************************************************************)
THEOREM StoreType == Spec => []TypeOK
<1>1. Spec => []StoreInv
  BY InitStoreInv, NextKeepsStoreInv, PTL DEF Spec
<1>2. StoreInv => TypeOK
  BY DEF StoreInv
<1>3. QED
  BY <1>1, <1>2, PTL

--------------------------------------------------------------------------------
(***************************************************************************)
(* What the steps do to the four sequences.  The two batches play the same *)
(* part, so each fact is stated for the writer's only.                     *)
(***************************************************************************)
LEMMA NothingBefore ==
    ASSUME NEW R, NEW s
    PROVE  Rising(R, <<>>) /\ Before(R, <<>>, s) /\ Before(R, s, <<>>)
BY DEF Rising, Before

LEMMA ChainSwap ==
    ASSUME NEW R, NEW t, NEW h, NEW f, NEW q, Chain(R, t, h, f, q)
    PROVE  Chain(R, t, f, h, q)
BY DEF Chain

LEMMA ChainDrop ==
    ASSUME NEW R, NEW t, NEW h, NEW f, NEW q, Chain(R, t, h, f, q)
    PROVE  Chain(R, t, <<>>, f, q)
BY NothingBefore DEF Chain

LEMMA ChainPut ==
    ASSUME NEW R, NEW x \in Nat,
           NEW t \in Seq(Nat), NEW h \in Seq(Nat), NEW f \in Seq(Nat), NEW q \in Seq(Nat),
           Chain(R, t, h, f, q),
           \A i \in DOMAIN t : <<t[i], x>> \in R,
           \A i \in DOMAIN h : <<h[i], x>> \in R,
           \A i \in DOMAIN f : <<f[i], x>> \in R,
           \A i \in DOMAIN q : <<q[i], x>> \in R
    PROVE  Chain(R, t, h, f, Append(q, x))
<1>1. Rising(R, Append(q, x))
  BY AppendKeepsRising DEF Chain
<1>2. Before(R, t, Append(q, x)) /\ Before(R, h, Append(q, x)) /\ Before(R, f, Append(q, x))
  BY AppendKeepsBefore DEF Chain
<1>3. QED
  BY <1>1, <1>2 DEF Chain

LEMMA ChainGet ==
    ASSUME NEW R,
           NEW t \in Seq(Nat), NEW h \in Seq(Nat), NEW f \in Seq(Nat), NEW q \in Seq(Nat),
           Chain(R, t, h, f, q), q # <<>>,
           f = <<>> \/ \A x, y \in Nat : <<x, y>> \in R => <<y, x>> \in R
    PROVE  Chain(R, t, Append(h, Head(q)), f, Tail(q))
<1> DEFINE x == Head(q)
<1>1. x \in Nat /\ Tail(q) \in Seq(Nat)
  BY TailFacts
<1>2. /\ \A i \in DOMAIN t : <<t[i], x>> \in R
      /\ \A i \in DOMAIN h : <<h[i], x>> \in R
      /\ \A i \in DOMAIN f : <<f[i], x>> \in R
      /\ \A i \in DOMAIN Tail(q) : <<x, Tail(q)[i]>> \in R
  BY TailKeepsBefore, TailKeepsRising DEF Chain
<1>3. \A i \in DOMAIN f : <<x, f[i]>> \in R
  <2>1. CASE f = <<>>
    BY <2>1
  <2>2. CASE \A y, z \in Nat : <<y, z>> \in R => <<z, y>> \in R
    BY <1>1, <1>2, <2>2, LenProperties, ElementOfSeq
  <2>3. QED
    BY <2>1, <2>2
<1>4. /\ Rising(R, Tail(q)) /\ Before(R, t, Tail(q)) /\ Before(R, h, Tail(q)) /\ Before(R, f, Tail(q))
  BY TailKeepsBefore, TailKeepsRising DEF Chain
<1>5. Rising(R, Append(h, x)) /\ Before(R, t, Append(h, x)) /\ Before(R, f, Append(h, x))
  BY <1>1, <1>2, AppendKeepsRising, AppendKeepsBefore DEF Chain
<1>6. Before(R, Append(h, x), Tail(q)) /\ Before(R, Append(h, x), f)
  BY <1>1, <1>2, <1>3, <1>4, AppendedBefore DEF Chain
<1>7. QED
  BY <1>4, <1>5, <1>6 DEF Chain

LEMMA ChainCommit ==
    ASSUME NEW R,
           NEW t \in Seq(Nat), NEW h \in Seq(Nat), NEW f \in Seq(Nat), NEW q \in Seq(Nat),
           Chain(R, t, h, f, q)
    PROVE  Chain(R, t \o h, <<>>, f, q)
<1>1. Rising(R, t \o h)
  BY ConcatKeepsRising DEF Chain
<1>2. Before(R, t \o h, f) /\ Before(R, t \o h, q)
  BY ConcatKeepsBefore DEF Chain
<1>3. QED
  BY <1>1, <1>2, NothingBefore DEF Chain

LEMMA ChainInNat ==
    ASSUME TypeOK
    PROVE  /\ captured \in Nat
           /\ table \in Seq(Nat) /\ queue \in Seq(Nat) /\ batch \in Seq(Nat) /\ flush \in Seq(Nat)
           /\ InHand \in Seq(Nat) /\ InFlush \in Seq(Nat)
           /\ InHand \in Seq(Message) /\ InFlush \in Seq(Message)
<1>1. Message \subseteq Nat /\ captured \in Nat
  BY TypeFacts DEF Message
<1>2. /\ table \in Seq(Nat) /\ queue \in Seq(Nat) /\ batch \in Seq(Nat) /\ flush \in Seq(Nat)
  BY <1>1, TypeFacts, SeqMonotonic
<1>3. <<>> \in Seq(Nat) /\ <<>> \in Seq(Message)
  BY EmptySeq
<1>4. QED
  BY <1>1, <1>2, <1>3, TypeFacts DEF InHand, InFlush

--------------------------------------------------------------------------------
(***************************************************************************)
(* The four sequences of the store are chained by inequality, and by less- *)
(* than as long as the join was not given up: main then takes messages     *)
(* only after the writer's last one is in the table or lost.               *)
(***************************************************************************)
Linked(R) == Chain(R, table, InHand, InFlush, queue)

\* A put message follows every earlier one in R.
Fits(R) == \A m \in Nat, n \in Nat : m < n => <<m, n>> \in R

\* Two drainers may take messages only if R does not tell the order.
MayTake(R) ==
    \/ \A x, y \in Nat : <<x, y>> \in R => <<y, x>> \in R
    \/ ~Alive
    \/ main \in {"up", "join"}

\* main has a batch of its own, and may have given up the join, only once it
\* flushes.
BeforeFlush == main \in {"up", "join"} => flush = <<>> /\ ~givenUp

LEMMA NextKeepsBeforeFlush ==
    ASSUME BeforeFlush, [Next]_vars
    PROVE  BeforeFlush'
<1>1. CASE Store \/ WriterStep
  BY <1>1, Zenon DEF Store, WriterStep, CheckRunning, CheckQueue, Get, GetTimesOut, CommitBatch,
     WriterDies, CountBatch, BeforeFlush
<1>2. CASE Stop \/ MainStep
  <2>1. CASE Stop
    BY <2>1, Zenon DEF Stop, BeforeFlush
  <2>2. CASE MainStep
    <3>1. main' \notin {"up", "join"}
      BY <2>2 DEF MainStep, Joined, FlushGet, FlushDrained, CommitFlush, CountFlush, Exit
    <3>2. QED
      BY <3>1 DEF BeforeFlush
  <2>3. QED
    BY <1>2, <2>1, <2>2
<1>3. CASE UNCHANGED vars
  BY <1>3, Zenon DEF vars, BeforeFlush
<1>4. QED
  BY <1>1, <1>2, <1>3 DEF Next

LEMMA WriterKeepsLinked ==
    ASSUME StoreInv, NEW R, MayTake(R), Linked(R), WriterStep
    PROVE  Linked(R)'
<1> SUFFICES Chain(R, table', InHand', InFlush', queue')
  BY DEF Linked
<1>t. TypeOK
  BY DEF StoreInv
<1>n. /\ table \in Seq(Nat) /\ queue \in Seq(Nat) /\ batch \in Seq(Nat)
      /\ InHand \in Seq(Nat) /\ InFlush \in Seq(Nat)
      /\ Chain(R, table, InHand, InFlush, queue)
  BY <1>t, ChainInNat DEF Linked
<1>f. InFlush' = InFlush
  BY Zenon DEF WriterStep, CheckRunning, CheckQueue, Get, GetTimesOut, CommitBatch, WriterDies,
     CountBatch, InFlush
<1>1. CASE CheckRunning \/ GetTimesOut
  <2>1. table' = table /\ queue' = queue /\ batch' = batch
    BY <1>1, Zenon DEF CheckRunning, GetTimesOut
  <2>2. InHand' = InHand
    BY <1>1, <2>1 DEF CheckRunning, GetTimesOut, InHand
  <2>3. QED
    BY <1>n, <1>f, <2>1, <2>2
<1>2. CASE CheckQueue
  <2>1. table' = table /\ queue' = queue /\ batch' = batch
    BY <1>2, Zenon DEF CheckQueue
  <2>2. InHand' = InHand
    BY <1>2, <2>1 DEF CheckQueue, InHand
  <2>3. QED
    BY <1>n, <1>f, <2>1, <2>2
<1>3. CASE Get
  <2>1. /\ writer = "get" /\ queue # <<>> /\ table' = table /\ queue' = Tail(queue)
        /\ batch' = Append(batch, Head(queue)) /\ writer' \in {"write", "loop"}
    BY <1>3, Zenon DEF Get
  <2>2. InHand = batch /\ InHand' = batch'
    BY <2>1 DEF InHand
  <2>3. InFlush = <<>> \/ \A x, y \in Nat : <<x, y>> \in R => <<y, x>> \in R
    BY <2>1 DEF MayTake, InFlush, Alive
  <2>4. Chain(R, table, Append(InHand, Head(queue)), InFlush, Tail(queue))
    BY <1>n, <2>1, <2>3, ChainGet
  <2>5. QED
    BY <1>f, <2>1, <2>2, <2>4
<1>4. CASE CommitBatch
  <2>1. /\ writer \in {"write", "last"} /\ table' = table \o batch /\ queue' = queue
        /\ writer' \in {"count", "lastcount"}
    BY <1>4, Zenon DEF CommitBatch
  <2>2. InHand = batch /\ InHand' = <<>>
    BY <2>1 DEF InHand
  <2>3. Chain(R, table \o InHand, <<>>, InFlush, queue)
    BY <1>n, ChainCommit
  <2>4. QED
    BY <1>f, <2>1, <2>2, <2>3
<1>5. CASE WriterDies \/ CountBatch
  <2>1. table' = table /\ queue' = queue /\ InHand' = <<>>
    BY <1>5 DEF WriterDies, CountBatch, InHand
  <2>2. Chain(R, table, <<>>, InFlush, queue)
    BY <1>n, ChainDrop
  <2>3. QED
    BY <1>f, <2>1, <2>2
<1>6. QED
  BY <1>1, <1>2, <1>3, <1>4, <1>5 DEF WriterStep

LEMMA MainKeepsLinked ==
    ASSUME StoreInv, BeforeFlush, NEW R, MayTake(R), Linked(R), Stop \/ MainStep
    PROVE  Linked(R)'
<1> SUFFICES Chain(R, table', InHand', InFlush', queue')
  BY DEF Linked
<1>t. TypeOK
  BY DEF StoreInv
<1>n. /\ table \in Seq(Nat) /\ queue \in Seq(Nat) /\ flush \in Seq(Nat)
      /\ InHand \in Seq(Nat) /\ InFlush \in Seq(Nat)
      /\ Chain(R, table, InHand, InFlush, queue)
      /\ Chain(R, table, InFlush, InHand, queue)
  BY <1>t, ChainInNat, ChainSwap DEF Linked
<1>1. CASE Stop
  <2>1. /\ table' = table /\ queue' = queue /\ InHand' = InHand
        /\ InFlush = <<>> /\ InFlush' = <<>>
    BY <1>1 DEF Stop, InHand, InFlush, BeforeFlush
  <2>2. QED
    BY <1>n, <2>1
<1>2. CASE Joined
  <2>1. /\ table' = table /\ queue' = queue /\ InHand' = InHand
        /\ InFlush = <<>> /\ InFlush' = <<>>
    BY <1>2 DEF Joined, InHand, InFlush, BeforeFlush
  <2>2. QED
    BY <1>n, <2>1
<1>3. CASE FlushGet
  <2>1. /\ main = "flush" /\ queue # <<>> /\ table' = table /\ queue' = Tail(queue)
        /\ flush' = Append(flush, Head(queue)) /\ main' = "flush" /\ InHand' = InHand
    BY <1>3, Zenon DEF FlushGet, InHand
  <2>2. InFlush = flush /\ InFlush' = flush'
    BY <2>1 DEF InFlush
  <2>3. InHand = <<>> \/ \A x, y \in Nat : <<x, y>> \in R => <<y, x>> \in R
    BY <2>1 DEF MayTake, InHand, Alive
  <2>4. Chain(R, table, Append(InFlush, Head(queue)), InHand, Tail(queue))
    BY <1>n, <2>1, <2>3, ChainGet
  <2>5. QED
    BY <2>1, <2>2, <2>4, ChainSwap
<1>4. CASE FlushDrained
  <2>1. /\ table' = table /\ queue' = queue /\ InHand' = InHand /\ flush' = flush
        /\ main = "flush" /\ main' = IF flush # <<>> THEN "write" ELSE "stopped"
    BY <1>4, Zenon DEF FlushDrained, InHand
  <2>2. InFlush' = InFlush
    BY <2>1 DEF InFlush
  <2>3. QED
    BY <1>n, <2>1, <2>2
<1>5. CASE CommitFlush
  <2>1. /\ table' = table \o flush /\ queue' = queue /\ InHand' = InHand
        /\ InFlush = flush /\ InFlush' = <<>>
    BY <1>5 DEF CommitFlush, InHand, InFlush
  <2>2. Chain(R, table \o InFlush, <<>>, InHand, queue)
    BY <1>n, ChainCommit
  <2>3. QED
    BY <2>1, <2>2, ChainSwap
<1>6. CASE CountFlush
  <2>1. /\ table' = table /\ queue' = queue /\ InHand' = InHand
        /\ InFlush = <<>> /\ InFlush' = <<>>
    BY <1>6 DEF CountFlush, InHand, InFlush
  <2>2. QED
    BY <1>n, <2>1
<1>7. CASE Exit
  <2>1. /\ table' = table /\ queue' = queue /\ InFlush' = <<>>
        /\ InHand' = InHand \/ InHand' = <<>>
    BY <1>7 DEF Exit, InHand, InFlush, Alive
  <2>2. Chain(R, table, <<>>, InHand, queue) /\ Chain(R, table, <<>>, <<>>, queue)
    BY <1>n, ChainDrop, ChainSwap
  <2>3. QED
    BY <2>1, <2>2, ChainSwap
<1>8. QED
  BY <1>1, <1>2, <1>3, <1>4, <1>5, <1>6, <1>7 DEF MainStep

LEMMA StoreKeepsLinked ==
    ASSUME StoreInv, NEW R, Fits(R), Linked(R), Store
    PROVE  Linked(R)'
<1> SUFFICES Chain(R, table', InHand', InFlush', queue')
  BY DEF Linked
<1>1. /\ table' = table /\ InHand' = InHand /\ InFlush' = InFlush
      /\ queue' = Append(queue, captured + 1)
  BY DEF Store, InHand, InFlush
<1>2. TypeOK
  BY DEF StoreInv
<1>3. ASSUME NEW s \in Seq(Message), NEW i \in DOMAIN s
      PROVE  <<s[i], captured + 1>> \in R
  <2>1. s[i] \in 1 .. captured /\ captured \in Nat
    BY <1>2, <1>3, TypeFacts, ElementOfSeq, LenProperties DEF Message
  <2>2. QED
    BY <2>1 DEF Fits
<1>4. /\ \A i \in DOMAIN table : <<table[i], captured + 1>> \in R
      /\ \A i \in DOMAIN InHand : <<InHand[i], captured + 1>> \in R
      /\ \A i \in DOMAIN InFlush : <<InFlush[i], captured + 1>> \in R
      /\ \A i \in DOMAIN queue : <<queue[i], captured + 1>> \in R
  BY <1>2, <1>3, TypeFacts, ChainInNat
<1>5. QED
  <2>1. captured + 1 \in Nat
    BY <1>2, TypeFacts
  <2>2. Chain(R, table, InHand, InFlush, Append(queue, captured + 1))
    BY <1>2, <1>4, <2>1, ChainInNat, ChainPut DEF Linked
  <2>3. QED
    BY <1>1, <2>2

LEMMA StutterKeepsLinked ==
    ASSUME NEW R, Linked(R), UNCHANGED vars
    PROVE  Linked(R)'
<1>1. table' = table /\ queue' = queue /\ InHand' = InHand /\ InFlush' = InFlush
  BY DEF vars, InHand, InFlush
<1>2. QED
  BY <1>1 DEF Linked

LEMMA NextKeepsLinked ==
    ASSUME StoreInv, BeforeFlush, NEW R, Fits(R), MayTake(R), Linked(R), [Next]_vars
    PROVE  Linked(R)'
BY StoreKeepsLinked, WriterKeepsLinked, MainKeepsLinked, StutterKeepsLinked DEF Next

LinkInv ==
    /\ StoreInv
    /\ BeforeFlush
    /\ Linked(Unequal)
    /\ ~givenUp => Linked(Less)

LEMMA InitLinkInv == Init => LinkInv
<1> SUFFICES ASSUME Init PROVE LinkInv
  OBVIOUS
<1>1. table = <<>> /\ queue = <<>> /\ InHand = <<>> /\ InFlush = <<>>
  BY DEF Init, InHand, InFlush
<1>2. ASSUME NEW R PROVE Linked(R)
  BY <1>1, NothingBefore DEF Linked, Chain
<1>3. StoreInv /\ BeforeFlush
  BY InitStoreInv DEF Init, BeforeFlush
<1>4. Linked(Unequal) /\ Linked(Less)
  BY <1>2
<1>5. QED
  BY <1>3, <1>4 DEF LinkInv

LEMMA NextKeepsLinkInv == LinkInv /\ [Next]_vars => LinkInv'
<1> SUFFICES ASSUME LinkInv, [Next]_vars PROVE LinkInv'
  OBVIOUS
<1>1. StoreInv /\ BeforeFlush /\ StoreInv' /\ BeforeFlush'
  BY NextKeepsStoreInv, NextKeepsBeforeFlush DEF LinkInv
<1>2. Linked(Unequal)'
  <2>1. Fits(Unequal) /\ MayTake(Unequal)
    BY DEF Fits, MayTake, Unequal
  <2>2. Linked(Unequal)
    BY DEF LinkInv
  <2>3. QED
    BY <1>1, <2>1, <2>2, NextKeepsLinked
<1>3. ASSUME ~givenUp' PROVE Linked(Less)'
  <2>1. ~givenUp
    <3>1. CASE Joined
      BY <1>1, <3>1, Zenon DEF Joined, BeforeFlush
    <3>2. CASE ~Joined
      <4>1. givenUp' = givenUp
        BY <3>2, Zenon DEF Next, Store, WriterStep, CheckRunning, CheckQueue, Get, GetTimesOut,
           CommitBatch, WriterDies, CountBatch, Stop, MainStep, FlushGet, FlushDrained,
           CommitFlush, CountFlush, Exit, vars
      <4>2. QED
        BY <1>3, <4>1, Zenon
    <3>3. QED
      BY <3>1, <3>2
  <2>2. Fits(Less)
    BY DEF Fits, Less
  <2>3. MayTake(Less)
    BY <1>1, <2>1 DEF MayTake, StoreInv, WriterGone
  <2>4. Linked(Less)
    BY <2>1 DEF LinkInv
  <2>5. QED
    BY <1>1, <2>2, <2>3, <2>4, NextKeepsLinked
<1>4. QED
  BY <1>1, <1>2, <1>3 DEF LinkInv

LEMMA LinkInvAlways == Spec => []LinkInv
BY InitLinkInv, NextKeepsLinkInv, PTL DEF Spec

(***************************************************************************)
(* No message has two rows, whoever drains the queue.                      *)
(***************************************************************************)
THEOREM EachMessageStoredOnce == Spec => []EachMessageOnce
<1>1. ASSUME LinkInv PROVE EachMessageOnce
  <2>1. \A i, j \in DOMAIN table : i < j => <<table[i], table[j]>> \in Unequal
    BY <1>1 DEF LinkInv, Linked, Chain, Rising
  <2>2. table \in Seq(Nat) /\ DOMAIN table = 1 .. Len(table) /\ Len(table) \in Nat
    BY <1>1, ChainInNat, LenProperties DEF LinkInv, StoreInv
  <2>3. ASSUME NEW i \in DOMAIN table, NEW j \in DOMAIN table, table[i] = table[j]
        PROVE  i = j
    <3>1. i < j => table[i] # table[j]
      BY <2>1 DEF Unequal
    <3>2. j < i => table[j] # table[i]
      BY <2>1 DEF Unequal
    <3>3. QED
      BY <2>2, <2>3, <3>1, <3>2
  <2>4. QED
    BY <2>3 DEF EachMessageOnce, IsInjective
<1>2. QED
  BY <1>1, LinkInvAlways, PTL

(***************************************************************************)
(* The rows follow the order of capture, unless the join was given up.     *)
(***************************************************************************)
THEOREM RowsFollowCapture == Spec => []RowsInOrder
<1>1. ASSUME LinkInv PROVE RowsInOrder
  <2> SUFFICES ASSUME ~givenUp, NEW i \in DOMAIN table, NEW j \in DOMAIN table, i < j
               PROVE  table[i] < table[j]
    BY DEF RowsInOrder
  <2>1. Linked(Less)
    BY <1>1 DEF LinkInv
  <2>2. <<table[i], table[j]>> \in Less
    BY <2>1 DEF Linked, Chain, Rising
  <2>3. QED
    BY <2>2 DEF Less
<1>2. QED
  BY <1>1, LinkInvAlways, PTL

--------------------------------------------------------------------------------
(***************************************************************************)
(* Where every captured message is.                                        *)
(***************************************************************************)
LEMMA ToSetFacts ==
    ASSUME NEW s \in Seq(Nat), NEW t \in Seq(Nat), NEW x \in Nat
    PROVE  /\ ToSet(Append(s, x)) = ToSet(s) \cup {x}
           /\ ToSet(s \o t) = ToSet(s) \cup ToSet(t)
           /\ s # <<>> => ToSet(s) = {Head(s)} \cup ToSet(Tail(s))
<1>1. ToSet(Append(s, x)) = ToSet(s) \cup {x}
  <2>1. /\ Len(s) \in Nat /\ DOMAIN s = 1 .. Len(s) /\ DOMAIN Append(s, x) = 1 .. Len(s) + 1
        /\ \A i \in 1 .. Len(s) : Append(s, x)[i] = s[i]
        /\ Append(s, x)[Len(s) + 1] = x
    BY AppendProperties, LenProperties
  <2>2. QED
    BY <2>1 DEF ToSet
<1>2. ToSet(s \o t) = ToSet(s) \cup ToSet(t)
  <2>1. ASSUME NEW y \in ToSet(s \o t) PROVE y \in ToSet(s) \cup ToSet(t)
    <3>1. PICK i \in DOMAIN (s \o t) : y = (s \o t)[i]
      BY DEF ToSet
    <3>2. \/ i \in DOMAIN s /\ (s \o t)[i] = s[i]
          \/ i - Len(s) \in DOMAIN t /\ (s \o t)[i] = t[i - Len(s)]
      BY ConcatFacts
    <3>3. QED
      BY <3>1, <3>2 DEF ToSet
  <2>2. ASSUME NEW y \in ToSet(s) PROVE y \in ToSet(s \o t)
    <3>1. PICK i \in DOMAIN s : y = s[i]
      BY DEF ToSet
    <3>2. i \in DOMAIN (s \o t) /\ y = (s \o t)[i]
      BY <3>1, ConcatFacts
    <3>3. QED
      BY <3>2 DEF ToSet
  <2>3. ASSUME NEW y \in ToSet(t) PROVE y \in ToSet(s \o t)
    <3>1. PICK i \in DOMAIN t : y = t[i]
      BY DEF ToSet
    <3>2. Len(s) + i \in DOMAIN (s \o t) /\ y = (s \o t)[Len(s) + i]
      BY <3>1, ConcatFacts
    <3>3. QED
      BY <3>2 DEF ToSet
  <2>4. QED
    BY <2>1, <2>2, <2>3
<1>3. ASSUME s # <<>> PROVE ToSet(s) = {Head(s)} \cup ToSet(Tail(s))
  <2>1. /\ Head(s) = s[1] /\ Len(s) \in Nat \ {0}
        /\ DOMAIN s = 1 .. Len(s) /\ DOMAIN Tail(s) = 1 .. Len(s) - 1
        /\ \A i \in 1 .. Len(s) - 1 : Tail(s)[i] = s[i + 1]
    BY <1>3, TailFacts
  <2>2. ASSUME NEW i \in DOMAIN s PROVE s[i] \in {Head(s)} \cup ToSet(Tail(s))
    <3>1. CASE i = 1
      BY <2>1, <3>1
    <3>2. CASE i # 1
      <4>1. i - 1 \in DOMAIN Tail(s) /\ Tail(s)[i - 1] = s[i]
        BY <2>1, <3>2
      <4>2. QED
        BY <4>1 DEF ToSet
    <3>3. QED
      BY <3>1, <3>2
  <2>3. ASSUME NEW i \in DOMAIN Tail(s) PROVE Tail(s)[i] \in ToSet(s)
    <3>1. i + 1 \in DOMAIN s /\ Tail(s)[i] = s[i + 1]
      BY <2>1
    <3>2. QED
      BY <3>1 DEF ToSet
  <2>4. Head(s) \in ToSet(s)
    BY <2>1 DEF ToSet
  <2>5. QED
    BY <2>2, <2>3, <2>4 DEF ToSet
<1>4. QED
  BY <1>1, <1>2, <1>3

LEMMA NoneInEmpty == ToSet(<<>>) = {}
BY DEF ToSet

\* Where a message may be.
Somewhere == ToSet(table) \cup ToSet(InHand) \cup ToSet(InFlush) \cup ToSet(queue)

LEMMA NextKeepsAccounted ==
    ASSUME StoreInv, BeforeFlush, Accounted, [Next]_vars
    PROVE  Accounted'
<1> SUFFICES ASSUME writer' # "dead", main' # "exited"
             PROVE  Message' \subseteq Somewhere'
  BY DEF Accounted, Somewhere
<1>t. TypeOK
  BY DEF StoreInv
<1>n. /\ table \in Seq(Nat) /\ queue \in Seq(Nat) /\ batch \in Seq(Nat) /\ flush \in Seq(Nat)
      /\ captured \in Nat
  BY <1>t, ChainInNat
<1>0. writer # "dead" /\ main # "exited" /\ Message \subseteq Somewhere
  <2>1. writer # "dead"
    BY DEF Next, Store, WriterStep, CheckRunning, CheckQueue, Get, GetTimesOut, CommitBatch,
       WriterDies, CountBatch, Stop, MainStep, Joined, FlushGet, FlushDrained, CommitFlush,
       CountFlush, Exit, vars, Alive
  <2>2. main # "exited"
    BY DEF Next, Store, WriterStep, CheckRunning, CheckQueue, Get, GetTimesOut, CommitBatch,
       WriterDies, CountBatch, Stop, MainStep, Joined, FlushGet, FlushDrained, CommitFlush,
       CountFlush, Exit, vars
  <2>3. QED
    BY <2>1, <2>2 DEF Accounted, Somewhere
<1>1. CASE Store
  <2>1. /\ table' = table /\ InHand' = InHand /\ InFlush' = InFlush
        /\ queue' = Append(queue, captured + 1) /\ captured' = captured + 1
    BY <1>1 DEF Store, InHand, InFlush
  <2>2. ToSet(queue') = ToSet(queue) \cup {captured + 1}
    BY <1>n, <2>1, ToSetFacts
  <2>3. Message' \subseteq Message \cup {captured + 1}
    BY <1>n, <2>1 DEF Message
  <2>4. QED
    BY <1>0, <2>1, <2>2, <2>3 DEF Somewhere
<1>2. ASSUME captured' = captured, Somewhere \subseteq Somewhere'
      PROVE  Message' \subseteq Somewhere'
  BY <1>0, <1>2 DEF Message
<1>3. CASE CheckRunning \/ CheckQueue \/ GetTimesOut \/ CountBatch
  <2>1. /\ captured' = captured /\ table' = table /\ queue' = queue /\ InFlush' = InFlush
    BY <1>3, Zenon DEF CheckRunning, CheckQueue, GetTimesOut, CountBatch, InFlush
  <2>2. InHand' = InHand
    <3>1. CASE CheckRunning \/ GetTimesOut
      BY <3>1 DEF CheckRunning, GetTimesOut, InHand
    <3>2. CASE CheckQueue
      BY <3>2 DEF CheckQueue, InHand
    <3>3. CASE CountBatch
      BY <3>3 DEF CountBatch, InHand
    <3>4. QED
      BY <1>3, <3>1, <3>2, <3>3
  <2>3. QED
    BY <1>2, <2>1, <2>2 DEF Somewhere
<1>4. CASE Get
  <2>1. /\ writer = "get" /\ queue # <<>> /\ table' = table /\ queue' = Tail(queue)
        /\ batch' = Append(batch, Head(queue)) /\ writer' \in {"write", "loop"}
        /\ captured' = captured /\ InFlush' = InFlush
    BY <1>4, Zenon DEF Get, InFlush
  <2>2. InHand = batch /\ InHand' = batch'
    BY <2>1 DEF InHand
  <2>3. Head(queue) \in Nat
    BY <1>n, <2>1, TailFacts
  <2>4. ToSet(batch') = ToSet(batch) \cup {Head(queue)}
        /\ ToSet(queue) = {Head(queue)} \cup ToSet(Tail(queue))
    BY <1>n, <2>1, <2>3, ToSetFacts
  <2>5. QED
    BY <1>2, <2>1, <2>2, <2>4 DEF Somewhere
<1>5. CASE CommitBatch
  <2>1. /\ writer \in {"write", "last"} /\ table' = table \o batch /\ queue' = queue
        /\ captured' = captured /\ InFlush' = InFlush
    BY <1>5, Zenon DEF CommitBatch, InFlush
  <2>2. InHand = batch
    BY <2>1 DEF InHand
  <2>3. ToSet(table') = ToSet(table) \cup ToSet(batch)
    BY <1>n, <2>1, ToSetFacts
  <2>4. QED
    BY <1>2, <2>1, <2>2, <2>3 DEF Somewhere
<1>6. CASE WriterDies \/ Exit
  BY <1>6 DEF WriterDies, Exit
<1>7. CASE Stop \/ Joined \/ CountFlush
  <2>1. /\ captured' = captured /\ table' = table /\ queue' = queue /\ InHand' = InHand
    BY <1>7, Zenon DEF Stop, Joined, CountFlush, InHand
  <2>2. InFlush = <<>>
    BY <1>7 DEF Stop, Joined, CountFlush, InFlush
  <2>3. QED
    BY <1>2, <2>1, <2>2, NoneInEmpty DEF Somewhere
<1>8. CASE FlushGet
  <2>1. /\ main = "flush" /\ queue # <<>> /\ table' = table /\ queue' = Tail(queue)
        /\ flush' = Append(flush, Head(queue)) /\ main' = "flush" /\ InHand' = InHand
        /\ captured' = captured
    BY <1>8, Zenon DEF FlushGet, InHand
  <2>2. InFlush = flush /\ InFlush' = flush'
    BY <2>1 DEF InFlush
  <2>3. Head(queue) \in Nat
    BY <1>n, <2>1, TailFacts
  <2>4. ToSet(flush') = ToSet(flush) \cup {Head(queue)}
        /\ ToSet(queue) = {Head(queue)} \cup ToSet(Tail(queue))
    BY <1>n, <2>1, <2>3, ToSetFacts
  <2>5. QED
    BY <1>2, <2>1, <2>2, <2>4 DEF Somewhere
<1>9. CASE FlushDrained
  <2>1. /\ table' = table /\ queue' = queue /\ InHand' = InHand /\ flush' = flush
        /\ captured' = captured
        /\ main = "flush" /\ main' = IF flush # <<>> THEN "write" ELSE "stopped"
    BY <1>9, Zenon DEF FlushDrained, InHand
  <2>2. InFlush' = InFlush
    BY <2>1 DEF InFlush
  <2>3. QED
    BY <1>2, <2>1, <2>2 DEF Somewhere
<1>10. CASE CommitFlush
  <2>1. /\ main = "write" /\ table' = table \o flush /\ queue' = queue /\ InHand' = InHand
        /\ captured' = captured
    BY <1>10, Zenon DEF CommitFlush, InHand
  <2>2. InFlush = flush
    BY <2>1 DEF InFlush
  <2>3. ToSet(table') = ToSet(table) \cup ToSet(flush)
    BY <1>n, <2>1, ToSetFacts
  <2>4. QED
    BY <1>2, <2>1, <2>2, <2>3 DEF Somewhere
<1>11. CASE UNCHANGED vars
  <2>1. captured' = captured /\ table' = table /\ queue' = queue /\ InHand' = InHand /\ InFlush' = InFlush
    BY <1>11 DEF vars, InHand, InFlush
  <2>2. QED
    BY <1>2, <2>1 DEF Somewhere
<1>12. QED
  BY <1>1, <1>3, <1>4, <1>5, <1>6, <1>7, <1>8, <1>9, <1>10, <1>11 DEF Next, WriterStep, MainStep

(***************************************************************************)
(* Once main has seen the queue empty, what is in it was put after stop.   *)
(***************************************************************************)
Drained ==
    main \in {"write", "count", "stopped"} => \A m \in ToSet(queue) : m > stopMark

LEMMA NextKeepsDrained ==
    ASSUME StoreInv, Drained, [Next]_vars
    PROVE  Drained'
<1> SUFFICES ASSUME main' \in {"write", "count", "stopped"}, NEW m \in ToSet(queue')
             PROVE  m > stopMark'
  BY DEF Drained
<1>t. TypeOK
  BY DEF StoreInv
<1>n. queue \in Seq(Nat) /\ captured \in Nat /\ stopMark \in 0 .. captured
  BY <1>t, ChainInNat DEF TypeOK
<1>1. CASE Store
  <2>1. main' = main /\ stopMark' = stopMark /\ queue' = Append(queue, captured + 1)
    BY <1>1 DEF Store
  <2>2. m \in ToSet(queue) \cup {captured + 1}
    BY <1>n, <2>1, ToSetFacts
  <2>3. QED
    BY <1>n, <2>1, <2>2 DEF Drained
<1>2. CASE Get
  <2>1. main' = main /\ stopMark' = stopMark /\ queue' = Tail(queue) /\ queue # <<>>
    BY <1>2 DEF Get
  <2>2. m \in ToSet(queue)
    BY <1>n, <2>1, ToSetFacts
  <2>3. QED
    BY <2>1, <2>2 DEF Drained
<1>3. CASE FlushDrained
  <2>1. queue' = <<>>
    BY <1>3 DEF FlushDrained
  <2>2. QED
    BY <2>1, NoneInEmpty
<1>4. CASE CommitFlush \/ CountFlush
  <2>1. main \in {"write", "count"} /\ queue' = queue /\ stopMark' = stopMark
    BY <1>4, Zenon DEF CommitFlush, CountFlush
  <2>2. QED
    BY <2>1 DEF Drained
<1>5. CASE Stop \/ Joined \/ FlushGet \/ Exit
  BY <1>5 DEF Stop, Joined, FlushGet, Exit
<1>6. CASE CheckRunning \/ CheckQueue \/ GetTimesOut \/ CommitBatch \/ WriterDies \/ CountBatch
  <2>1. main' = main /\ queue' = queue /\ stopMark' = stopMark
    BY <1>6, Zenon DEF CheckRunning, CheckQueue, GetTimesOut, CommitBatch, WriterDies, CountBatch
  <2>2. QED
    BY <2>1 DEF Drained
<1>7. CASE UNCHANGED vars
  BY <1>7 DEF vars, Drained
<1>8. QED
  BY <1>1, <1>2, <1>3, <1>4, <1>5, <1>6, <1>7 DEF Next, WriterStep, MainStep

AccountInv == StoreInv /\ BeforeFlush /\ Accounted /\ Drained

LEMMA AccountInvAlways == Spec => []AccountInv
<1>1. Init => AccountInv
  <2> SUFFICES ASSUME Init PROVE AccountInv
    OBVIOUS
  <2>1. StoreInv /\ BeforeFlush
    BY InitLinkInv DEF LinkInv
  <2>2. Accounted /\ Drained
    BY DEF Init, Accounted, Message, Drained
  <2>3. QED
    BY <2>1, <2>2 DEF AccountInv
<1>2. AccountInv /\ [Next]_vars => AccountInv'
  BY NextKeepsStoreInv, NextKeepsBeforeFlush, NextKeepsAccounted, NextKeepsDrained DEF AccountInv
<1>3. QED
  BY <1>1, <1>2, PTL DEF Spec

(***************************************************************************)
(* No captured message is lost without a failed batch or the process's     *)
(* end.                                                                    *)
(***************************************************************************)
THEOREM EveryMessageAccounted == Spec => []Accounted
<1>1. AccountInv => Accounted
  BY DEF AccountInv
<1>2. QED
  BY <1>1, AccountInvAlways, PTL

(***************************************************************************)
(* A stop that ran to its end beside a writer that ended by itself left    *)
(* every message put before it in the table, and counted them all.         *)
(***************************************************************************)
THEOREM StopStoresAll == Spec => []StopStores
<1>1. ASSUME AccountInv PROVE StopStores
  <2> SUFFICES ASSUME main = "stopped", writer = "ended"
               PROVE  1 .. stopMark \subseteq ToSet(table) /\ totalStored = Len(table)
    BY DEF StopStores
  <2>t. /\ captured \in Nat /\ stopMark \in 0 .. captured /\ totalStored \in Nat /\ Len(table) \in Nat
    BY <1>1, TypeFacts DEF AccountInv, StoreInv, TypeOK
  <2>1. InHand = <<>> /\ InFlush = <<>>
    BY DEF InHand, InFlush
  <2>2. Message \subseteq ToSet(table) \cup ToSet(queue)
    BY <1>1, <2>1, NoneInEmpty DEF AccountInv, Accounted
  <2>3. 1 .. stopMark \subseteq ToSet(table)
    BY <1>1, <2>t, <2>2 DEF AccountInv, Drained, Message
  <2>4. totalStored = Len(table)
    BY <1>1, <2>t DEF AccountInv, StoreInv, Counted, WriterUncounted, MainUncounted
  <2>5. QED
    BY <2>3, <2>4
<1>2. QED
  BY <1>1, AccountInvAlways, PTL
================================================================================
