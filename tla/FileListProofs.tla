---------------------------- MODULE FileListProofs ----------------------------
(***************************************************************************)
(* Proofs about module FileList, for any set of files, number of workers,  *)
(* size of the kernel's queue, and bounds.                                 *)
(***************************************************************************)
EXTENDS FileList, SequenceTheorems, FunctionTheorems, FiniteSetTheorems, TLAPS

(***************************************************************************)
(* What a sequence of events tells of one file.  An event turns the number *)
(* of the file's rows; an event that creates it finds none.                *)
(***************************************************************************)

Bit == {0, 1}

Creates(e) == e.mask \in {"IN_CREATE", "IN_MOVED_TO"}

Turns(e, n, a, b) ==
    IF e.name # n THEN b = a ELSE IF Creates(e) THEN a = 0 /\ b = 1 ELSE b = 0

\* The events of s, handled in order, lead from a rows of n to b.
Tells(s, n, a, b) ==
    \E val \in [0..Len(s) -> Bit] :
        /\ val[0] = a
        /\ val[Len(s)] = b
        /\ \A i \in 1..Len(s) : Turns(s[i], n, val[i - 1], val[i])

LEMMA TellsNothing ==
    ASSUME NEW n, NEW a \in Bit
    PROVE  \A b : Tells(<<>>, n, a, b) <=> b = a
<1>1. Tells(<<>>, n, a, a)
  <2> DEFINE val == [i \in 0..Len(<<>>) |-> a]
  <2>1. val \in [0..Len(<<>>) -> Bit] /\ val[0] = a /\ val[Len(<<>>)] = a
    OBVIOUS
  <2>2. 1..Len(<<>>) = {}
    OBVIOUS
  <2> HIDE DEF val
  <2> QED BY <2>1, <2>2 DEF Tells
<1>2. ASSUME NEW b, Tells(<<>>, n, a, b) PROVE b = a
  BY <1>2 DEF Tells
<1> QED BY <1>1, <1>2

\* One more event, at the end.
LEMMA TellsMore ==
    ASSUME NEW s \in Seq(Events), NEW e \in Events, NEW n, NEW a \in Bit, NEW b \in Bit,
           NEW c \in Bit, Tells(s, n, a, b), Turns(e, n, b, c)
    PROVE  Tells(Append(s, e), n, a, c)
<1>1. PICK val \in [0..Len(s) -> Bit] :
        /\ val[0] = a
        /\ val[Len(s)] = b
        /\ \A i \in 1..Len(s) : Turns(s[i], n, val[i - 1], val[i])
  BY DEF Tells
<1> DEFINE t == Append(s, e)
           new == [i \in 0..Len(t) |-> IF i <= Len(s) THEN val[i] ELSE c]
<1>2. /\ Len(s) \in Nat /\ Len(t) = Len(s) + 1
      /\ \A i \in 1..Len(s) : t[i] = s[i]
      /\ t[Len(s) + 1] = e
  BY AppendProperties
<1> HIDE DEF t
<1>3. new \in [0..Len(t) -> Bit] /\ new[0] = a /\ new[Len(t)] = c
  BY <1>1, <1>2
<1>4. ASSUME NEW i \in 1..Len(t) PROVE Turns(t[i], n, new[i - 1], new[i])
  <2>1. CASE i \in 1..Len(s)
    <3>1. new[i - 1] = val[i - 1] /\ new[i] = val[i] /\ t[i] = s[i]
      BY <1>2, <2>1
    <3> HIDE DEF new
    <3> QED BY <1>1, <2>1, <3>1
  <2>2. CASE i = Len(s) + 1
    <3>1. new[i - 1] = b /\ new[i] = c /\ t[i] = e
      BY <1>1, <1>2, <2>2
    <3> HIDE DEF new
    <3> QED BY <3>1
  <2> QED BY <1>2, <2>1, <2>2
<1> HIDE DEF new
<1>5. Tells(t, n, a, c)
  BY <1>3, <1>4 DEF Tells
<1> QED BY <1>5 DEF t

\* The first event, handled.
LEMMA TellsRest ==
    ASSUME NEW s \in Seq(Events), s # <<>>, NEW n, NEW a \in Bit, NEW b \in Bit,
           Tells(s, n, a, b)
    PROVE  \E c \in Bit : Turns(Head(s), n, a, c) /\ Tells(Tail(s), n, c, b)
<1>1. PICK val \in [0..Len(s) -> Bit] :
        /\ val[0] = a
        /\ val[Len(s)] = b
        /\ \A i \in 1..Len(s) : Turns(s[i], n, val[i - 1], val[i])
  BY DEF Tells
<1> DEFINE t == Tail(s)
           new == [i \in 0..Len(t) |-> val[i + 1]]
<1>2. /\ Len(s) \in Nat /\ Len(t) = Len(s) - 1 /\ Len(t) \in Nat
      /\ \A i \in 1..Len(t) : t[i] = s[i + 1]
      /\ Head(s) = s[1]
  BY HeadTailProperties
<1> HIDE DEF t
<1>3. new \in [0..Len(t) -> Bit] /\ new[0] = val[1] /\ new[Len(t)] = b
  BY <1>1, <1>2
<1>4. ASSUME NEW i \in 1..Len(t) PROVE Turns(t[i], n, new[i - 1], new[i])
  <2>1. /\ new[i - 1] = val[(i + 1) - 1] /\ new[i] = val[i + 1] /\ t[i] = s[i + 1]
        /\ i + 1 \in 1..Len(s)
    BY <1>2
  <2> HIDE DEF new
  <2> QED BY <1>1, <2>1
<1>5. val[1] \in Bit /\ Turns(Head(s), n, a, val[1])
  <2>1. 1 \in 1..Len(s) /\ 1 \in 0..Len(s) /\ 1 - 1 = 0
    BY <1>2
  <2> QED BY <1>1, <1>2, <2>1
<1> HIDE DEF new
<1>6. Tells(t, n, val[1], b)
  BY <1>3, <1>4 DEF Tells
<1> QED BY <1>5, <1>6 DEF t

\* Events that do not begin with the creation of a file that is there tell the
\* same of it from either start.
LEMMA TellsAgain ==
    ASSUME NEW s \in Seq(Events), NEW n, NEW a \in Bit, NEW b \in Bit, Tells(s, n, a, b),
           b = 1 => \A i \in 1..Len(s) :
                        s[i].name = n /\ Creates(s[i]) => \E j \in 1..(i - 1) : s[j].name = n
    PROVE  Tells(s, n, b, b)
<1>1. PICK val \in [0..Len(s) -> Bit] :
        /\ val[0] = a
        /\ val[Len(s)] = b
        /\ \A i \in 1..Len(s) : Turns(s[i], n, val[i - 1], val[i])
  BY DEF Tells
<1> DEFINE Untold(i) == \A j \in 1..i : s[j].name # n
           new == [i \in 0..Len(s) |-> IF Untold(i) THEN b ELSE val[i]]
<1>2. Len(s) \in Nat
  OBVIOUS
<1>3. new \in [0..Len(s) -> Bit] /\ new[0] = b
  BY <1>1, <1>2
<1>4. new[Len(s)] = b
  BY <1>1, <1>2
<1>5. ASSUME NEW i \in 1..Len(s) PROVE Turns(s[i], n, new[i - 1], new[i])
  <2>1. Turns(s[i], n, val[i - 1], val[i])
    BY <1>1
  <2>2. Untold(i) <=> Untold(i - 1) /\ s[i].name # n
    BY <1>2
  <2>3. /\ new[i] = IF Untold(i) THEN b ELSE val[i]
        /\ new[i - 1] = IF Untold(i - 1) THEN b ELSE val[i - 1]
    BY <1>2
  <2>4. Untold(i - 1) /\ s[i].name = n /\ Creates(s[i]) => b = 0
    OBVIOUS
  <2> HIDE DEF new, Untold
  <2> QED BY <2>1, <2>2, <2>3, <2>4 DEF Turns
<1> HIDE DEF new
<1> QED BY <1>3, <1>4, <1>5 DEF Tells

(***************************************************************************)
(* What the kernel's queue keeps of new events.                            *)
(***************************************************************************)

LEMMA MinOfTwo ==
    ASSUME NEW a \in Nat, NEW b \in Nat
    PROVE  Min({a, b}) = IF a <= b THEN a ELSE b
<1> DEFINE m == IF a <= b THEN a ELSE b
<1>1. m \in {a, b} /\ \A y \in {a, b} : m <= y
  OBVIOUS
<1>2. \A x \in {a, b} : (\A y \in {a, b} : x <= y) => x = m
  OBVIOUS
<1> HIDE DEF m
<1>3. Min({a, b}) = m
  BY <1>1, <1>2 DEF Min
<1> QED BY <1>3 DEF m

LEMMA FirstAll ==
    ASSUME NEW s \in Seq(Events), NEW k \in Nat, Len(s) <= k
    PROVE  First(s, k) = s
<1>1. Min({k, Len(s)}) = Len(s)
  BY MinOfTwo
<1> QED BY <1>1 DEF First

LEMMA FirstCut ==
    ASSUME NEW s \in Seq(Events), NEW e \in Events, NEW k \in Nat, k <= Len(s)
    PROVE  First(Append(s, e), k) = First(s, k)
<1>1. Len(Append(s, e)) = Len(s) + 1 /\ Append(s, e) \in Seq(Events)
  BY AppendProperties
<1>2. Min({k, Len(s)}) = k /\ Min({k, Len(Append(s, e))}) = k
  BY <1>1, MinOfTwo
<1>3. SubSeq(Append(s, e), 1, k) = SubSeq(s, 1, k)
  <2>1. \A i \in 1..k : Append(s, e)[i] = s[i]
    BY AppendProperties
  <2> QED BY <2>1
<1> QED BY <1>2, <1>3 DEF First

\* One event, or two, are kept or lost.
LEMMA OneEvent ==
    ASSUME events \in Seq(Events), Len(events) <= QueueLimit, NEW e \in Events
    PROVE  \/ /\ First(events \o <<e>>, QueueLimit) = Append(events, e)
              /\ Len(events) < QueueLimit
           \/ /\ First(events \o <<e>>, QueueLimit) = events
              /\ About(e.name) \subseteq Lost(<<e>>)
<1>1. Len(events) \in Nat /\ QueueLimit \in Nat
  BY FileListAssumption
<1> DEFINE s == Append(events, e)
<1>2. /\ events \o <<e>> = s
      /\ s \in Seq(Events)
      /\ Len(s) = Len(events) + 1
  BY AppendProperties, AppendIsConcat
<1>3. First(s, QueueLimit) = IF Len(events) < QueueLimit THEN s ELSE events
  <2>1. CASE Len(events) = QueueLimit
    <3>1. First(s, QueueLimit) = First(events, QueueLimit)
      BY <1>1, <2>1, FirstCut
    <3>2. First(events, QueueLimit) = events
      BY <1>1, <2>1, FirstAll
    <3> QED BY <1>1, <2>1, <3>1, <3>2
  <2>2. CASE Len(events) < QueueLimit
    <3> HIDE DEF s
    <3>1. First(s, QueueLimit) = s
      BY <1>1, <1>2, <2>2, FirstAll
    <3> QED BY <2>2, <3>1
  <2> QED BY <1>1, <2>1, <2>2
<1>4. ASSUME Len(events) + 1 > QueueLimit PROVE About(e.name) \subseteq Lost(<<e>>)
  <2> DEFINE es == <<e>>
  <2>1. 1 \in {j \in DOMAIN es : Len(events) + j > QueueLimit} /\ es[1] = e
    BY <1>1, <1>4
  <2> HIDE DEF es
  <2>2. About(e.name) \subseteq Lost(es)
    BY <2>1 DEF Lost
  <2> QED BY <2>2 DEF es
<1> HIDE DEF s
<1>5. \/ First(events \o <<e>>, QueueLimit) = s /\ Len(events) < QueueLimit
      \/ /\ First(events \o <<e>>, QueueLimit) = events
         /\ About(e.name) \subseteq Lost(<<e>>)
  <2>1. First(events \o <<e>>, QueueLimit) = First(s, QueueLimit)
    BY ONLY <1>2
  <2> QED BY <1>1, <1>3, <1>4, <2>1
<1> QED BY <1>5 DEF s

LEMMA TwoEvents ==
    ASSUME events \in Seq(Events), Len(events) <= QueueLimit, NEW d \in Events, NEW e \in Events
    PROVE  \/ /\ First(events \o <<d, e>>, QueueLimit) = Append(Append(events, d), e)
              /\ Len(events) + 1 < QueueLimit
           \/ /\ First(events \o <<d, e>>, QueueLimit) = Append(events, d)
              /\ Len(events) < QueueLimit
              /\ About(e.name) \subseteq Lost(<<d, e>>)
           \/ /\ First(events \o <<d, e>>, QueueLimit) = events
              /\ About(d.name) \cup About(e.name) \subseteq Lost(<<d, e>>)
<1>1. Len(events) \in Nat /\ QueueLimit \in Nat /\ Len(events) <= QueueLimit
  BY FileListAssumption
<1> DEFINE s == Append(events, d)
           t == Append(s, e)
<1>2. /\ s \in Seq(Events) /\ Len(s) = Len(events) + 1
      /\ t \in Seq(Events) /\ Len(t) = Len(events) + 2
  BY AppendProperties
<1>3. events \o <<d, e>> = t
  OBVIOUS
<1>4. /\ <<d, e>>[1] = d /\ <<d, e>>[2] = e
      /\ \A j \in 1..2 : Len(events) + j > QueueLimit =>
             j \in {i \in DOMAIN <<d, e>> : Len(events) + i > QueueLimit}
  OBVIOUS
<1>5. ASSUME Len(events) + 1 > QueueLimit PROVE About(d.name) \subseteq Lost(<<d, e>>)
  <2>1. 1 \in {i \in DOMAIN <<d, e>> : Len(events) + i > QueueLimit}
    BY <1>4, <1>5
  <2> QED BY <1>4, <2>1 DEF Lost
<1>6. ASSUME Len(events) + 2 > QueueLimit PROVE About(e.name) \subseteq Lost(<<d, e>>)
  <2>1. 2 \in {i \in DOMAIN <<d, e>> : Len(events) + i > QueueLimit}
    BY <1>4, <1>6
  <2> QED BY <1>4, <2>1 DEF Lost
<1>7. First(s, QueueLimit) = IF Len(events) < QueueLimit THEN s ELSE events
  <2>1. CASE Len(events) < QueueLimit
    <3> HIDE DEF s
    <3>1. First(s, QueueLimit) = s
      BY <1>1, <1>2, <2>1, FirstAll
    <3> QED BY <2>1, <3>1
  <2>2. CASE Len(events) = QueueLimit
    <3>1. First(s, QueueLimit) = First(events, QueueLimit)
      BY <1>1, <2>2, FirstCut
    <3>2. First(events, QueueLimit) = events
      BY <1>1, <2>2, FirstAll
    <3> QED BY <1>1, <2>2, <3>1, <3>2
  <2> QED BY <1>1, <2>1, <2>2
<1> HIDE DEF s
<1>8. First(t, QueueLimit) = IF Len(events) + 1 < QueueLimit THEN t ELSE First(s, QueueLimit)
  <2>1. CASE Len(events) + 1 < QueueLimit
    <3> HIDE DEF t
    <3>1. First(t, QueueLimit) = t
      BY <1>1, <1>2, <2>1, FirstAll
    <3> QED BY <2>1, <3>1
  <2>2. CASE QueueLimit <= Len(s)
    BY <1>1, <1>2, <2>2, FirstCut
  <2> QED BY <1>1, <1>2, <2>1, <2>2
<1> HIDE DEF t
<1>9. \/ First(t, QueueLimit) = t /\ Len(events) + 1 < QueueLimit
      \/ /\ First(t, QueueLimit) = s
         /\ Len(events) < QueueLimit
         /\ About(e.name) \subseteq Lost(<<d, e>>)
      \/ /\ First(t, QueueLimit) = events
         /\ About(d.name) \cup About(e.name) \subseteq Lost(<<d, e>>)
  BY <1>1, <1>5, <1>6, <1>7, <1>8
<1> QED BY <1>3, <1>9 DEF s, t
-------------------------------------------------------------------------------
(***************************************************************************)
(* The pending commands: each is in one place, and they are numbered.      *)
(***************************************************************************)

CommandTypes ==
    /\ queue \in Seq(Commands)
    /\ executing \in [Workers -> Commands \cup {NoCommand}]

PlaceInv ==
    /\ \A i, j \in 1..Len(queue) : queue[i] = queue[j] => i = j
    /\ \A v, w \in Workers : executing[v] = executing[w] /\ executing[v] # NoCommand => v = w
    /\ \A i \in 1..Len(queue), w \in Workers : queue[i] # executing[w]

Numbered(P, k) ==
    /\ \A c \in P : c.no \in 1..k
    /\ \A c, d \in P : c.no = d.no => c = d
    /\ \A i \in 1..k : \E c \in P : c.no = i

CommandInv ==
    /\ CommandTypes
    /\ PlaceInv
    /\ IsFiniteSet(Pending)
    /\ Numbered(Pending, Cardinality(Pending))
    /\ \A c \in Pending : c.name = Everyone <=> c.kind \in {"dir_del", "refresh"}

LEMMA NumbersCount ==
    ASSUME NEW P, NEW k \in Nat, Numbered(P, k)
    PROVE  IsFiniteSet(P) /\ Cardinality(P) = k
<1> DEFINE f == [i \in 1..k |-> CHOOSE c \in P : c.no = i]
<1>1. \A i \in 1..k : f[i] \in P /\ f[i].no = i
  BY DEF Numbered
<1>2. f \in [1..k -> P]
  BY <1>1
<1>3. \A i, j \in 1..k : f[i] = f[j] => i = j
  BY <1>1
<1>4. \A c \in P : \E i \in 1..k : f[i] = c
  BY <1>1 DEF Numbered
<1> HIDE DEF f
<1>5. f \in Bijection(1..k, P)
  BY <1>2, <1>3, <1>4, Fun_IsBij
<1>6. ExistsBijection(1..k, P)
  BY <1>5 DEF ExistsBijection
<1>7. IsFiniteSet(1..k) /\ Cardinality(1..k) = k
  BY FS_Interval
<1> QED BY <1>6, <1>7, FS_Bijection

LEMMA PendingIs ==
    ASSUME CommandTypes
    PROVE  /\ \A c : c \in Pending <=> \/ \E i \in 1..Len(queue) : c = queue[i]
                                       \/ \E w \in Workers : c = executing[w] /\ c # NoCommand
           /\ Pending \subseteq Commands
<1>1. DOMAIN queue = 1..Len(queue) /\ \A i \in 1..Len(queue) : queue[i] \in Commands
  BY DEF CommandTypes
<1> QED BY <1>1 DEF Pending, ToSet, CommandTypes

\* A new command is the last.
LEMMA PushedLast ==
    ASSUME CommandInv, NEW kind \in Kinds, NEW m \in Targets,
           m = Everyone <=> kind \in {"dir_del", "refresh"},
           exec_command(kind, m)
    PROVE  /\ CommandInv'
           /\ Cardinality(Pending)' = Cardinality(Pending) + 1
           /\ Pending' = Pending \cup {[kind |-> kind, name |-> m, no |-> Cardinality(Pending) + 1]}
<1> DEFINE K == Cardinality(Pending)
           c == [kind |-> kind, name |-> m, no |-> K + 1]
<1>1. K \in Nat /\ CommandTypes /\ PlaceInv /\ Numbered(Pending, K)
  BY FS_CardinalityType DEF CommandInv
<1>2. c \in Commands /\ c.no = K + 1 /\ c.kind = kind /\ c.name = m
  BY <1>1 DEF Commands
<1>3. queue' = <<c>> \o queue /\ executing' = executing
  BY DEF exec_command, Latest
<1> HIDE DEF c
<1>4. /\ queue' \in Seq(Commands)
      /\ Len(queue) \in Nat
      /\ Len(queue') = Len(queue) + 1
      /\ queue'[1] = c
      /\ \A i \in 1..Len(queue) : queue'[i + 1] = queue[i]
      /\ \A i \in 1..Len(queue') : i = 1 \/ (i - 1 \in 1..Len(queue) /\ queue'[i] = queue[i - 1])
  BY <1>1, <1>2, <1>3 DEF CommandTypes
<1>5. CommandTypes'
  BY <1>1, <1>3, <1>4 DEF CommandTypes
<1>6. c \notin Pending /\ c # NoCommand
  BY <1>1, <1>2, FileListAssumption DEF Numbered
<1>7. Pending' = Pending \cup {c}
  <2>1. \A d : d \in Pending' <=> d \in Pending \cup {c}
    <3>1. \A d : d \in Pending' <=> \/ \E i \in 1..Len(queue') : d = queue'[i]
                                    \/ \E w \in Workers : d = executing'[w] /\ d # NoCommand
      <4>1. DOMAIN queue' = 1..Len(queue')
        BY <1>4
      <4> QED BY <4>1 DEF Pending, ToSet
    <3>2. \A d : (\E i \in 1..Len(queue') : d = queue'[i])
                    <=> (d = c \/ (\E i \in 1..Len(queue) : d = queue[i]))
      <4> SUFFICES ASSUME NEW d
                   PROVE  (\E i \in 1..Len(queue') : d = queue'[i])
                              <=> (d = c \/ (\E i \in 1..Len(queue) : d = queue[i]))
        OBVIOUS
      <4>1. ASSUME NEW i \in 1..Len(queue), d = queue[i]
            PROVE  \E j \in 1..Len(queue') : d = queue'[j]
        BY <1>4, <4>1
      <4>2. ASSUME NEW i \in 1..Len(queue'), d = queue'[i]
            PROVE  d = c \/ (\E j \in 1..Len(queue) : d = queue[j])
        BY <1>4, <4>2
      <4>3. ASSUME d = c PROVE \E i \in 1..Len(queue') : d = queue'[i]
        <5>1. 1 \in 1..Len(queue') /\ queue'[1] = d
          BY <1>4, <4>3
        <5> QED BY <5>1
      <4> QED BY <4>1, <4>2, <4>3
    <3>3. \A d : d \in Pending <=> \/ \E i \in 1..Len(queue) : d = queue[i]
                                   \/ \E w \in Workers : d = executing[w] /\ d # NoCommand
      BY <1>1, PendingIs
    <3> SUFFICES ASSUME NEW d PROVE d \in Pending' <=> d \in Pending \/ d = c
      OBVIOUS
    <3> QED BY ONLY <1>3, <3>1, <3>2, <3>3
  <2> QED BY <2>1
<1>8. Numbered(Pending', K + 1)
  BY <1>1, <1>2, <1>7 DEF Numbered
<1>9. IsFiniteSet(Pending') /\ Cardinality(Pending') = K + 1
  BY <1>1, <1>8, NumbersCount
<1>10. PlaceInv'
  <2>1. \A i \in 1..Len(queue) : queue[i] \in Pending
    BY <1>1, PendingIs
  <2>2. \A w \in Workers : executing[w] # c
    BY <1>1, <1>6, PendingIs
  <2>3. \A i, j \in 1..Len(queue') : queue'[i] = queue'[j] => i = j
    BY <1>1, <1>4, <1>6, <2>1 DEF PlaceInv
  <2>4. \A i \in 1..Len(queue'), w \in Workers : queue'[i] # executing'[w]
    BY <1>1, <1>3, <1>4, <2>2 DEF PlaceInv
  <2> QED BY <1>1, <1>3, <2>3, <2>4 DEF PlaceInv
<1>11. CommandInv'
  BY <1>2, <1>5, <1>7, <1>8, <1>9, <1>10 DEF CommandInv
<1> QED BY <1>7, <1>9, <1>11 DEF c

\* A worker takes a command: it is still pending.
LEMMA TakenPends ==
    ASSUME CommandInv, NEW w \in Workers, executing[w] = NoCommand, queue # <<>>,
           executing' = [executing EXCEPT ![w] = Head(queue)],
           queue' = Tail(queue)
    PROVE  CommandInv' /\ Pending' = Pending
<1> DEFINE h == Head(queue)
<1>1. CommandTypes /\ PlaceInv
  BY DEF CommandInv
<1>2. /\ h \in Commands /\ h = queue[1] /\ h # NoCommand
      /\ Len(queue) \in Nat /\ Len(queue) # 0
      /\ queue' \in Seq(Commands)
      /\ Len(queue') = Len(queue) - 1
      /\ \A i \in 1..Len(queue') : i + 1 \in 1..Len(queue) /\ queue'[i] = queue[i + 1]
      /\ \A i \in 1..Len(queue) : i = 1 \/ (i - 1 \in 1..Len(queue') /\ queue'[i - 1] = queue[i])
  BY <1>1, HeadTailProperties, FileListAssumption DEF CommandTypes
<1> HIDE DEF h
<1>3. /\ executing' \in [Workers -> Commands \cup {NoCommand}]
      /\ executing'[w] = h
      /\ \A v \in Workers : v # w => executing'[v] = executing[v]
  BY <1>1, <1>2 DEF CommandTypes, h
<1>4. CommandTypes'
  BY <1>2, <1>3 DEF CommandTypes
<1>5. Pending' = Pending
  <2>1. \A d : d \in Pending' <=> \/ \E i \in 1..Len(queue') : d = queue'[i]
                                  \/ \E v \in Workers : d = executing'[v] /\ d # NoCommand
    <3>1. DOMAIN queue' = 1..Len(queue')
      BY <1>2
    <3> QED BY <3>1 DEF Pending, ToSet
  <2>2. \A d : (\E i \in 1..Len(queue) : d = queue[i])
                  <=> (d = h \/ \E i \in 1..Len(queue') : d = queue'[i])
    <3>1. 1 \in 1..Len(queue)
      BY <1>2
    <3> QED BY <1>2, <3>1
  <2>3. \A d : (\E v \in Workers : d = executing'[v] /\ d # NoCommand)
                  <=> (d = h \/ \E v \in Workers : d = executing[v] /\ d # NoCommand)
    BY <1>2, <1>3
  <2>4. \A d : d \in Pending' <=> d \in Pending
    BY <1>1, <2>1, <2>2, <2>3, PendingIs
  <2> QED BY <2>4
<1>6. PlaceInv'
  <2>1. 1 \in 1..Len(queue)
    BY <1>2
  <2>2. \A i, j \in 1..Len(queue') : queue'[i] = queue'[j] => i = j
    BY <1>1, <1>2 DEF PlaceInv
  <2>3. \A v \in Workers : executing[v] # h
    BY <1>1, <1>2, <2>1 DEF PlaceInv
  <2>4. \A i \in 1..Len(queue') : queue'[i] # h
    BY <1>1, <1>2, <2>1 DEF PlaceInv
  <2>5. \A u, v \in Workers : executing'[u] = executing'[v] /\ executing'[u] # NoCommand => u = v
    BY <1>1, <1>3, <2>3 DEF PlaceInv
  <2>6. \A i \in 1..Len(queue'), v \in Workers : queue'[i] # executing'[v]
    BY <1>1, <1>2, <1>3, <2>4 DEF PlaceInv
  <2> QED BY <2>2, <2>5, <2>6 DEF PlaceInv
<1> QED BY <1>4, <1>5, <1>6 DEF CommandInv

LEMMA Renumbered ==
    ASSUME NEW c \in Commands, NEW d \in Commands, c.no # 0
    PROVE  /\ Without(c, d) \in Commands
           /\ Without(c, d).name = d.name /\ Without(c, d).kind = d.kind
           /\ Without(c, d).no = IF d.no > c.no THEN d.no - 1 ELSE d.no
<1>1. d # NoCommand /\ c.no \in Nat /\ d.no \in Nat
  BY FileListAssumption DEF Commands
<1>2. CASE d.no > c.no
  <2>1. Without(c, d) = [d EXCEPT !.no = d.no - 1]
    BY <1>1, <1>2 DEF Without
  <2>2. d.no - 1 \in Nat
    BY <1>1, <1>2
  <2> QED BY <1>2, <2>1, <2>2 DEF Commands
<1>3. CASE ~(d.no > c.no)
  BY <1>1, <1>3 DEF Without
<1> QED BY <1>2, <1>3

\* A command that has been executed is gone, and the later ones move up.
LEMMA DoneGone ==
    ASSUME CommandInv, NEW w \in Workers, NEW c, c = executing[w], c # NoCommand,
           executing' = [v \in Workers |-> IF v = w THEN NoCommand ELSE Without(c, executing[v])],
           queue' = [i \in DOMAIN queue |-> Without(c, queue[i])]
    PROVE  /\ CommandInv'
           /\ c \in Pending
           /\ Cardinality(Pending)' = Cardinality(Pending) - 1
           /\ Pending' = {Without(c, d) : d \in Pending \ {c}}
           /\ \A d \in Pending :
                /\ Without(c, d).name = d.name /\ Without(c, d).kind = d.kind
                /\ Without(c, d).no = IF d.no > c.no THEN d.no - 1 ELSE d.no
<1> DEFINE K == Cardinality(Pending)
           P == {Without(c, d) : d \in Pending \ {c}}
<1>1. K \in Nat /\ CommandTypes /\ PlaceInv /\ Numbered(Pending, K)
  BY FS_CardinalityType DEF CommandInv
<1>2. c \in Pending /\ c \in Commands
  BY <1>1, PendingIs
<1>3. c.no \in 1..K /\ K - 1 \in Nat
  BY <1>1, <1>2 DEF Numbered
<1> HIDE DEF K
<1>4. ASSUME NEW d \in Pending
      PROVE  /\ Without(c, d) \in Commands
             /\ Without(c, d).name = d.name /\ Without(c, d).kind = d.kind
             /\ Without(c, d).no = IF d.no > c.no THEN d.no - 1 ELSE d.no
             /\ d.no \in 1..K
             /\ d # c => d.no # c.no
  <2>1. d \in Commands /\ c.no # 0
    BY <1>1, <1>3, PendingIs
  <2> QED BY <1>1, <1>2, <2>1, Renumbered DEF Numbered
<1>5. \A d, e \in Pending \ {c} : Without(c, d) = Without(c, e) => d = e
  <2> SUFFICES ASSUME NEW d \in Pending \ {c}, NEW e \in Pending \ {c},
                      Without(c, d) = Without(c, e)
               PROVE  d = e
    OBVIOUS
  <2>1. d.no = e.no
    BY <1>3, <1>4
  <2> QED BY <1>1, <2>1 DEF Numbered
<1>6. Without(c, NoCommand) = NoCommand
  BY DEF Without
<1>7. /\ DOMAIN queue = 1..Len(queue) /\ Len(queue) \in Nat
      /\ \A i \in 1..Len(queue) : queue[i] \in Pending /\ queue[i] # c
      /\ \A v \in Workers : v # w => executing[v] = NoCommand \/ executing[v] \in Pending \ {c}
  <2>1. \A i \in 1..Len(queue) : queue[i] \in Pending
    BY <1>1, PendingIs
  <2>2. \A v \in Workers : executing[v] # NoCommand => executing[v] \in Pending
    BY <1>1, PendingIs
  <2> QED BY <1>1, <2>1, <2>2 DEF CommandTypes, PlaceInv
<1>8. /\ Len(queue') = Len(queue)
      /\ DOMAIN queue' = 1..Len(queue)
      /\ \A i \in 1..Len(queue) : queue'[i] = Without(c, queue[i])
      /\ queue' \in Seq(Commands)
  BY <1>4, <1>7
<1>9. /\ executing'[w] = NoCommand
      /\ \A v \in Workers : v # w => executing'[v] = Without(c, executing[v])
  OBVIOUS
<1>10. CommandTypes'
  <2>1. ASSUME NEW v \in Workers PROVE executing'[v] \in Commands \cup {NoCommand}
    BY <1>4, <1>6, <1>7, <1>9
  <2>2. executing' \in [Workers -> Commands \cup {NoCommand}]
    BY <2>1
  <2> QED BY <1>8, <2>2 DEF CommandTypes
<1>11. \A d \in Pending : Without(c, d) # NoCommand
  BY <1>4, FileListAssumption
<1>12. Pending' = P
  <2>1. \A d : d \in Pending' <=> \/ \E i \in 1..Len(queue) : d = queue'[i]
                                  \/ \E v \in Workers : d = executing'[v] /\ d # NoCommand
    BY <1>8 DEF Pending, ToSet
  <2>2. ASSUME NEW d \in Pending' PROVE d \in P
    <3>1. CASE \E i \in 1..Len(queue) : d = queue'[i]
      BY <1>7, <1>8, <3>1
    <3>2. CASE \E v \in Workers : d = executing'[v] /\ d # NoCommand
      BY <1>6, <1>7, <1>9, <3>2
    <3> QED BY <2>1, <2>2, <3>1, <3>2
  <2>3. ASSUME NEW e \in Pending \ {c} PROVE Without(c, e) \in Pending'
    <3>1. CASE \E i \in 1..Len(queue) : e = queue[i]
      BY <1>8, <2>1, <3>1
    <3>2. CASE \E v \in Workers : e = executing[v] /\ e # NoCommand
      <4>1. PICK v \in Workers : e = executing[v] /\ e # NoCommand
        BY <3>2
      <4>2. v # w
        BY <2>3, <4>1
      <4> QED BY <1>9, <1>11, <2>1, <4>1, <4>2
    <3> QED BY <1>1, <2>3, <3>1, <3>2, PendingIs
  <2> QED BY <2>2, <2>3
<1>13. Numbered(P, K - 1)
  <2>1. \A d \in P : d.no \in 1..(K - 1)
    <3> SUFFICES ASSUME NEW d \in Pending \ {c} PROVE Without(c, d).no \in 1..(K - 1)
      OBVIOUS
    <3>1. /\ d.no \in 1..K /\ d.no # c.no
          /\ Without(c, d).no = IF d.no > c.no THEN d.no - 1 ELSE d.no
      BY <1>4
    <3> QED BY <1>1, <1>3, <3>1
  <2>2. \A d, e \in P : d.no = e.no => d = e
    <3> SUFFICES ASSUME NEW d \in Pending \ {c}, NEW e \in Pending \ {c},
                        Without(c, d).no = Without(c, e).no
                 PROVE  Without(c, d) = Without(c, e)
      OBVIOUS
    <3>1. d.no = e.no
      BY <1>3, <1>4
    <3> QED BY <1>1, <3>1 DEF Numbered
  <2>3. ASSUME NEW i \in 1..(K - 1) PROVE \E d \in P : d.no = i
    <3> DEFINE j == IF i < c.no THEN i ELSE i + 1
    <3>1. PICK d \in Pending : d.no = j
      <4>1. j \in 1..K
        BY <1>1, <1>3
      <4> QED BY <1>1, <4>1 DEF Numbered
    <3>2. d # c /\ Without(c, d).no = i
      BY <1>3, <1>4, <3>1
    <3> QED BY <3>2
  <2> QED BY <2>1, <2>2, <2>3 DEF Numbered
<1>14. IsFiniteSet(Pending') /\ Cardinality(Pending') = K - 1
  BY <1>3, <1>12, <1>13, NumbersCount
<1>15. PlaceInv'
  <2>1. \A i, j \in 1..Len(queue') : queue'[i] = queue'[j] => i = j
    BY <1>1, <1>5, <1>7, <1>8 DEF PlaceInv
  <2>2. \A u, v \in Workers : executing'[u] = executing'[v] /\ executing'[u] # NoCommand => u = v
    <3> SUFFICES ASSUME NEW u \in Workers, NEW v \in Workers,
                        executing'[u] = executing'[v], executing'[u] # NoCommand
                 PROVE  u = v
      OBVIOUS
    <3>1. /\ u # w /\ executing[u] \in Pending \ {c} /\ executing'[u] = Without(c, executing[u])
          /\ v # w /\ executing[v] \in Pending \ {c} /\ executing'[v] = Without(c, executing[v])
      BY <1>6, <1>7, <1>9
    <3>2. executing[u] = executing[v] /\ executing[u] # NoCommand
      BY <1>5, <1>11, <1>6, <3>1
    <3> QED BY <1>1, <3>2 DEF PlaceInv
  <2>3. \A i \in 1..Len(queue'), v \in Workers : queue'[i] # executing'[v]
    <3> SUFFICES ASSUME NEW i \in 1..Len(queue), NEW v \in Workers, queue'[i] = executing'[v]
                 PROVE  FALSE
      BY <1>8
    <3>1. queue'[i] = Without(c, queue[i]) /\ queue[i] \in Pending \ {c} /\ queue'[i] # NoCommand
      BY <1>7, <1>8, <1>11
    <3>2. v # w /\ executing[v] \in Pending \ {c} /\ executing'[v] = Without(c, executing[v])
      BY <1>6, <1>7, <1>9, <3>1
    <3>3. queue[i] = executing[v]
      BY <1>5, <3>1, <3>2
    <3> QED BY <1>1, <3>3 DEF PlaceInv
  <2> QED BY <2>1, <2>2, <2>3 DEF PlaceInv
<1>16. \A d \in P : d.name = Everyone <=> d.kind \in {"dir_del", "refresh"}
  BY <1>4 DEF CommandInv
<1>17. CommandInv'
  BY <1>10, <1>12, <1>13, <1>14, <1>15, <1>16 DEF CommandInv
<1> QED BY <1>2, <1>4, <1>12, <1>14, <1>17 DEF K

NoneGiven == queue = <<>> /\ executing \in [Workers -> {NoCommand}]

LEMMA NoCommands == NoneGiven => CommandInv /\ Pending = {}
<1> SUFFICES ASSUME NoneGiven PROVE CommandInv /\ Pending = {}
  OBVIOUS
<1> USE DEF NoneGiven
<1>1. CommandTypes
  BY DEF CommandTypes
<1>2. Len(queue) = 0 /\ 1..Len(queue) = {}
  OBVIOUS
<1>3. Pending = {}
  BY <1>1, <1>2, PendingIs
<1>4. PlaceInv
  BY <1>2 DEF PlaceInv
<1>5. IsFiniteSet(Pending) /\ Cardinality(Pending) = 0
  BY <1>3, FS_EmptySet
<1>6. Numbered(Pending, Cardinality(Pending))
  BY <1>3, <1>5 DEF Numbered
<1> QED BY <1>1, <1>3, <1>4, <1>5, <1>6 DEF CommandInv

LEMMA NothingPending ==
    ASSUME CommandInv, Pending = {}
    PROVE  NoneGiven
<1>1. CommandTypes
  BY DEF CommandInv
<1>2. \A w \in Workers : executing[w] = NoCommand
  BY <1>1, PendingIs
<1>3. 1..Len(queue) = {}
  BY <1>1, PendingIs
<1>4. queue = <<>>
  BY <1>1, <1>3 DEF CommandTypes
<1> QED BY <1>1, <1>2, <1>4 DEF CommandTypes, NoneGiven

Idle == CommandInv /\ Pending = {}

LEMMA IdleNext == NoneGiven' => Idle'
<1>1. NoneGiven => Idle
  BY NoCommands DEF Idle
<1> QED BY <1>1, PTL

LEMMA CommandsSame ==
    ASSUME CommandInv, UNCHANGED <<queue, executing>>
    PROVE  CommandInv' /\ Pending' = Pending
BY DEF CommandInv, CommandTypes, PlaceInv, Pending

-------------------------------------------------------------------------------
(***************************************************************************)
(* What is there at each stage of main, and what events say of the folder. *)
(***************************************************************************)

StageInv ==
    /\ mpc \in {"off", "list"} => Pending = {}
    /\ mpc = "truncate" =>
          IF refreshed = "none" THEN \E c : Pending = {c} /\ c.kind = "refresh"
                                ELSE Pending = {}
    /\ mpc # "truncate" => refreshed = "none" /\ \A c \in Pending : c.kind # "refresh"
    /\ mpc \notin {"watching", "stopping"} => batch = <<>>
    /\ mpc \in {"off", "list", "truncate", "adding"} => ~done /\ ~cleared
    /\ mpc = "watching" /\ done => cleared
    /\ mpc \notin {"truncate", "adding"} => toAdd = {}
    /\ mpc \in {"off", "draining"} => events = <<>>

\* Events about the folder itself are told from those about a file.
Fits(e) == e.name = Everyone <=> e.mask \in SelfMasks

Fit(s) == \A i \in 1..Len(s) : Fits(s[i])

TellsGone(s) == \E i \in 1..Len(s) : s[i].name = Everyone

EventInv ==
    /\ Fit(events)
    /\ Fit(batch)
    /\ TellsGone(events) \/ TellsGone(batch) \/ cleared => dir # "here"

ListInv == TypeOK /\ CommandInv /\ StageInv /\ EventInv

LEMMA FitMore ==
    ASSUME NEW s \in Seq(Events), NEW e \in Events
    PROVE  /\ Fit(s) /\ Fits(e) => Fit(Append(s, e))
           /\ TellsGone(Append(s, e)) <=> TellsGone(s) \/ e.name = Everyone
<1> DEFINE t == Append(s, e)
<1>1. /\ Len(s) \in Nat /\ Len(t) = Len(s) + 1
      /\ \A i \in 1..Len(s) : t[i] = s[i]
      /\ t[Len(s) + 1] = e
  BY AppendProperties
<1> HIDE DEF t
<1>2. Fit(s) /\ Fits(e) => Fit(t)
  BY <1>1 DEF Fit
<1>3. TellsGone(t) <=> TellsGone(s) \/ e.name = Everyone
  <2>1. Len(t) \in 1..Len(t) /\ \A i \in 1..Len(t) : i \in 1..Len(s) \/ i = Len(s) + 1
    BY <1>1
  <2>2. \A i \in 1..Len(s) : i \in 1..Len(t)
    BY <1>1
  <2> QED BY <1>1, <2>1, <2>2 DEF TellsGone
<1> QED BY <1>2, <1>3 DEF t

LEMMA FitRest ==
    ASSUME NEW s \in Seq(Events), s # <<>>
    PROVE  /\ Fit(s) => Fits(Head(s)) /\ Fit(Tail(s))
           /\ TellsGone(s) <=> Head(s).name = Everyone \/ TellsGone(Tail(s))
<1> DEFINE t == Tail(s)
<1>1. /\ Len(s) \in Nat /\ Len(t) = Len(s) - 1 /\ Len(s) # 0
      /\ \A i \in 1..Len(t) : t[i] = s[i + 1]
      /\ Head(s) = s[1]
  BY HeadTailProperties
<1> HIDE DEF t
<1>2. 1 \in 1..Len(s) /\ \A i \in 1..Len(t) : i + 1 \in 1..Len(s)
  BY <1>1
<1>3. \A i \in 1..Len(s) : i = 1 \/ (i - 1 \in 1..Len(t) /\ t[i - 1] = s[i])
  BY <1>1
<1>4. Fit(s) => Fits(Head(s)) /\ Fit(t)
  BY <1>1, <1>2 DEF Fit
<1>5. TellsGone(s) <=> Head(s).name = Everyone \/ TellsGone(t)
  BY <1>1, <1>2, <1>3 DEF TellsGone
<1> QED BY <1>4, <1>5 DEF t

LEMMA ListInit == Init => ListInv
<1> SUFFICES ASSUME Init PROVE ListInv
  OBVIOUS
<1>1. CommandInv /\ Pending = {}
  BY NoCommands DEF Init, NoneGiven
<1>2. TypeOK
  <2>1. 0 \in 0..MaxChanges /\ 0 \in 0..MaxFailures /\ 0 \in 0..MaxStarts
    BY FileListAssumption
  <2>2. /\ events \in Seq(Events) /\ Len(events) <= QueueLimit
        /\ batch \in Seq(Events) /\ Len(batch) <= QueueLimit
        /\ queue \in Seq(Commands)
    BY FileListAssumption DEF Init
  <2>3. /\ executing \in [Workers -> Commands \cup {NoCommand}]
        /\ rows \in [Names -> Nat]
    BY DEF Init
  <2> QED BY <2>1, <2>2, <2>3 DEF Init, TypeOK
<1>3. StageInv /\ EventInv
  BY <1>1 DEF Init, StageInv, EventInv, Fit, TellsGone
<1> QED BY <1>1, <1>2, <1>3 DEF ListInv

\* What a change of the folder tells the kernel's queue.
LEMMA EmitsOne ==
    ASSUME TypeOK, NEW e \in Events, NEW others \in SUBSET Names, Emit(<<e>>, others)
    PROVE  /\ disturbed \subseteq disturbed' /\ disturbed' \subseteq Names
           /\ Watched => others \subseteq disturbed'
           /\ \/ ~Watched /\ events' = events
              \/ /\ Watched /\ Len(events) < QueueLimit
                 /\ events' = Append(events, e)
              \/ /\ Watched /\ events' = events
                 /\ About(e.name) \subseteq disturbed'
<1>1. events \in Seq(Events) /\ Len(events) <= QueueLimit /\ disturbed \subseteq Names
  BY DEF TypeOK
<1>2. Lost(<<e>>) \subseteq Names
  <2> DEFINE es == <<e>>
  <2>1. \A j \in DOMAIN es : About(es[j].name) \subseteq Names
    BY DEF About, Events, Targets
  <2> HIDE DEF es
  <2>2. Lost(es) \subseteq Names
    BY <2>1 DEF Lost
  <2> QED BY <2>2 DEF es
<1>3. CASE ~Watched
  BY <1>1, <1>3 DEF Emit
<1>4. CASE Watched
  <2>1. /\ events' = First(events \o <<e>>, QueueLimit)
        /\ disturbed' = disturbed \cup others \cup Lost(<<e>>)
    BY <1>4 DEF Emit
  <2> QED BY <1>1, <1>2, <1>4, <2>1, OneEvent
<1> QED BY <1>3, <1>4

LEMMA EmitsTwo ==
    ASSUME TypeOK, NEW d \in Events, NEW e \in Events, NEW others \in SUBSET Names,
           Emit(<<d, e>>, others)
    PROVE  /\ disturbed \subseteq disturbed' /\ disturbed' \subseteq Names
           /\ Watched => others \subseteq disturbed'
           /\ \/ ~Watched /\ events' = events
              \/ /\ Watched /\ Len(events) + 1 < QueueLimit
                 /\ events' = Append(Append(events, d), e)
              \/ /\ Watched /\ Len(events) < QueueLimit
                 /\ events' = Append(events, d)
                 /\ About(e.name) \subseteq disturbed'
              \/ /\ Watched /\ events' = events
                 /\ About(d.name) \cup About(e.name) \subseteq disturbed'
<1>1. events \in Seq(Events) /\ Len(events) <= QueueLimit /\ disturbed \subseteq Names
  BY DEF TypeOK
<1>2. Lost(<<d, e>>) \subseteq Names
  <2> DEFINE es == <<d, e>>
  <2>1. \A j \in DOMAIN es : About(es[j].name) \subseteq Names
    BY DEF About, Events, Targets
  <2> HIDE DEF es
  <2>2. Lost(es) \subseteq Names
    BY <2>1 DEF Lost
  <2> QED BY <2>2 DEF es
<1>3. CASE ~Watched
  BY <1>1, <1>3 DEF Emit
<1>4. CASE Watched
  <2>1. /\ events' = First(events \o <<d, e>>, QueueLimit)
        /\ disturbed' = disturbed \cup others \cup Lost(<<d, e>>)
    BY <1>4 DEF Emit
  <2> QED BY <1>1, <1>2, <1>4, <2>1, TwoEvents
<1> QED BY <1>3, <1>4

LEMMA FolderStep == ListInv /\ Folder => ListInv'
<1> SUFFICES ASSUME ListInv, Folder PROVE ListInv'
  OBVIOUS
<1> USE DEF mainVars, watchVars, commandVars, boundVars
<1>a. TypeOK /\ CommandInv /\ StageInv /\ EventInv
  BY DEF ListInv
<1>b. /\ events \in Seq(Events) /\ Len(events) \in Nat /\ Len(events) <= QueueLimit
      /\ QueueLimit \in Nat
  BY <1>a, FileListAssumption DEF TypeOK
<1>c. Watched <=> mpc \notin {"off", "draining"}
  BY DEF Watched
<1>0. ASSUME UNCHANGED <<mpc, toAdd, refreshed, batch, done, cleared, queue, executing, stranded,
                         rows, failed, starts>>,
             changes < MaxChanges, changes' = changes + 1,
             folder' \subseteq Names, disturbed' \subseteq Names,
             dir' \in {"here", "moved", "deleted"}, dir # "here" => dir' # "here",
             events' \in Seq(Events), Len(events') <= QueueLimit, Fit(events'),
             TellsGone(events') => TellsGone(events) \/ dir' # "here",
             ~Watched => events' = events
      PROVE  ListInv'
  <2>1. changes' \in 0..MaxChanges
    BY <1>0, <1>a, FileListAssumption DEF TypeOK
  <2>2. TypeOK'
    BY <1>0, <1>a, <2>1 DEF TypeOK
  <2>3. CommandInv' /\ Pending' = Pending
    BY <1>0, <1>a, CommandsSame
  <2>4. StageInv'
    BY <1>0, <1>a, <1>c, <2>3 DEF StageInv
  <2>5. EventInv'
    BY <1>0, <1>a DEF EventInv
  <2> QED BY <2>2, <2>3, <2>4, <2>5 DEF ListInv
<1>1. ASSUME NEW e \in Events, Fits(e), e.name # Everyone \/ dir' # "here",
             NEW others \in SUBSET Names, Emit(<<e>>, others),
             folder' \subseteq Names, dir' \in {"here", "moved", "deleted"},
             dir # "here" => dir' # "here"
      PROVE  ListInv'
  <2>1. /\ UNCHANGED <<mpc, toAdd, refreshed, batch, done, cleared, queue, executing, stranded, rows,
                       failed, starts>>
        /\ changes < MaxChanges /\ changes' = changes + 1
    BY <1>1 DEF Emit
  <2>2. disturbed' \subseteq Names /\ (~Watched => events' = events)
    BY <1>a, <1>1, EmitsOne
  <2>3. \/ events' = events
        \/ Len(events) < QueueLimit /\ events' = Append(events, e)
    BY <1>a, <1>1, EmitsOne
  <2>4. /\ events' \in Seq(Events) /\ Len(events') <= QueueLimit /\ Fit(events')
        /\ TellsGone(events') => TellsGone(events) \/ dir' # "here"
    <3>1. CASE events' = events
      BY <1>a, <1>b, <3>1 DEF EventInv
    <3>2. CASE Len(events) < QueueLimit /\ events' = Append(events, e)
      <4>1. events' \in Seq(Events) /\ Len(events') = Len(events) + 1
        BY <1>b, <3>2, AppendProperties
      <4>2. Fit(events') /\ (TellsGone(events') <=> TellsGone(events) \/ e.name = Everyone)
        BY <1>a, <1>b, <1>1, <3>2, FitMore DEF EventInv
      <4> QED BY <1>b, <1>1, <3>2, <4>1, <4>2
    <3> QED BY <2>3, <3>1, <3>2
  <2> QED BY <1>0, <1>1, <2>1, <2>2, <2>4
<1>2. ASSUME NEW n \in Names, CreateFile(n) PROVE ListInv'
  <2>1. Event("IN_CREATE", n) \in Events /\ Fits(Event("IN_CREATE", n))
        /\ Event("IN_CREATE", n).name # Everyone
    BY FileListAssumption DEF Event, Events, Targets, FileMasks, SelfMasks, Fits
  <2>2. folder' \subseteq Names /\ dir' = dir
    BY <1>2, <1>a DEF CreateFile, TypeOK
  <2> QED BY <1>1, <1>2, <1>a, <2>1, <2>2 DEF CreateFile, TypeOK
<1>3. ASSUME NEW n \in Names, DeleteFile(n) PROVE ListInv'
  <2>1. Event("IN_DELETE", n) \in Events /\ Fits(Event("IN_DELETE", n))
        /\ Event("IN_DELETE", n).name # Everyone
    BY FileListAssumption DEF Event, Events, Targets, FileMasks, SelfMasks, Fits
  <2>2. folder' \subseteq Names /\ dir' = dir
    BY <1>3, <1>a DEF DeleteFile, TypeOK
  <2> QED BY <1>1, <1>3, <1>a, <2>1, <2>2 DEF DeleteFile, TypeOK
<1>4. ASSUME NEW n \in Names, NEW k \in Names, RenameFile(n, k) PROVE ListInv'
  <2> DEFINE d == Event("IN_MOVED_FROM", n)
             e == Event("IN_MOVED_TO", k)
  <2>1. /\ d \in Events /\ Fits(d) /\ d.name # Everyone
        /\ e \in Events /\ Fits(e) /\ e.name # Everyone
    BY FileListAssumption DEF Event, Events, Targets, FileMasks, SelfMasks, Fits
  <2>2. /\ folder' \subseteq Names /\ dir' = dir
        /\ folder \cap {k} \in SUBSET Names
        /\ Emit(<<d, e>>, folder \cap {k})
    BY <1>4, <1>a DEF RenameFile, TypeOK
  <2> HIDE DEF d, e
  <2>3. /\ UNCHANGED <<mpc, toAdd, refreshed, batch, done, cleared, queue, executing, stranded, rows,
                       failed, starts>>
        /\ changes < MaxChanges /\ changes' = changes + 1
    BY <2>2 DEF Emit
  <2>4. /\ disturbed' \subseteq Names /\ (~Watched => events' = events)
        /\ \/ events' = events
           \/ Len(events) < QueueLimit /\ events' = Append(events, d)
           \/ Len(events) + 1 < QueueLimit /\ events' = Append(Append(events, d), e)
    BY <1>a, <2>1, <2>2, EmitsTwo
  <2> DEFINE s == Append(events, d)
  <2>5. /\ s \in Seq(Events) /\ Len(s) = Len(events) + 1 /\ Fit(s)
        /\ TellsGone(s) <=> TellsGone(events)
    BY <1>a, <1>b, <2>1, AppendProperties, FitMore DEF EventInv
  <2> HIDE DEF s
  <2>6. /\ Append(s, e) \in Seq(Events) /\ Len(Append(s, e)) = Len(events) + 2
        /\ Fit(Append(s, e)) /\ (TellsGone(Append(s, e)) <=> TellsGone(events))
    BY <1>b, <2>1, <2>5, AppendProperties, FitMore
  <2>7. /\ events' \in Seq(Events) /\ Len(events') <= QueueLimit /\ Fit(events')
        /\ TellsGone(events') => TellsGone(events)
    <3>1. CASE events' = events
      BY <1>a, <1>b, <3>1 DEF EventInv
    <3>2. CASE Len(events) < QueueLimit /\ events' = s
      BY <1>b, <2>5, <3>2
    <3>3. CASE Len(events) + 1 < QueueLimit /\ events' = Append(s, e)
      BY <1>b, <2>6, <3>3
    <3> QED BY <2>4, <3>1, <3>2, <3>3 DEF s
  <2> QED BY <1>0, <1>a, <2>2, <2>3, <2>4, <2>7 DEF TypeOK
<1>5. CASE RemoveFolder
  <2>1. /\ Event("IN_MOVE_SELF", Everyone) \in Events /\ Fits(Event("IN_MOVE_SELF", Everyone))
        /\ Event("IN_DELETE_SELF", Everyone) \in Events /\ Fits(Event("IN_DELETE_SELF", Everyone))
    BY DEF Event, Events, Targets, FileMasks, SelfMasks, Fits
  <2>2. dir = "here" /\ folder' \subseteq Names /\ dir' # "here" /\ dir' \in {"moved", "deleted"}
    BY <1>5, <1>a DEF RemoveFolder, TypeOK
  <2>3. \/ Emit(<<Event("IN_MOVE_SELF", Everyone)>>, {})
        \/ Emit(<<Event("IN_DELETE_SELF", Everyone)>>, {})
    BY <1>5 DEF RemoveFolder
  <2> QED BY <1>1, <2>1, <2>2, <2>3
<1> QED BY <1>2, <1>3, <1>4, <1>5 DEF Folder

\* The end of the process, when the database has nothing left to do.
LEMMA ExitStep ==
    ListInv /\ Exit /\ executing' \in [Workers -> {NoCommand}] /\ rows' \in [Names -> Nat] => ListInv'
<1> SUFFICES ASSUME ListInv, Exit, executing' \in [Workers -> {NoCommand}],
                    rows' \in [Names -> Nat]
             PROVE  ListInv'
  OBVIOUS
<1> USE DEF mainVars, watchVars, commandVars, boundVars
<1>1. NoneGiven'
  BY DEF Exit, NoneGiven
<1>2. CommandInv' /\ Pending' = {}
  BY <1>1, IdleNext DEF Idle
<1>3. TypeOK'
  <2>1. /\ events' \in Seq(Events) /\ Len(events') <= QueueLimit
        /\ batch' \in Seq(Events) /\ Len(batch') <= QueueLimit
    BY FileListAssumption DEF Exit
  <2>2. queue' \in Seq(Commands) /\ executing' \in [Workers -> Commands \cup {NoCommand}]
    BY <1>2 DEF CommandInv, CommandTypes
  <2> QED BY <2>1, <2>2 DEF ListInv, TypeOK, Exit
<1>4. StageInv'
  BY <1>2 DEF StageInv, Exit
<1>5. EventInv'
  <2>1. 1..Len(<<>>) = {}
    OBVIOUS
  <2> QED BY <2>1 DEF EventInv, Fit, TellsGone, Exit
<1> QED BY <1>2, <1>3, <1>4, <1>5 DEF ListInv

LEMMA MainStep == ListInv /\ (Main \/ Stop) => ListInv'
<1> SUFFICES ASSUME ListInv, Main \/ Stop PROVE ListInv'
  OBVIOUS
<1> USE DEF mainVars, watchVars, commandVars, boundVars
<1>a. TypeOK /\ CommandInv /\ StageInv /\ EventInv
  BY DEF ListInv
<1>t. ASSUME CommandInv', events' = <<>> \/ events' = events,
             UNCHANGED <<batch, folder, dir, rows, changes, failed>>
      PROVE  /\ queue' \in Seq(Commands) /\ executing' \in [Workers -> Commands \cup {NoCommand}]
             /\ events' \in Seq(Events) /\ Len(events') <= QueueLimit
             /\ batch' \in Seq(Events) /\ Len(batch') <= QueueLimit
             /\ folder' \subseteq Names /\ dir' \in {"here", "moved", "deleted"}
             /\ rows' \in [Names -> Nat] /\ changes' \in 0..MaxChanges /\ failed' \in 0..MaxFailures
  <2>1. <<>> \in Seq(Events) /\ Len(<<>>) <= QueueLimit
    BY FileListAssumption
  <2>2. queue' \in Seq(Commands) /\ executing' \in [Workers -> Commands \cup {NoCommand}]
    BY <1>t DEF CommandInv, CommandTypes
  <2> QED BY <1>a, <1>t, <2>1, <2>2 DEF TypeOK
<1>e. EventInv /\ (events' = <<>> \/ events' = events) /\ UNCHANGED <<batch, dir, cleared>>
      => EventInv'
  <2>1. 1..Len(<<>>) = {}
    OBVIOUS
  <2> QED BY <2>1 DEF EventInv, Fit, TellsGone
<1>1. CASE create_inotify
  <2>1. starts' \in 0..MaxStarts
    BY <1>1, <1>a, FileListAssumption DEF create_inotify, TypeOK
  <2>2. CommandInv' /\ Pending' = Pending
    BY <1>1, <1>a, CommandsSame DEF create_inotify
  <2>3. TypeOK'
    BY <1>1, <1>a, <1>t, <2>1, <2>2 DEF create_inotify, TypeOK
  <2>4. StageInv'
    BY <1>1, <1>a, <2>2 DEF create_inotify, StageInv
  <2> QED BY <1>1, <1>a, <1>e, <2>2, <2>3, <2>4 DEF create_inotify, ListInv
<1>2. CASE refresh_file_list
  <2> DEFINE c == [kind |-> "refresh", name |-> Everyone, no |-> Cardinality(Pending) + 1]
  <2>1. exec_command("refresh", Everyone) /\ mpc = "list" /\ mpc' = "truncate"
    BY <1>2 DEF refresh_file_list
  <2>2. CommandInv' /\ Pending' = Pending \cup {c}
    BY <1>a, <2>1, PushedLast DEF Kinds, Targets
  <2>3. Pending' = {c} /\ c.kind = "refresh"
    BY <1>a, <2>1, <2>2 DEF StageInv
  <2> HIDE DEF c
  <2>4. toAdd' \subseteq Names /\ disturbed' \subseteq Names
    BY <1>2, <1>a DEF refresh_file_list, TypeOK
  <2>5. TypeOK'
    BY <1>2, <1>a, <1>t, <2>1, <2>2, <2>4 DEF refresh_file_list, TypeOK, exec_command
  <2>6. StageInv'
    BY <1>2, <1>a, <2>3 DEF refresh_file_list, StageInv
  <2> QED BY <1>2, <1>a, <1>e, <2>2, <2>5, <2>6 DEF refresh_file_list, ListInv
<1>3. CASE ListThrows
  <2>1. executing' \in [Workers -> {NoCommand}] /\ rows' \in [Names -> Nat]
    BY <1>3, <1>a, NothingPending DEF ListThrows, StageInv, NoneGiven, TypeOK
  <2> QED BY <1>3, <2>1, ExitStep DEF ListThrows
<1>4. CASE Refreshed
  <2>1. CommandInv' /\ Pending' = Pending
    BY <1>4, <1>a, CommandsSame DEF Refreshed
  <2>2. TypeOK'
    BY <1>4, <1>a, <1>t, <2>1 DEF Refreshed, TypeOK
  <2>3. StageInv'
    BY <1>4, <1>a, <2>1 DEF Refreshed, StageInv
  <2> QED BY <1>4, <1>a, <1>e, <2>1, <2>2, <2>3 DEF Refreshed, ListInv
<1>5. ASSUME NEW n \in Names, AddListed(n) PROVE ListInv'
  <2> DEFINE c == [kind |-> "add", name |-> n, no |-> Cardinality(Pending) + 1]
  <2>1. exec_command("add", n) /\ mpc = "adding"
    BY <1>5 DEF AddListed
  <2>2. CommandInv' /\ Pending' = Pending \cup {c} /\ c.kind # "refresh"
    BY <1>a, <2>1, PushedLast, FileListAssumption DEF Kinds, Targets
  <2> HIDE DEF c
  <2>3. TypeOK'
    BY <1>5, <1>a, <1>t, <2>1, <2>2 DEF AddListed, TypeOK, exec_command
  <2>4. StageInv'
    BY <1>5, <1>a, <2>2 DEF AddListed, StageInv
  <2> QED BY <1>5, <1>a, <1>e, <2>2, <2>3, <2>4 DEF AddListed, ListInv
<1>6. CASE start_watching
  <2>1. CommandInv' /\ Pending' = Pending
    BY <1>6, <1>a, CommandsSame DEF start_watching
  <2>2. TypeOK'
    BY <1>6, <1>a, <1>t, <2>1 DEF start_watching, TypeOK
  <2>3. StageInv'
    BY <1>6, <1>a, <2>1 DEF start_watching, StageInv
  <2> QED BY <1>6, <1>a, <1>e, <2>1, <2>2, <2>3 DEF start_watching, ListInv
<1>7. CASE WatcherJoined
  <2>1. CommandInv' /\ Pending' = Pending
    BY <1>7, <1>a, CommandsSame DEF WatcherJoined
  <2>2. TypeOK'
    BY <1>7, <1>a, <1>t, <2>1 DEF WatcherJoined, TypeOK
  <2>3. StageInv'
    BY <1>7, <1>a, <2>1 DEF WatcherJoined, StageInv
  <2> QED BY <1>7, <1>a, <1>e, <2>1, <2>2, <2>3 DEF WatcherJoined, ListInv
<1>8. CASE DatabasePoolJoined
  <2>1. executing' \in [Workers -> {NoCommand}] /\ rows' \in [Names -> Nat]
    BY <1>8, <1>a DEF DatabasePoolJoined, TypeOK
  <2> QED BY <1>8, <2>1, ExitStep DEF DatabasePoolJoined
<1>9. CASE Stop
  <2>1. CommandInv' /\ Pending' = Pending
    BY <1>9, <1>a, CommandsSame DEF Stop
  <2>2. TypeOK'
    BY <1>9, <1>a, <1>t, <2>1 DEF Stop, TypeOK
  <2>3. StageInv'
    BY <1>9, <1>a, <2>1 DEF Stop, StageInv
  <2> QED BY <1>9, <1>a, <1>e, <2>1, <2>2, <2>3 DEF Stop, ListInv
<1> QED BY <1>1, <1>2, <1>3, <1>4, <1>5, <1>6, <1>7, <1>8, <1>9 DEF Main

LEMMA WatcherStep == ListInv /\ Watcher => ListInv'
<1> SUFFICES ASSUME ListInv, Watcher PROVE ListInv'
  OBVIOUS
<1> USE DEF mainVars, watchVars, commandVars, boundVars
<1>a. TypeOK /\ CommandInv /\ StageInv /\ EventInv
  BY DEF ListInv
<1>1. CASE watching
  <2>1. CommandInv' /\ Pending' = Pending
    BY <1>1, <1>a, CommandsSame DEF watching
  <2>2. TypeOK'
    BY <1>1, <1>a DEF watching, TypeOK
  <2>3. StageInv'
    BY <1>1, <1>a, <2>1 DEF watching, StageInv
  <2>4. EventInv'
    <3>1. 1..Len(<<>>) = {}
      OBVIOUS
    <3> QED BY <1>1, <1>a, <3>1 DEF watching, EventInv, Fit, TellsGone
  <2> QED BY <2>1, <2>2, <2>3, <2>4 DEF ListInv
<1>2. CASE read_handle_event
  <2> DEFINE e == Head(batch)
  <2>1. /\ batch # <<>> /\ batch' = Tail(batch) /\ (Added \/ Deleted \/ FolderGone)
        /\ UNCHANGED <<folder, dir, events, mpc, toAdd, refreshed, rows, changes, failed, starts>>
    BY <1>2 DEF read_handle_event, NextEvent
  <2>2. /\ batch \in Seq(Events) /\ Len(batch) <= QueueLimit
        /\ mpc \in {"watching", "stopping"}
    BY <1>a, <2>1 DEF TypeOK, StageInv
  <2>3. /\ e \in Events /\ batch' \in Seq(Events) /\ Len(batch') <= QueueLimit
        /\ Fits(e) /\ Fit(batch')
        /\ TellsGone(batch) <=> e.name = Everyone \/ TellsGone(batch')
    <3>1. Len(batch) \in Nat /\ QueueLimit \in Nat /\ Len(Tail(batch)) = Len(batch) - 1
      BY <2>1, <2>2, HeadTailProperties, FileListAssumption
    <3> QED BY <1>a, <2>1, <2>2, <3>1, HeadTailProperties, FitRest DEF EventInv
  <2>4. \E kind \in {"add", "delete", "dir_del"}, m \in Targets :
            exec_command(kind, m) /\ (m = Everyone <=> kind = "dir_del")
    <3>1. CASE Added
      BY <2>3, <3>1 DEF Added, Events, Fits, SelfMasks
    <3>2. CASE Deleted
      BY <2>3, <3>2 DEF Deleted, Events, Fits, SelfMasks
    <3>3. CASE FolderGone
      BY <3>3 DEF FolderGone, Targets
    <3> QED BY <2>1, <3>1, <3>2, <3>3
  <2>5. PICK kind \in {"add", "delete", "dir_del"}, m \in Targets :
            exec_command(kind, m) /\ (m = Everyone <=> kind = "dir_del")
    BY <2>4
  <2>6. /\ CommandInv'
        /\ Pending' = Pending \cup {[kind |-> kind, name |-> m, no |-> Cardinality(Pending) + 1]}
    <3>1. kind \in Kinds /\ (m = Everyone <=> kind \in {"dir_del", "refresh"})
      BY <2>5 DEF Kinds
    <3> QED BY <1>a, <2>5, <3>1, PushedLast
  <2>7. /\ disturbed' \subseteq Names
        /\ done' \in BOOLEAN /\ cleared' \in BOOLEAN
        /\ (done' = done /\ cleared' = cleared)
             \/ (e.name = Everyone /\ done' = TRUE /\ cleared' = TRUE)
    <3>1. CASE Added
      <4>1. e.name \in Names
        BY <2>3, <3>1 DEF Added, Events, Targets, Fits, SelfMasks
      <4> QED BY <1>a, <3>1, <4>1 DEF Added, TypeOK
    <3>2. CASE Deleted
      BY <1>a, <3>2 DEF Deleted, TypeOK
    <3>3. CASE FolderGone
      BY <1>a, <2>3, <3>3 DEF FolderGone, TypeOK, Fits
    <3> QED BY <2>1, <3>1, <3>2, <3>3
  <2> HIDE DEF e
  <2>8. TypeOK'
    <3>1. stranded' = stranded
      BY <2>5 DEF exec_command
    <3> QED BY <1>a, <2>1, <2>3, <2>6, <2>7, <3>1 DEF TypeOK, CommandInv, CommandTypes
  <2>9. StageInv'
    BY <1>a, <2>1, <2>2, <2>5, <2>6, <2>7 DEF StageInv
  <2>10. EventInv'
    BY <1>a, <2>1, <2>3, <2>7 DEF EventInv
  <2> QED BY <2>6, <2>8, <2>9, <2>10 DEF ListInv
<1> QED BY <1>1, <1>2 DEF Watcher

\* A command leaves a number of rows for each name.
LEMMA ApplyTypes ==
    ASSUME TypeOK, CommandInv, NEW c \in Pending, Apply(c)
    PROVE  rows' \in [Names -> Nat]
<1>1. c.name \in Targets
  BY PendingIs DEF CommandInv, Commands
<1>2. c.kind = "add" => c.name \in Names
  BY <1>1 DEF CommandInv, Targets
<1>3. rows \in [Names -> Nat]
  BY DEF TypeOK
<1>4. c.kind = "add" => [rows EXCEPT ![c.name] = rows[c.name] + 1] \in [Names -> Nat]
  BY <1>2, <1>3
<1>5. [rows EXCEPT ![c.name] = 0] \in [Names -> Nat]
  BY <1>3
<1> QED BY <1>4, <1>5 DEF Apply

LEMMA CrashStep == ListInv /\ (\E w \in Workers : TaskCrashes(w)) => ListInv'
<1> SUFFICES ASSUME ListInv, NEW w \in Workers, TaskCrashes(w) PROVE ListInv'
  OBVIOUS
<1>1. executing[w] \in Pending
  BY DEF TaskCrashes, Pending
<1>2. rows' \in [Names -> Nat]
  <2>1. CASE Apply(executing[w])
    BY <1>1, <2>1, ApplyTypes DEF ListInv
  <2>2. CASE rows' = rows
    BY <2>2 DEF ListInv, TypeOK
  <2> QED BY <2>1, <2>2 DEF TaskCrashes
<1>3. executing' \in [Workers -> {NoCommand}]
  BY DEF TaskCrashes
<1> QED BY <1>2, <1>3, ExitStep DEF TaskCrashes

LEMMA LossStep == ListInv /\ ConnectionsLost => ListInv'
BY CommandsSame
   DEF ConnectionsLost, mainVars, watchVars, boundVars, ListInv, TypeOK, StageInv, EventInv

LEMMA WorkerStep == ListInv /\ (\E w \in Workers : Worker(w)) => ListInv'
<1> SUFFICES ASSUME ListInv, NEW w \in Workers, Worker(w) PROVE ListInv'
  OBVIOUS
<1> USE DEF mainVars, watchVars, commandVars, boundVars
<1>a. TypeOK /\ CommandInv /\ StageInv /\ EventInv
  BY DEF ListInv
<1>1. CASE TakeCommand(w)
  <2>1. CommandInv' /\ Pending' = Pending
    BY <1>1, <1>a, TakenPends DEF TakeCommand
  <2>2. TypeOK'
    BY <1>1, <1>a, <2>1 DEF TakeCommand, TypeOK, CommandInv, CommandTypes
  <2>3. StageInv'
    BY <1>1, <1>a, <2>1 DEF TakeCommand, StageInv
  <2>4. EventInv'
    BY <1>1, <1>a DEF TakeCommand, EventInv
  <2> QED BY <2>1, <2>2, <2>3, <2>4 DEF ListInv
<1>2. CASE Executed(w)
  <2> DEFINE c == executing[w]
  <2>1. /\ c # NoCommand
        /\ executing' = [v \in Workers |-> IF v = w THEN NoCommand ELSE Without(c, executing[v])]
        /\ queue' = [i \in DOMAIN queue |-> Without(c, queue[i])]
        /\ \/ /\ Apply(c) /\ failed' = failed
              /\ disturbed' = disturbed \cup Overtaken(c)
              /\ Answer(c, "ok")
           \/ /\ failed < MaxFailures /\ failed' = failed + 1
              /\ rows' = rows \/ Apply(c)
              /\ disturbed' = disturbed \cup About(c.name)
              /\ Answer(c, "error")
        /\ UNCHANGED <<stranded, folder, dir, events, mpc, toAdd, batch, done, cleared,
                       changes, starts>>
    BY <1>2 DEF Executed
  <2> HIDE DEF c
  <2>2. /\ CommandInv' /\ c \in Pending
        /\ Pending' = {Without(c, d) : d \in Pending \ {c}}
        /\ \A d \in Pending : Without(c, d).kind = d.kind
    BY <1>a, <2>1, DoneGone DEF c
  <2>3. c \in Commands
    BY <1>a, <2>2, PendingIs DEF CommandInv
  <2>4. c.name \in Targets /\ c.kind \in Kinds
    BY <2>3 DEF Commands
  <2>5. /\ About(c.name) \subseteq Names /\ Overtaken(c) \subseteq Names
        /\ disturbed' \subseteq Names
    BY <1>a, <2>1, <2>4 DEF About, Targets, Overtaken, TypeOK
  <2>6. Apply(c) => rows' \in [Names -> Nat]
    BY <1>a, <2>2, ApplyTypes
  <2>7. rows' \in [Names -> Nat] /\ failed' \in 0..MaxFailures
    BY <1>a, <2>1, <2>6, FileListAssumption DEF TypeOK
  <2>8. \/ c.kind = "refresh" /\ refreshed' \in {"ok", "error"}
        \/ c.kind # "refresh" /\ refreshed' = refreshed
    BY <2>1 DEF Answer
  <2>9. TypeOK'
    BY <1>a, <2>1, <2>2, <2>5, <2>7, <2>8 DEF TypeOK, CommandInv, CommandTypes
  <2>10. StageInv'
    <3>1. mpc \notin {"off", "list"}
      BY <1>a, <2>2 DEF StageInv
    <3>2. CASE mpc = "truncate"
      <4>1. Pending = {c} /\ c.kind = "refresh"
        BY <1>a, <2>2, <3>2 DEF StageInv
      <4>2. Pending' = {} /\ refreshed' # "none"
        BY <2>2, <2>8, <4>1
      <4> QED BY <1>a, <2>1, <3>2, <4>2 DEF StageInv
    <3>3. CASE mpc # "truncate"
      <4>1. c.kind # "refresh" /\ refreshed' = refreshed
        BY <1>a, <2>2, <2>8, <3>3 DEF StageInv
      <4>2. \A d \in Pending' : d.kind # "refresh"
        BY <1>a, <2>2, <3>3 DEF StageInv
      <4> QED BY <1>a, <2>1, <3>1, <3>3, <4>1, <4>2 DEF StageInv
    <3> QED BY <3>2, <3>3
  <2>11. EventInv'
    BY <1>a, <2>1 DEF EventInv
  <2> QED BY <2>2, <2>9, <2>10, <2>11 DEF ListInv
<1> QED BY <1>1, <1>2 DEF Worker

LEMMA ListStep == ListInv /\ [Next]_vars => ListInv'
<1>1. ListInv /\ UNCHANGED vars => ListInv'
  BY CommandsSame DEF vars, mainVars, watchVars, commandVars, boundVars, ListInv, TypeOK,
     StageInv, EventInv
<1> QED BY <1>1, FolderStep, MainStep, WatcherStep, WorkerStep, CrashStep, LossStep DEF Next

LEMMA ListInvariant == Spec => []ListInv
BY ListInit, ListStep, PTL DEF Spec

(* Every variable keeps its type; in particular the kernel's queue stays   *)
(* within its limit, and a renumbered command keeps a natural number.      *)
THEOREM FileListTypes == Spec => []TypeOK
BY ListInvariant, PTL DEF ListInv

(* The refresh is alone in the database's pool: nothing is added before    *)
(* the table has been emptied.                                             *)
THEOREM RefreshAlone == Spec => []RefreshStandsAlone
<1>1. ASSUME ListInv PROVE RefreshStandsAlone
  <2> SUFFICES ASSUME NEW c \in Pending, c.kind = "refresh" PROVE Cardinality(Pending) = 1
    BY DEF RefreshStandsAlone
  <2>1. \E d : Pending = {d}
    BY <1>1 DEF ListInv, StageInv
  <2> QED BY <2>1, FS_Singleton
<1>2. ListInv => RefreshStandsAlone
  BY <1>1
<1> QED BY <1>2, ListInvariant, PTL

-------------------------------------------------------------------------------
(***************************************************************************)
(* What the pending commands P will make of a file that has r rows, if     *)
(* they are executed in the order of their numbers: each addition finds    *)
(* none, and b are left at the end.                                        *)
(***************************************************************************)

Mine(P, n) == {c \in P : n \in About(c.name)}

Orderly(P, n, r, b) ==
    /\ \A d \in Mine(P, n) : d.kind = "add" =>
          r = 0 \/ \E e \in Mine(P, n) : e.no < d.no /\ e.kind # "add"
    /\ \A c, d \in Mine(P, n) : c.kind = "add" /\ d.kind = "add" /\ c.no < d.no =>
          \E e \in Mine(P, n) : c.no < e.no /\ e.no < d.no /\ e.kind # "add"
    /\ Mine(P, n) = {} => b = r
    /\ Mine(P, n) # {} =>
          \E d \in Mine(P, n) : /\ \A e \in Mine(P, n) : e.no <= d.no
                                /\ b = IF d.kind = "add" THEN 1 ELSE 0

\* What one command makes of it.
Makes(c, n, a, b) ==
    IF n \notin About(c.name) THEN b = a ELSE IF c.kind = "add" THEN a = 0 /\ b = 1 ELSE b = 0

LEMMA OrderlyNone ==
    ASSUME NEW n, NEW r
    PROVE  \A b : Orderly({}, n, r, b) <=> b = r
<1>1. Mine({}, n) = {}
  BY DEF Mine
<1> QED BY <1>1 DEF Orderly

\* One more command, the last.
LEMMA OrderlyMore ==
    ASSUME NEW P \in SUBSET Commands, \A d, e \in P : d.no = e.no => d = e,
           NEW c \in Commands, \A d \in P : d.no < c.no,
           NEW n, NEW r \in Nat, NEW a, NEW b, Orderly(P, n, r, a), Makes(c, n, a, b)
    PROVE  Orderly(P \cup {c}, n, r, b)
<1> DEFINE M == Mine(P, n)
           N == Mine(P \cup {c}, n)
<1>1. CASE n \notin About(c.name)
  <2>1. N = M
    BY <1>1 DEF Mine
  <2> QED BY <1>1, <2>1 DEF Orderly, Makes
<1>2. CASE n \in About(c.name)
  <2>1. N = M \cup {c} /\ M \subseteq P
    BY <1>2 DEF Mine
  <2>2. c.no \in Nat /\ \A d \in P : d.no \in Nat /\ d.no < c.no
    BY DEF Commands
  <2>3. IF c.kind = "add" THEN a = 0 /\ b = 1 ELSE b = 0
    BY <1>2 DEF Makes
  <2>4. /\ \A d \in M : d.kind = "add" =>
              r = 0 \/ \E e \in M : e.no < d.no /\ e.kind # "add"
        /\ \A x, d \in M : x.kind = "add" /\ d.kind = "add" /\ x.no < d.no =>
              \E e \in M : x.no < e.no /\ e.no < d.no /\ e.kind # "add"
        /\ M = {} => a = r
        /\ M # {} =>
              \E d \in M : /\ \A e \in M : e.no <= d.no
                           /\ a = IF d.kind = "add" THEN 1 ELSE 0
    BY DEF Orderly
  <2> HIDE DEF M, N
  <2>5. c.kind = "add" /\ M # {} => \E d \in M : (\A e \in M : e.no <= d.no) /\ d.kind # "add"
    BY <2>3, <2>4
  <2>6. \A d \in N : d.kind = "add" => r = 0 \/ \E e \in N : e.no < d.no /\ e.kind # "add"
    <3> SUFFICES ASSUME NEW d \in N, d.kind = "add", r # 0
                 PROVE  \E e \in N : e.no < d.no /\ e.kind # "add"
      OBVIOUS
    <3>1. CASE d \in M
      BY <2>1, <2>4, <3>1
    <3>2. CASE d = c
      <4>1. M # {}
        BY <2>3, <2>4, <3>2
      <4> QED BY <2>1, <2>2, <2>5, <3>2, <4>1
    <3> QED BY <2>1, <3>1, <3>2
  <2>7. ASSUME NEW x \in N, NEW d \in N, x.kind = "add", d.kind = "add", x.no < d.no
        PROVE  \E e \in N : x.no < e.no /\ e.no < d.no /\ e.kind # "add"
    <3>1. x \in M
      BY <2>1, <2>2, <2>7
    <3>2. CASE d \in M
      BY <2>1, <2>4, <2>7, <3>1, <3>2
    <3>3. CASE d = c
      <4>1. PICK e \in M : (\A f \in M : f.no <= e.no) /\ e.kind # "add"
        BY <2>5, <2>7, <3>1, <3>3
      <4>2. x # e /\ x.no <= e.no /\ e \in P /\ x \in P
        BY <2>1, <2>7, <3>1, <4>1
      <4>3. CASE x.no < e.no
        BY <2>1, <2>2, <3>3, <4>1, <4>2, <4>3
      <4>4. x.no # e.no
        BY <2>7, <4>1, <4>2
      <4> QED BY <2>2, <4>2, <4>3, <4>4
    <3> QED BY <2>1, <2>7, <3>2, <3>3
  <2>8. N # {} /\ \E d \in N : /\ \A e \in N : e.no <= d.no
                               /\ b = IF d.kind = "add" THEN 1 ELSE 0
    <3>1. \A e \in N : e.no <= c.no
      BY <2>1, <2>2
    <3> QED BY <2>1, <2>3, <3>1
  <2> QED BY <2>6, <2>7, <2>8 DEF Orderly, N
<1> QED BY <1>1, <1>2

\* A command that overtakes none about the file is executed.
LEMMA OrderlyDone ==
    ASSUME NEW P \in SUBSET Commands, \A d, e \in P : d.no = e.no => d = e,
           NEW n, NEW c \in P, n \in About(c.name),
           \A d \in Mine(P, n) : ~(d.no < c.no),
           NEW r \in Nat, NEW b, Orderly(P, n, r, b)
    PROVE  /\ c.kind = "add" => r = 0
           /\ Orderly(P \ {c}, n, IF c.kind = "add" THEN r + 1 ELSE 0, b)
<1> DEFINE M == Mine(P, n)
           N == Mine(P \ {c}, n)
           q == IF c.kind = "add" THEN 1 ELSE 0
<1>1. N = M \ {c} /\ c \in M /\ \A d \in M : d \in P /\ d.no \in Nat
  BY DEF Mine, Commands
<1>2. \A d \in N : c.no < d.no
  <2> SUFFICES ASSUME NEW d \in N PROVE c.no < d.no
    OBVIOUS
  <2>1. d.no # c.no /\ ~(d.no < c.no) /\ d.no \in Nat /\ c.no \in Nat
    BY <1>1
  <2> QED BY <2>1
<1>3. /\ \A d \in M : d.kind = "add" =>
            r = 0 \/ \E e \in M : e.no < d.no /\ e.kind # "add"
      /\ \A x, d \in M : x.kind = "add" /\ d.kind = "add" /\ x.no < d.no =>
            \E e \in M : x.no < e.no /\ e.no < d.no /\ e.kind # "add"
      /\ \E d \in M : /\ \A e \in M : e.no <= d.no
                      /\ b = IF d.kind = "add" THEN 1 ELSE 0
  BY <1>1 DEF Orderly
<1>4. \A d \in M : ~(d.no < c.no)
  OBVIOUS
<1> HIDE DEF M, N
<1>5. c.kind = "add" => r = 0
  BY <1>1, <1>3, <1>4
<1>6. \A d \in N : d.kind = "add" => q = 0 \/ \E e \in N : e.no < d.no /\ e.kind # "add"
  <2> SUFFICES ASSUME NEW d \in N, d.kind = "add", c.kind = "add"
               PROVE  \E e \in N : e.no < d.no /\ e.kind # "add"
    OBVIOUS
  <2>1. \E e \in M : e.no < d.no /\ e.kind # "add"
    BY <1>1, <1>2, <1>3
  <2> QED BY <1>1, <2>1
<1>7. ASSUME NEW x \in N, NEW d \in N, x.kind = "add", d.kind = "add", x.no < d.no
      PROVE  \E e \in N : x.no < e.no /\ e.no < d.no /\ e.kind # "add"
  <2>1. PICK e \in M : x.no < e.no /\ e.no < d.no /\ e.kind # "add"
    BY <1>1, <1>3, <1>7
  <2>2. e # c
    BY <1>1, <1>4, <2>1
  <2> QED BY <1>1, <2>1, <2>2
<1>8. PICK d \in M : (\A e \in M : e.no <= d.no) /\ b = IF d.kind = "add" THEN 1 ELSE 0
  BY <1>3
<1>9. N = {} => b = q
  BY <1>1, <1>8
<1>10. N # {} => \E e \in N : /\ \A f \in N : f.no <= e.no
                              /\ b = IF e.kind = "add" THEN 1 ELSE 0
  <2> SUFFICES ASSUME N # {}
               PROVE  d \in N
    BY <1>1, <1>8
  <2>1. PICK e \in N : TRUE
    OBVIOUS
  <2>2. e.no <= d.no /\ c.no < e.no /\ e.no \in Nat /\ c.no \in Nat /\ d.no \in Nat
    BY <1>1, <1>2, <1>8, <2>1
  <2>3. d # c
    BY <2>2
  <2> QED BY <1>1, <2>3
<1>11. Orderly(P \ {c}, n, q, b)
  BY <1>6, <1>7, <1>9, <1>10 DEF Orderly, N
<1>12. q = IF c.kind = "add" THEN r + 1 ELSE 0
  BY <1>5
<1> QED BY <1>5, <1>11, <1>12

\* A command about other files is executed, or fails.
LEMMA OrderlyOther ==
    ASSUME NEW P, NEW n, NEW c, n \notin About(c.name), NEW r, NEW b, Orderly(P, n, r, b)
    PROVE  Orderly(P \ {c}, n, r, b)
<1>1. Mine(P \ {c}, n) = Mine(P, n)
  BY DEF Mine
<1> QED BY <1>1 DEF Orderly

\* Only the order of the numbers matters.
LEMMA OrderlyRenumbered ==
    ASSUME NEW P \in SUBSET Commands, NEW c \in Commands, NEW n, NEW r, NEW b,
           Orderly(P, n, r, b),
           \A d \in P : /\ d.no # c.no
                        /\ Without(c, d).name = d.name /\ Without(c, d).kind = d.kind
                        /\ Without(c, d).no = IF d.no > c.no THEN d.no - 1 ELSE d.no
    PROVE  Orderly({Without(c, d) : d \in P}, n, r, b)
<1> DEFINE Q == {Without(c, d) : d \in P}
           M == Mine(P, n)
           N == Mine(Q, n)
           w(d) == Without(c, d)
<1>1. \A d \in P : w(d).kind = d.kind
  OBVIOUS
<1>2. \A d, e \in P : /\ w(d).no < w(e).no <=> d.no < e.no
                      /\ d.no <= e.no => w(d).no <= w(e).no
  <2> SUFFICES ASSUME NEW d \in P, NEW e \in P
               PROVE  /\ w(d).no < w(e).no <=> d.no < e.no
                      /\ d.no <= e.no => w(d).no <= w(e).no
    OBVIOUS
  <2>1. /\ d.no \in Nat /\ e.no \in Nat /\ c.no \in Nat /\ d.no # c.no /\ e.no # c.no
        /\ w(d).no = IF d.no > c.no THEN d.no - 1 ELSE d.no
        /\ w(e).no = IF e.no > c.no THEN e.no - 1 ELSE e.no
    BY DEF Commands
  <2> HIDE DEF w
  <2> QED BY <2>1
<1>3. /\ \A d \in M : w(d) \in N /\ d \in P
      /\ \A q \in N : \E d \in M : q = w(d)
  BY DEF Mine
<1>4. /\ \A d \in M : d.kind = "add" =>
            r = 0 \/ \E e \in M : e.no < d.no /\ e.kind # "add"
      /\ \A x, d \in M : x.kind = "add" /\ d.kind = "add" /\ x.no < d.no =>
            \E e \in M : x.no < e.no /\ e.no < d.no /\ e.kind # "add"
      /\ M = {} => b = r
      /\ M # {} =>
            \E d \in M : /\ \A e \in M : e.no <= d.no
                         /\ b = IF d.kind = "add" THEN 1 ELSE 0
  BY DEF Orderly
<1> HIDE DEF M, N, w
<1>5. ASSUME NEW q \in N, q.kind = "add", r # 0
      PROVE  \E e \in N : e.no < q.no /\ e.kind # "add"
  <2>1. PICK d \in M : q = w(d)
    BY <1>3
  <2>2. PICK e \in M : e.no < d.no /\ e.kind # "add"
    BY <1>1, <1>3, <1>4, <1>5, <2>1
  <2>3. w(e) \in N /\ w(e).no < q.no /\ w(e).kind # "add"
    BY <1>1, <1>2, <1>3, <2>1, <2>2
  <2> QED BY <2>3
<1>6. ASSUME NEW p \in N, NEW q \in N, p.kind = "add", q.kind = "add", p.no < q.no
      PROVE  \E e \in N : p.no < e.no /\ e.no < q.no /\ e.kind # "add"
  <2>1. PICK x \in M : p = w(x)
    BY <1>3
  <2>2. PICK d \in M : q = w(d)
    BY <1>3
  <2>3. x.kind = "add" /\ d.kind = "add" /\ x.no < d.no
    BY <1>1, <1>2, <1>3, <1>6, <2>1, <2>2
  <2>4. PICK e \in M : x.no < e.no /\ e.no < d.no /\ e.kind # "add"
    BY <1>4, <2>3
  <2>5. w(e) \in N /\ p.no < w(e).no /\ w(e).no < q.no /\ w(e).kind # "add"
    BY <1>1, <1>2, <1>3, <2>1, <2>2, <2>4
  <2> QED BY <2>5
<1>7. N = {} => b = r
  BY <1>3, <1>4
<1>8. N # {} => \E d \in N : /\ \A e \in N : e.no <= d.no
                             /\ b = IF d.kind = "add" THEN 1 ELSE 0
  <2> SUFFICES ASSUME N # {}
               PROVE  \E d \in N : /\ \A e \in N : e.no <= d.no
                                   /\ b = IF d.kind = "add" THEN 1 ELSE 0
    OBVIOUS
  <2>1. PICK d \in M : (\A e \in M : e.no <= d.no) /\ b = IF d.kind = "add" THEN 1 ELSE 0
    BY <1>3, <1>4
  <2>2. \A q \in N : q.no <= w(d).no
    BY <1>2, <1>3, <2>1
  <2>3. w(d) \in N /\ w(d).kind = d.kind
    BY <1>1, <1>3, <2>1
  <2> QED BY <2>1, <2>2, <2>3
<1> QED BY <1>5, <1>6, <1>7, <1>8 DEF Orderly, N

-------------------------------------------------------------------------------
(***************************************************************************)
(* Of a file that is not disturbed, the row it has, then the pending       *)
(* commands, then what is left of the listing, then the events read, then  *)
(* the events queued lead to whether it is in the folder.                  *)
(***************************************************************************)

Present(n) == IF n \in folder THEN 1 ELSE 0

Listed(n, a, b) == IF n \in toAdd THEN a = 0 /\ b = 1 ELSE b = a

Leads(n, a, b, c) ==
    /\ Orderly(Pending, n, rows[n], a)
    /\ Listed(n, a, b)
    /\ Tells(batch, n, b, c)
    /\ Tells(events, n, c, Present(n))

NameInv(n) ==
    /\ mpc = "list" => \E a \in Bit : Tells(events, n, a, Present(n))
    /\ mpc \in {"truncate", "adding", "watching"} =>
          /\ refreshed # "error"
          /\ cleared => Orderly(Pending, n, rows[n], 0)
          /\ ~cleared => /\ dir # "here" => TellsGone(events) \/ TellsGone(batch)
                         /\ \E a, b, c \in Bit : Leads(n, a, b, c)

NamesInv == \A n \in Names \ disturbed : NameInv(n)

LEMMA Pushes ==
    ASSUME CommandInv, TypeOK, NEW kind \in Kinds, NEW m \in Targets, NEW n \in Names,
           m = Everyone <=> kind \in {"dir_del", "refresh"},
           exec_command(kind, m), rows' = rows
    PROVE  \A a, b \in Bit :
              /\ Orderly(Pending, n, rows[n], a)
              /\ IF n \notin About(m) THEN b = a ELSE IF kind = "add" THEN a = 0 /\ b = 1 ELSE b = 0
              => Orderly(Pending', n, rows'[n], b)
<1> DEFINE c == [kind |-> kind, name |-> m, no |-> Cardinality(Pending) + 1]
<1> SUFFICES ASSUME NEW a \in Bit, NEW b \in Bit, Orderly(Pending, n, rows[n], a),
                    IF n \notin About(m) THEN b = a
                    ELSE IF kind = "add" THEN a = 0 /\ b = 1 ELSE b = 0
             PROVE  Orderly(Pending', n, rows'[n], b)
  OBVIOUS
<1>1. /\ Cardinality(Pending) \in Nat /\ CommandTypes
      /\ Numbered(Pending, Cardinality(Pending))
  BY FS_CardinalityType DEF CommandInv
<1>2. c \in Commands /\ c.kind = kind /\ c.name = m /\ c.no = Cardinality(Pending) + 1
  BY <1>1 DEF Commands
<1>3. Pending' = Pending \cup {c}
  BY PushedLast
<1> HIDE DEF c
<1>4. /\ Pending \in SUBSET Commands /\ \A d, e \in Pending : d.no = e.no => d = e
      /\ \A d \in Pending : d.no < c.no
  BY <1>1, <1>2, PendingIs DEF Numbered
<1>5. Makes(c, n, a, b)
  BY <1>2 DEF Makes
<1>6. rows[n] \in Nat
  BY DEF TypeOK
<1>7. Orderly(Pending \cup {c}, n, rows[n], b)
  BY <1>2, <1>4, <1>5, <1>6, OrderlyMore
<1> QED BY <1>3, <1>7

\* A change of the folder is told, or the file is disturbed.
LEMMA FolderTells ==
    ASSUME ListInv, Folder, Watched, NEW n \in Names, n \notin disturbed', NEW a \in Bit,
           Tells(events, n, a, Present(n))
    PROVE  Tells(events', n, a, Present(n)')
<1>a. TypeOK /\ events \in Seq(Events) /\ Present(n) \in Bit /\ Present(n)' \in Bit
  BY DEF ListInv, TypeOK, Present, Bit
<1>1. ASSUME NEW e \in Events, Emit(<<e>>, {}), Turns(e, n, Present(n), Present(n)'),
             n \notin About(e.name) => Present(n)' = Present(n)
      PROVE  Tells(events', n, a, Present(n)')
  <2>1. \/ events' = Append(events, e)
        \/ events' = events /\ About(e.name) \subseteq disturbed'
    BY <1>1, <1>a, EmitsOne
  <2> QED BY <1>1, <1>a, <2>1, TellsMore
<1>2. ASSUME NEW k \in Names, CreateFile(k) PROVE Tells(events', n, a, Present(n)')
  <2>1. /\ Event("IN_CREATE", k) \in Events /\ Creates(Event("IN_CREATE", k))
        /\ Event("IN_CREATE", k).name = k
    BY DEF Event, Events, Targets, FileMasks, Creates
  <2>2. /\ Emit(<<Event("IN_CREATE", k)>>, {})
        /\ k \notin folder /\ folder' = folder \cup {k}
    BY <1>2 DEF CreateFile
  <2>3. /\ k = n => Present(n) = 0 /\ Present(n)' = 1
        /\ k # n => Present(n)' = Present(n)
    BY <2>2 DEF Present
  <2>4. n \in About(k) <=> n = k
    BY FileListAssumption DEF About
  <2> QED BY <1>1, <2>1, <2>2, <2>3, <2>4 DEF Turns
<1>3. ASSUME NEW k \in Names, DeleteFile(k) PROVE Tells(events', n, a, Present(n)')
  <2>1. /\ Event("IN_DELETE", k) \in Events /\ ~Creates(Event("IN_DELETE", k))
        /\ Event("IN_DELETE", k).name = k
    BY DEF Event, Events, Targets, FileMasks, Creates
  <2>2. /\ Emit(<<Event("IN_DELETE", k)>>, {})
        /\ folder' = folder \ {k}
    BY <1>3 DEF DeleteFile
  <2>3. /\ k = n => Present(n)' = 0
        /\ k # n => Present(n)' = Present(n)
    BY <2>2 DEF Present
  <2>4. n \in About(k) <=> n = k
    BY FileListAssumption DEF About
  <2> QED BY <1>1, <2>1, <2>2, <2>3, <2>4 DEF Turns
<1>4. ASSUME NEW m \in Names, NEW k \in Names, RenameFile(m, k)
      PROVE  Tells(events', n, a, Present(n)')
  <2> DEFINE d == Event("IN_MOVED_FROM", m)
             e == Event("IN_MOVED_TO", k)
             s == Append(events, d)
             p == IF n = m THEN 0 ELSE Present(n)
  <2>1. /\ d \in Events /\ ~Creates(d) /\ d.name = m
        /\ e \in Events /\ Creates(e) /\ e.name = k
    BY DEF Event, Events, Targets, FileMasks, Creates
  <2>2. /\ Emit(<<d, e>>, folder \cap {k})
        /\ folder' = (folder \ {m}) \cup {k} /\ m # k /\ m \in folder
    BY <1>4 DEF RenameFile
  <2> HIDE DEF d, e
  <2>3. /\ folder \cap {k} \subseteq disturbed'
        /\ \/ events' = Append(s, e)
           \/ events' = s /\ About(e.name) \subseteq disturbed'
           \/ events' = events /\ About(d.name) \cup About(e.name) \subseteq disturbed'
    <3>1. folder \cap {k} \in SUBSET Names
      BY <1>4
    <3> QED BY <1>a, <2>1, <2>2, <3>1, EmitsTwo
  <2>4. k \in About(k) /\ m \in About(m)
    BY DEF About
  <2>5. p \in Bit /\ s \in Seq(Events) /\ Tells(s, n, a, p)
    <3>1. p \in Bit /\ Turns(d, n, Present(n), p)
      BY <1>a, <2>1 DEF Turns, Bit
    <3> HIDE DEF p
    <3> QED BY <1>a, <2>1, <3>1, TellsMore
  <2>6. /\ n = k => p = 0 /\ Present(n)' = 1
        /\ n # k => Present(n)' = p
    BY <2>2, <2>3 DEF Present
  <2> HIDE DEF s, p
  <2>7. Turns(e, n, p, Present(n)')
    BY <2>1, <2>6 DEF Turns
  <2>8. CASE events' = Append(s, e)
    BY <1>a, <2>1, <2>5, <2>7, <2>8, TellsMore
  <2>9. CASE events' = s /\ About(e.name) \subseteq disturbed'
    BY <2>1, <2>4, <2>5, <2>6, <2>9
  <2>10. CASE events' = events /\ About(d.name) \cup About(e.name) \subseteq disturbed'
    <3>1. n # k /\ n # m
      BY <2>1, <2>4, <2>10
    <3>2. Present(n)' = Present(n)
      BY <2>2, <3>1 DEF Present
    <3> QED BY <2>10, <3>2
  <2> QED BY <2>3, <2>8, <2>9, <2>10
<1>5. CASE RemoveFolder
  <2>1. /\ Event("IN_MOVE_SELF", Everyone) \in Events
        /\ Event("IN_DELETE_SELF", Everyone) \in Events
        /\ Event("IN_MOVE_SELF", Everyone).name = Everyone
        /\ Event("IN_DELETE_SELF", Everyone).name = Everyone
    BY DEF Event, Events, Targets, SelfMasks
  <2>2. Present(n)' = Present(n)
    BY <1>5 DEF RemoveFolder, Present
  <2>3. n # Everyone
    BY FileListAssumption
  <2>4. CASE Emit(<<Event("IN_MOVE_SELF", Everyone)>>, {})
    BY <1>1, <2>1, <2>2, <2>3, <2>4 DEF Turns
  <2>5. CASE Emit(<<Event("IN_DELETE_SELF", Everyone)>>, {})
    BY <1>1, <2>1, <2>2, <2>3, <2>5 DEF Turns
  <2> QED BY <1>5, <2>4, <2>5 DEF RemoveFolder
<1> QED BY <1>2, <1>3, <1>4, <1>5 DEF Folder

\* The end of the folder is told too.
LEMMA FolderTellsGone ==
    ASSUME ListInv, Folder, Watched, NEW n \in Names, n \notin disturbed'
    PROVE  /\ TellsGone(events) => TellsGone(events')
           /\ dir' # "here" => dir # "here" \/ TellsGone(events')
<1>a. TypeOK /\ events \in Seq(Events)
  BY DEF ListInv, TypeOK
<1>1. ASSUME NEW e \in Events, Emit(<<e>>, {})
      PROVE  /\ TellsGone(events) => TellsGone(events')
             /\ e.name = Everyone => TellsGone(events')
  <2>1. \/ events' = Append(events, e)
        \/ events' = events /\ About(e.name) \subseteq disturbed'
    BY <1>1, <1>a, EmitsOne
  <2>2. About(Everyone) = Names
    BY DEF About
  <2> QED BY <1>1, <1>a, <2>1, <2>2, FitMore
<1>2. ASSUME NEW k \in Names, CreateFile(k) \/ DeleteFile(k)
      PROVE  (TellsGone(events) => TellsGone(events')) /\ dir' = dir
  <2>1. Event("IN_CREATE", k) \in Events /\ Event("IN_DELETE", k) \in Events
    BY DEF Event, Events, Targets, FileMasks
  <2> QED BY <1>1, <1>2, <2>1 DEF CreateFile, DeleteFile
<1>3. ASSUME NEW m \in Names, NEW k \in Names, RenameFile(m, k)
      PROVE  (TellsGone(events) => TellsGone(events')) /\ dir' = dir
  <2> DEFINE d == Event("IN_MOVED_FROM", m)
             e == Event("IN_MOVED_TO", k)
  <2>1. d \in Events /\ e \in Events
    BY DEF Event, Events, Targets, FileMasks
  <2>2. Emit(<<d, e>>, folder \cap {k}) /\ dir' = dir
    BY <1>3 DEF RenameFile
  <2> HIDE DEF d, e
  <2>3. folder \cap {k} \in SUBSET Names
    BY <1>3
  <2>4. \/ events' = Append(Append(events, d), e)
        \/ events' = Append(events, d)
        \/ events' = events
    BY <1>a, <2>1, <2>2, <2>3, EmitsTwo
  <2>5. /\ Append(events, d) \in Seq(Events)
        /\ TellsGone(events) => TellsGone(Append(events, d))
    BY <1>a, <2>1, FitMore
  <2>6. TellsGone(events) => TellsGone(Append(Append(events, d), e))
    BY <2>1, <2>5, FitMore
  <2> QED BY <2>2, <2>4, <2>5, <2>6
<1>4. CASE RemoveFolder
  <2>1. /\ Event("IN_MOVE_SELF", Everyone) \in Events
        /\ Event("IN_DELETE_SELF", Everyone) \in Events
        /\ Event("IN_MOVE_SELF", Everyone).name = Everyone
        /\ Event("IN_DELETE_SELF", Everyone).name = Everyone
    BY DEF Event, Events, Targets, SelfMasks
  <2>2. \/ Emit(<<Event("IN_MOVE_SELF", Everyone)>>, {})
        \/ Emit(<<Event("IN_DELETE_SELF", Everyone)>>, {})
    BY <1>4 DEF RemoveFolder
  <2> QED BY <1>1, <2>1, <2>2
<1> QED BY <1>2, <1>3, <1>4 DEF Folder

LEMMA NameFolder ==
    ASSUME ListInv, Folder, NEW n \in Names, n \notin disturbed', NameInv(n)
    PROVE  NameInv(n)'
<1>1. UNCHANGED <<mainVars, watchVars, commandVars, rows>>
  <2>1. ASSUME NEW es, NEW others, Emit(es, others)
        PROVE  UNCHANGED <<mainVars, watchVars, commandVars, rows>>
    BY <2>1 DEF Emit
  <2> QED BY <2>1 DEF Folder, CreateFile, DeleteFile, RenameFile, RemoveFolder
<1>2. /\ UNCHANGED <<mpc, toAdd, refreshed, batch, done, cleared, rows>>
      /\ Pending' = Pending
  BY <1>1 DEF mainVars, watchVars, commandVars, Pending
<1>3. CASE mpc = "list"
  <2>1. Watched
    BY <1>3 DEF Watched
  <2>2. PICK a \in Bit : Tells(events, n, a, Present(n))
    BY <1>3 DEF NameInv
  <2>3. Tells(events', n, a, Present(n)')
    BY <2>1, <2>2, FolderTells
  <2> QED BY <1>2, <1>3, <2>3 DEF NameInv
<1>4. CASE mpc \in {"truncate", "adding", "watching"}
  <2>1. Watched
    BY <1>4 DEF Watched
  <2>2. /\ TellsGone(events) => TellsGone(events')
        /\ dir' # "here" => dir # "here" \/ TellsGone(events')
    BY <2>1, FolderTellsGone
  <2>3. ASSUME NEW a \in Bit, NEW b \in Bit, NEW c \in Bit, Leads(n, a, b, c)
        PROVE  Leads(n, a, b, c)'
    <3>1. Tells(events', n, c, Present(n)')
      BY <2>1, <2>3, FolderTells DEF Leads
    <3> QED BY <1>2, <2>3, <3>1 DEF Leads, Listed
  <2>4. (\E a, b, c \in Bit : Leads(n, a, b, c)) => \E a, b, c \in Bit : Leads(n, a, b, c)'
    BY <2>3
  <2> QED BY <1>2, <1>4, <2>2, <2>4 DEF NameInv
<1>5. CASE mpc \notin {"list", "truncate", "adding", "watching"}
  BY <1>2, <1>5 DEF NameInv
<1> QED BY <1>3, <1>4, <1>5

\* The listing begins: the table will be empty, and what is queued and not
\* listed as well leads from the listing to the folder.
LEMMA NameListed ==
    ASSUME ListInv, refresh_file_list, NEW n \in Names, n \notin disturbed', NameInv(n)
    PROVE  NameInv(n)'
<1>a. TypeOK /\ CommandInv /\ StageInv /\ events \in Seq(Events) /\ Present(n) \in Bit
  BY DEF ListInv, TypeOK, Present, Bit
<1>1. /\ mpc = "list" /\ mpc' = "truncate" /\ dir = "here" /\ dir' = dir
      /\ toAdd' = folder /\ disturbed' = disturbed \cup (folder \cap Announced)
      /\ exec_command("refresh", Everyone)
      /\ UNCHANGED <<folder, events, refreshed, batch, cleared, rows>>
  BY DEF refresh_file_list, watchVars
<1>2. refreshed = "none" /\ batch = <<>> /\ ~cleared /\ Pending = {}
  BY <1>a, <1>1 DEF StageInv
<1>3. Orderly(Pending', n, rows'[n], 0)
  <2>1. Orderly(Pending, n, rows[n], rows[n])
    BY <1>2, OrderlyNone
  <2> DEFINE c == [kind |-> "refresh", name |-> Everyone, no |-> Cardinality(Pending) + 1]
  <2>2. Pending' = {} \cup {c}
    BY <1>a, <1>1, <1>2, PushedLast DEF Kinds, Targets
  <2>3. c \in Commands /\ c.kind = "refresh" /\ c.name = Everyone
    BY <1>2, FS_EmptySet DEF Commands, Kinds, Targets
  <2> HIDE DEF c
  <2>4. Makes(c, n, rows[n], 0)
    BY <2>3 DEF Makes, About
  <2>5. rows[n] \in Nat
    BY <1>a DEF TypeOK
  <2>6. Orderly({} \cup {c}, n, rows[n], 0)
    BY <1>2, <2>1, <2>3, <2>4, <2>5, OrderlyMore
  <2> QED BY <1>1, <2>2, <2>6
<1>4. Tells(events, n, Present(n), Present(n))
  <2>1. PICK a \in Bit : Tells(events, n, a, Present(n))
    BY <1>1 DEF NameInv
  <2>2. ASSUME Present(n) = 1, NEW i \in 1..Len(events), events[i].name = n, Creates(events[i])
        PROVE  \E j \in 1..(i - 1) : events[j].name = n
    <3>1. n \notin Announced
      BY <1>1, <2>2 DEF Present
    <3>2. events[i] \in {Event("IN_CREATE", n), Event("IN_MOVED_TO", n)}
      <4>1. events[i] \in Events
        BY <1>a
      <4> QED BY <2>2, <4>1 DEF Events, Event, Creates
    <3>3. i \in DOMAIN events
      BY <1>a
    <3> QED BY <3>1, <3>2, <3>3 DEF Announced
  <2> QED BY <1>a, <2>1, <2>2, TellsAgain
<1>5. Listed(n, 0, Present(n))'
  BY <1>1 DEF Listed, Present
<1>6. Tells(batch', n, Present(n)', Present(n)')
  BY <1>a, <1>1, <1>2, TellsNothing DEF Present
<1>7. Present(n)' = Present(n) /\ 0 \in Bit
  BY <1>1 DEF Present, Bit
<1>8. Leads(n, 0, Present(n), Present(n))'
  BY <1>1, <1>3, <1>4, <1>5, <1>6, <1>7 DEF Leads
<1>9. \E a, b, c \in Bit : Leads(n, a, b, c)'
  BY <1>a, <1>7, <1>8
<1> QED BY <1>1, <1>2, <1>9 DEF NameInv

LEMMA NameMain ==
    ASSUME ListInv, Main \/ Stop, NEW n \in Names, n \notin disturbed', mpc' # "off", NameInv(n)
    PROVE  NameInv(n)'
<1> USE DEF mainVars, watchVars, commandVars, boundVars
<1>a. TypeOK /\ CommandInv /\ StageInv /\ EventInv /\ Present(n) \in Bit
  BY DEF ListInv, Present, Bit
<1>1. CASE create_inotify
  <2>1. mpc' = "list" /\ events' = <<>> /\ Present(n)' = Present(n)
    BY <1>1, <1>a DEF create_inotify, StageInv, Present
  <2>2. Tells(<<>>, n, Present(n), Present(n))
    BY <1>a, TellsNothing
  <2> QED BY <1>a, <2>1, <2>2 DEF NameInv
<1>2. CASE refresh_file_list
  BY <1>2, NameListed
<1>3. CASE Refreshed
  <2>1. /\ mpc = "truncate" /\ mpc' = "adding" /\ refreshed' = "none"
        /\ refreshed = "ok" /\ toAdd' = toAdd /\ Pending' = Pending
        /\ UNCHANGED <<folder, dir, events, batch, cleared, rows>>
    BY <1>3, <1>a DEF Refreshed, NameInv, Pending, TypeOK
  <2>2. ASSUME NEW a \in Bit, NEW b \in Bit, NEW c \in Bit, Leads(n, a, b, c)
        PROVE  Leads(n, a, b, c)'
    BY <2>1, <2>2 DEF Leads, Listed, Present
  <2> QED BY <2>1, <2>2 DEF NameInv
<1>4. ASSUME NEW k \in Names, AddListed(k) PROVE NameInv(n)'
  <2>1. /\ mpc = "adding" /\ mpc' = "adding" /\ refreshed' = refreshed
        /\ k \in toAdd /\ toAdd' = toAdd \ {k}
        /\ exec_command("add", k)
        /\ UNCHANGED <<folder, dir, events, batch, cleared, rows>>
    BY <1>4 DEF AddListed
  <2>2. ~cleared
    BY <1>a, <2>1 DEF StageInv
  <2>3. PICK a, b, c \in Bit : Leads(n, a, b, c)
    BY <2>1, <2>2 DEF NameInv
  <2> DEFINE d == IF n = k THEN 1 ELSE a
  <2>4. d \in Bit /\ (IF n \notin About(k) THEN d = a ELSE a = 0 /\ d = 1)
    BY <2>1, <2>3, FileListAssumption DEF About, Leads, Listed, Bit
  <2>5. Listed(n, d, b)'
    BY <2>1, <2>3 DEF Leads, Listed
  <2> HIDE DEF d
  <2>6. Orderly(Pending', n, rows'[n], d)
    BY <1>a, <2>1, <2>3, <2>4, Pushes, FileListAssumption DEF Leads, Kinds, Targets
  <2>7. Leads(n, d, b, c)'
    BY <2>1, <2>3, <2>5, <2>6 DEF Leads, Present
  <2>8. \E x, y, z \in Bit : Leads(n, x, y, z)'
    BY <2>3, <2>4, <2>7
  <2> QED BY <2>1, <2>2, <2>8 DEF NameInv
<1>5. CASE start_watching
  <2>1. /\ mpc = "adding" /\ mpc' = "watching" /\ Pending' = Pending
        /\ UNCHANGED <<folder, dir, events, batch, cleared, rows, toAdd, refreshed>>
    BY <1>5 DEF start_watching, Pending
  <2>2. ASSUME NEW a \in Bit, NEW b \in Bit, NEW c \in Bit, Leads(n, a, b, c)
        PROVE  Leads(n, a, b, c)'
    BY <2>1, <2>2 DEF Leads, Listed, Present
  <2> QED BY <2>1, <2>2 DEF NameInv
<1>6. CASE WatcherJoined \/ Stop
  BY <1>6 DEF WatcherJoined, Stop, NameInv
<1>7. CASE ListThrows \/ DatabasePoolJoined
  BY <1>7 DEF ListThrows, DatabasePoolJoined, Exit
<1> QED BY <1>1, <1>2, <1>3, <1>4, <1>5, <1>6, <1>7 DEF Main

LEMMA NameWatcher ==
    ASSUME ListInv, Watcher, NEW n \in Names, n \notin disturbed', NameInv(n)
    PROVE  NameInv(n)'
<1> USE DEF mainVars, watchVars, commandVars, boundVars
<1>a. /\ TypeOK /\ CommandInv /\ StageInv /\ EventInv /\ Present(n) \in Bit
      /\ batch \in Seq(Events) /\ events \in Seq(Events)
  BY DEF ListInv, Present, Bit, TypeOK
<1>1. mpc \in {"watching", "stopping"} /\ UNCHANGED <<folder, dir, mpc, toAdd, refreshed, rows>>
  BY <1>a DEF Watcher, watching, read_handle_event, StageInv
<1>2. CASE mpc = "stopping"
  BY <1>1, <1>2 DEF NameInv
<1>3. CASE mpc = "watching" /\ watching
  <2>1. /\ batch = <<>> /\ batch' = events /\ events' = <<>>
        /\ cleared' = cleared /\ Pending' = Pending
    BY <1>3 DEF watching, Pending
  <2>2. TellsGone(batch') <=> TellsGone(events)
    BY <2>1 DEF TellsGone
  <2>3. ~TellsGone(batch)
    BY <2>1 DEF TellsGone
  <2>4. ASSUME NEW a \in Bit, NEW b \in Bit, NEW c \in Bit, Leads(n, a, b, c)
        PROVE  Leads(n, a, b, Present(n))'
    <3>1. Tells(batch', n, b, Present(n)) /\ Present(n)' = Present(n)
      BY <1>1, <2>1, <2>4, TellsNothing DEF Leads, Present
    <3>2. Tells(events', n, Present(n), Present(n))
      BY <1>a, <2>1, TellsNothing
    <3> QED BY <1>1, <2>1, <2>4, <3>1, <3>2 DEF Leads, Listed
  <2>5. Present(n)' \in Bit
    BY DEF Present, Bit
  <2>6. (\E a, b, c \in Bit : Leads(n, a, b, c)) => \E a, b, c \in Bit : Leads(n, a, b, c)'
    BY <2>4, <2>5
  <2> QED BY <1>1, <1>3, <2>1, <2>2, <2>3, <2>6 DEF NameInv
<1>4. CASE mpc = "watching" /\ read_handle_event
  <2> DEFINE e == Head(batch)
  <2>1. /\ batch # <<>> /\ batch' = Tail(batch) /\ events' = events
        /\ Added \/ Deleted \/ FolderGone
    BY <1>4 DEF read_handle_event, NextEvent
  <2>2. toAdd = {} /\ refreshed = "none"
    BY <1>a, <1>4 DEF StageInv
  <2>3. /\ e \in Events /\ Fits(e)
        /\ TellsGone(batch) <=> e.name = Everyone \/ TellsGone(batch')
    BY <1>a, <2>1, HeadTailProperties, FitRest DEF EventInv
  <2>4. ASSUME NEW a \in Bit, NEW b \in Bit, NEW kind \in Kinds, NEW m \in Targets,
               m = Everyone <=> kind \in {"dir_del", "refresh"}, exec_command(kind, m),
               Orderly(Pending, n, rows[n], a),
               IF n \notin About(m) THEN b = a ELSE IF kind = "add" THEN a = 0 /\ b = 1 ELSE b = 0
        PROVE  Orderly(Pending', n, rows'[n], b)
    BY <1>1, <1>a, <2>4, Pushes
  <2>5. CASE FolderGone
    <3>1. exec_command("dir_del", Everyone) /\ cleared'
      BY <2>5 DEF FolderGone
    <3>2. PICK a \in Bit : Orderly(Pending, n, rows[n], a)
      <4>1. 0 \in Bit
        BY DEF Bit
      <4> QED BY <1>4, <4>1 DEF NameInv, Leads
    <3>3. Orderly(Pending', n, rows'[n], 0)
      BY <2>4, <3>1, <3>2 DEF Kinds, Targets, About, Bit
    <3> QED BY <1>1, <2>2, <3>1, <3>3 DEF NameInv
  <2>6. CASE Added \/ Deleted
    <3>1. PICK kind \in {"add", "delete"} :
            /\ exec_command(kind, e.name) /\ cleared' = cleared
            /\ kind = "add" <=> Creates(e)
            /\ e.name \in Names
            /\ kind = "add" /\ cleared => n # e.name
      <4>1. CASE Added
        <5>1. Creates(e) /\ exec_command("add", e.name) /\ cleared' = cleared
              /\ (cleared => e.name \in disturbed')
          BY <4>1 DEF Added, Creates
        <5>2. e.name \in Names
          BY <2>3, <5>1 DEF Fits, Events, Targets, Creates, SelfMasks
        <5> HIDE DEF e
        <5> QED BY <5>1, <5>2
      <4>2. CASE Deleted
        <5>1. ~Creates(e) /\ exec_command("delete", e.name) /\ cleared' = cleared
          BY <4>2 DEF Deleted, Creates
        <5>2. e.name \in Names
          BY <2>3, <4>2 DEF Deleted, Fits, Events, Targets, SelfMasks
        <5> HIDE DEF e
        <5> QED BY <5>1, <5>2
      <4> QED BY <2>6, <4>1, <4>2
    <3>2. /\ kind \in Kinds /\ e.name \in Targets /\ e.name # Everyone
          /\ kind \notin {"dir_del", "refresh"}
          /\ n \in About(e.name) <=> n = e.name
      BY <3>1, FileListAssumption DEF Kinds, Targets, About
    <3> HIDE DEF e
    <3>3. CASE cleared
      <4>1. Orderly(Pending, n, rows[n], 0)
        BY <1>4, <3>3 DEF NameInv
      <4>2. Orderly(Pending', n, rows'[n], 0)
        BY <2>4, <3>1, <3>2, <3>3, <4>1 DEF Bit
      <4> QED BY <1>1, <2>2, <3>1, <3>3, <4>2 DEF NameInv
    <3>4. CASE ~cleared
      <4>1. PICK a, b, c \in Bit : Leads(n, a, b, c)
        BY <1>4, <3>4 DEF NameInv
      <4>2. a = b
        BY <2>2, <4>1 DEF Leads, Listed
      <4>3. PICK d \in Bit : Turns(e, n, a, d) /\ Tells(batch', n, d, c)
        <5>1. Tells(batch, n, a, c)
          BY <4>1, <4>2 DEF Leads
        <5> QED BY <1>a, <2>1, <5>1, TellsRest DEF e
      <4>4. Orderly(Pending', n, rows'[n], d)
        BY <2>4, <3>1, <3>2, <4>1, <4>3 DEF Turns, Leads
      <4>5. Leads(n, d, d, c)'
        BY <1>1, <2>1, <2>2, <4>1, <4>3, <4>4 DEF Leads, Listed, Present
      <4>6. \E x, y, z \in Bit : Leads(n, x, y, z)'
        BY <4>1, <4>3, <4>5
      <4>7. dir' # "here" => TellsGone(events') \/ TellsGone(batch')
        BY <1>1, <1>4, <2>1, <2>3, <3>2, <3>4 DEF NameInv
      <4> QED BY <1>1, <2>2, <3>1, <3>4, <4>6, <4>7 DEF NameInv
    <3> QED BY <3>3, <3>4
  <2> QED BY <2>1, <2>5, <2>6
<1> QED BY <1>1, <1>2, <1>3, <1>4 DEF Watcher

LEMMA NameWorker ==
    ASSUME ListInv, NEW w \in Workers, Worker(w), NEW n \in Names, n \notin disturbed', NameInv(n)
    PROVE  NameInv(n)'
<1> USE DEF mainVars, watchVars, commandVars, boundVars
<1>a. TypeOK /\ CommandInv
  BY DEF ListInv
<1>0. /\ UNCHANGED <<folder, dir, events, mpc, toAdd, batch, cleared>>
  BY DEF Worker, TakeCommand, Executed
<1>1. ASSUME \A b \in Bit : Orderly(Pending, n, rows[n], b) => Orderly(Pending', n, rows'[n], b),
             refreshed' = refreshed \/ refreshed' # "error"
      PROVE  NameInv(n)'
  <2>1. ASSUME NEW a \in Bit, NEW b \in Bit, NEW c \in Bit, Leads(n, a, b, c)
        PROVE  Leads(n, a, b, c)'
    BY <1>0, <1>1, <2>1 DEF Leads, Listed, Present
  <2>2. (\E a, b, c \in Bit : Leads(n, a, b, c)) => \E a, b, c \in Bit : Leads(n, a, b, c)'
    BY <2>1
  <2>3. 0 \in Bit
    BY DEF Bit
  <2>4. Present(n)' = Present(n)
    BY <1>0 DEF Present
  <2> QED BY <1>0, <1>1, <2>2, <2>3, <2>4 DEF NameInv
<1>2. CASE TakeCommand(w)
  <2>1. Pending' = Pending /\ UNCHANGED <<rows, refreshed>>
    BY <1>a, <1>2, TakenPends DEF TakeCommand
  <2> QED BY <1>1, <2>1
<1>3. CASE Executed(w)
  <2> DEFINE c == executing[w]
             R == Pending \ {c}
  <2>1. /\ c # NoCommand
        /\ executing' = [v \in Workers |-> IF v = w THEN NoCommand ELSE Without(c, executing[v])]
        /\ queue' = [i \in DOMAIN queue |-> Without(c, queue[i])]
        /\ \/ /\ Apply(c)
              /\ disturbed' = disturbed \cup Overtaken(c)
              /\ Answer(c, "ok")
           \/ /\ rows' = rows \/ Apply(c)
              /\ disturbed' = disturbed \cup About(c.name)
              /\ Answer(c, "error")
    BY <1>3 DEF Executed
  <2> HIDE DEF c
  <2>2. /\ c \in Pending
        /\ Pending' = {Without(c, d) : d \in R}
        /\ \A d \in Pending :
             /\ Without(c, d).name = d.name /\ Without(c, d).kind = d.kind
             /\ Without(c, d).no = IF d.no > c.no THEN d.no - 1 ELSE d.no
    BY <1>a, <2>1, DoneGone DEF c
  <2>3. /\ Pending \in SUBSET Commands /\ c \in Commands
        /\ \A d, e \in Pending : d.no = e.no => d = e
        /\ c.name = Everyone <=> c.kind \in {"dir_del", "refresh"}
        /\ rows[n] \in Nat /\ rows \in [Names -> Nat]
    BY <1>a, <2>2, PendingIs DEF CommandInv, Numbered, TypeOK
  <2>4. ASSUME NEW b \in Bit, NEW r, Orderly(R, n, r, b) PROVE Orderly(Pending', n, r, b)
    <3>1. R \in SUBSET Commands /\ \A d \in R : d.no # c.no
      BY <2>2, <2>3
    <3> HIDE DEF R
    <3>2. \A d \in R : d \in Pending
      BY DEF R
    <3> QED BY <2>2, <2>3, <2>4, <3>1, <3>2, OrderlyRenumbered
  <2> HIDE DEF R
  <2>5. CASE n \notin About(c.name)
    <3>1. c.name # n /\ c.kind \in {"add", "delete"}
      <4>1. c.name # n /\ c.name # Everyone
        BY <2>5 DEF About
      <4>2. c.kind \in Kinds
        BY <2>3 DEF Commands
      <4> QED BY <2>3, <4>1, <4>2 DEF Kinds
    <3>2. rows'[n] = rows[n]
      BY <2>1, <2>3, <3>1 DEF Apply
    <3>3. \A b \in Bit : Orderly(Pending, n, rows[n], b) => Orderly(R, n, rows[n], b)
      BY <2>5, OrderlyOther DEF R
    <3>4. refreshed' = refreshed
      BY <2>1, <3>1 DEF Answer
    <3> QED BY <1>1, <2>4, <3>2, <3>3, <3>4
  <2>6. CASE n \in About(c.name)
    <3>1. /\ Apply(c) /\ n \notin Overtaken(c) /\ Answer(c, "ok")
      BY <2>1, <2>6
    <3>2. \A d \in Mine(Pending, n) : ~(d.no < c.no)
      <4> SUFFICES ASSUME NEW d \in Pending, n \in About(d.name), d.no < c.no PROVE FALSE
        BY DEF Mine
      <4>1. Conflict(c, d)
        BY <2>6 DEF Conflict, About
      <4> QED BY <2>6, <3>1, <4>1 DEF Overtaken
    <3>3. rows'[n] = IF c.kind = "add" THEN rows[n] + 1 ELSE 0
      <4>1. CASE c.kind = "add"
        <5>1. c.name = n
          BY <2>3, <2>6, <4>1 DEF About
        <5> QED BY <2>3, <3>1, <4>1, <5>1 DEF Apply
      <4>2. CASE c.kind = "delete"
        <5>1. c.name = n
          BY <2>3, <2>6, <4>2 DEF About
        <5> QED BY <2>3, <3>1, <4>2, <5>1 DEF Apply
      <4>3. CASE c.kind \notin {"add", "delete"}
        BY <3>1, <4>3 DEF Apply
      <4> QED BY <4>1, <4>2, <4>3
    <3>4. ASSUME NEW b \in Bit, Orderly(Pending, n, rows[n], b) PROVE Orderly(R, n, rows'[n], b)
      <4>1. Orderly(Pending \ {c}, n, IF c.kind = "add" THEN rows[n] + 1 ELSE 0, b)
        <5> DEFINE P == Pending
                   r == rows[n]
        <5>1. /\ P \in SUBSET Commands /\ (\A d, e \in P : d.no = e.no => d = e)
              /\ c \in P /\ (\A d \in Mine(P, n) : ~(d.no < c.no))
              /\ r \in Nat /\ Orderly(P, n, r, b)
          BY <2>2, <2>3, <3>2, <3>4
        <5> HIDE DEF P, r
        <5>2. Orderly(P \ {c}, n, IF c.kind = "add" THEN r + 1 ELSE 0, b)
          BY <2>6, <5>1, OrderlyDone
        <5> QED BY <5>2 DEF P, r
      <4> QED BY <3>3, <4>1 DEF R
    <3>5. refreshed' = refreshed \/ refreshed' # "error"
      BY <3>1 DEF Answer
    <3> QED BY <1>1, <2>4, <3>4, <3>5
  <2> QED BY <2>5, <2>6
<1> QED BY <1>2, <1>3 DEF Worker

\* Only the end of the process forgets a disturbance.
LEMMA StillDisturbed ==
    ASSUME ListInv, Next, mpc' # "off" \/ mpc = "off"
    PROVE  disturbed \subseteq disturbed'
<1>1. ASSUME NEW es, NEW others, Emit(es, others) PROVE disturbed \subseteq disturbed'
  BY <1>1 DEF Emit
<1>2. CASE Folder
  BY <1>1, <1>2 DEF Folder, CreateFile, DeleteFile, RenameFile, RemoveFolder
<1>3. CASE Main \/ Stop
  BY <1>3 DEF Main, Stop, create_inotify, refresh_file_list, ListThrows, Refreshed, AddListed,
     start_watching, WatcherJoined, DatabasePoolJoined, Exit
<1>4. CASE Watcher
  BY <1>4 DEF Watcher, watching, read_handle_event, Added, Deleted, FolderGone
<1>5. ASSUME NEW w \in Workers, Worker(w) PROVE disturbed \subseteq disturbed'
  BY <1>5 DEF Worker, TakeCommand, Executed
<1>6. ASSUME NEW w \in Workers PROVE ~TaskCrashes(w)
  <2> SUFFICES ASSUME TaskCrashes(w) PROVE FALSE
    OBVIOUS
  <2> QED BY DEF TaskCrashes, Exit
<1>7. ConnectionsLost => disturbed' = disturbed
  BY DEF ConnectionsLost
<1> QED BY <1>2, <1>3, <1>4, <1>5, <1>6, <1>7 DEF Next

LEMMA NameLoss ==
    ASSUME ConnectionsLost, NEW n \in Names, NameInv(n)
    PROVE  NameInv(n)'
<1>1. /\ UNCHANGED <<folder, dir, events, mpc, toAdd, refreshed, batch, cleared, rows>>
      /\ Pending' = Pending
  BY DEF ConnectionsLost, mainVars, watchVars, Pending
<1> QED BY <1>1 DEF NameInv, Leads, Listed, Present

LEMMA NamesStep == ListInv /\ NamesInv /\ [Next]_vars => NamesInv'
<1>1. CASE UNCHANGED vars
  <2>1. /\ UNCHANGED <<folder, dir, events, mpc, toAdd, refreshed, batch, cleared, rows, disturbed>>
        /\ Pending' = Pending
    BY <1>1 DEF vars, mainVars, watchVars, commandVars, boundVars, Pending
  <2> QED BY <2>1 DEF NamesInv, NameInv, Leads, Listed, Present
<1>2. ASSUME ListInv, NamesInv, Next PROVE NamesInv'
  <2> SUFFICES ASSUME NEW n \in Names, n \notin disturbed' PROVE NameInv(n)'
    BY DEF NamesInv
  <2>1. CASE mpc' = "off"
    BY <2>1 DEF NameInv
  <2>2. CASE mpc' # "off"
    <3>1. NameInv(n)
      BY <1>2, <2>2, StillDisturbed DEF NamesInv
    <3>2. ASSUME NEW w \in Workers PROVE ~TaskCrashes(w)
      BY <2>2 DEF TaskCrashes, Exit
    <3> QED BY <1>2, <2>2, <3>1, <3>2, NameFolder, NameMain, NameWatcher, NameWorker, NameLoss
            DEF Next
  <2> QED BY <2>1, <2>2
<1> QED BY <1>1, <1>2

(* Whenever everything is worked off, each file that is not disturbed has  *)
(* one row if it is in the folder, and none if it is not.                  *)
THEOREM ListedExactly == Spec => []ListedExactlyUnlessDisturbed
<1>1. Init => NamesInv
  BY DEF Init, NamesInv, NameInv
<1>2. ListInv /\ NamesInv => ListedExactlyUnlessDisturbed
  <2> SUFFICES ASSUME ListInv, NamesInv, Quiet, NEW n \in Names \ disturbed
               PROVE  rows[n] = IF n \in Available THEN 1 ELSE 0
    BY DEF ListedExactlyUnlessDisturbed
  <2>1. /\ mpc = "watching" /\ batch = <<>> /\ (done \/ events = <<>>) /\ Pending = {}
        /\ NameInv(n) /\ StageInv /\ EventInv
    BY DEF Quiet, NamesInv, ListInv
  <2>2. CASE cleared
    <3>1. rows[n] = 0
      BY <2>1, <2>2, OrderlyNone DEF NameInv
    <3> QED BY <2>1, <2>2, <3>1 DEF EventInv, Available
  <2>3. CASE ~cleared
    <3>1. events = <<>> /\ toAdd = {} /\ ~TellsGone(events) /\ ~TellsGone(batch)
      BY <2>1, <2>3 DEF StageInv, TellsGone
    <3>2. dir = "here"
      BY <2>1, <2>3, <3>1 DEF NameInv
    <3>3. PICK a, b, c \in Bit : Leads(n, a, b, c)
      BY <2>1, <2>3 DEF NameInv
    <3>4. a = rows[n] /\ b = a /\ c = b /\ Present(n) = c
      BY <2>1, <3>1, <3>3, OrderlyNone, TellsNothing DEF Leads, Listed
    <3> QED BY <3>2, <3>4 DEF Present, Available
  <2> QED BY <2>2, <2>3
<1> QED BY <1>1, <1>2, NamesStep, ListInvariant, PTL DEF Spec

===============================================================================
