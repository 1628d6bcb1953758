--------------------------- MODULE LogTableProofs ---------------------------
(***************************************************************************)
(* Theorems about LogTable, for any number of threads, limit, requests,    *)
(* failures and restarts: when the counter tells the size of the table;    *)
(* and, for two threads, how large it gets.                                *)
(***************************************************************************)
EXTENDS LogTable, FiniteSetTheorems, TLAPS

Places == {"idle", "trim", "exchange", "insert", "increment"}

TableType  == rows \subseteq 1..log_seq /\ log_seq \in Nat /\ log_table_nrows \in Nat
ThreadType ==
    /\ pc \in [Threads -> Places]
    /\ seen \in [Threads -> Nat] /\ temp_nrows \in [Threads -> Nat]
PhaseType  == phase \in {"down", "renumber", "expire", "count", "up"}
HistoryType == inherited \in Nat /\ unknown \in Nat /\ overlapped \in BOOLEAN

\* Only a server that is up has threads at work; until it has counted, it knows of no row.
PhaseInv ==
    /\ phase # "up" => \A t \in Threads : pc[t] = "idle"
    /\ phase \in {"renumber", "expire", "count"} => log_table_nrows = 0 /\ unknown = 0

OverlapInv == ~overlapped => ~Overlap(pc)

Inserted == {t \in Threads : pc[t] = "increment"}

\* The counter lacks the rows that are inserted and not yet added to it, and a
\* thread that has trimmed the table knows what to replace it by.
CountInv ==
    phase = "up" /\ ~overlapped /\ unknown = 0 =>
        /\ \/ \E t \in Threads : pc[t] = "exchange"
           \/ Cardinality(rows) = log_table_nrows + Cardinality(Inserted)
        /\ \A t \in Threads :
              /\ pc[t] = "trim" => seen[t] = log_table_nrows /\ seen[t] > RowsLimit
              /\ pc[t] = "exchange" => /\ seen[t] = log_table_nrows
                                       /\ temp_nrows[t] = Cardinality(rows)

TypeInv == TableType /\ ThreadType /\ PhaseType /\ HistoryType

LEMMA TypeParts == TypeOK <=> TypeInv
BY DEF TypeOK, TypeInv, TableType, ThreadType, PhaseType, HistoryType, Places

(***************************************************************************)
(* Rows and their number.                                                  *)
(***************************************************************************)

LEMMA RowsFinite ==
    ASSUME TableType, NEW S \in SUBSET rows
    PROVE  IsFiniteSet(S) /\ Cardinality(S) \in Nat /\ Cardinality(S) <= Cardinality(rows)
<1>1. IsFiniteSet(1..log_seq)
  BY FS_Interval DEF TableType
<1>2. IsFiniteSet(rows)
  BY <1>1, FS_Subset DEF TableType
<1> QED BY <1>2, FS_Subset, FS_CardinalityType

LEMMA RenumberedType ==
    ASSUME NEW n \in Nat, Renumbered(n)
    PROVE  /\ rows' \subseteq 1..log_seq' /\ log_seq' \in Nat
           /\ Cardinality(rows') = n
BY FS_Interval DEF Renumbered

\* The rows that a trimming keeps.
Kept == {i \in rows : i > RowsLimit \div 2}

\* Of more rows than the limit one at least is kept.
LEMMA KeptNotEmpty ==
    ASSUME TableType, Cardinality(rows) > RowsLimit
    PROVE  Cardinality(Kept) >= 1
<1> DEFINE half == RowsLimit \div 2
<1>1. half \in Nat /\ half <= RowsLimit /\ RowsLimit \in Nat
  BY LogTableAssumption
<1>2. Cardinality(Kept) \in Nat /\ IsFiniteSet(Kept) /\ Kept \subseteq rows
  <2>1. Kept \subseteq rows
    BY DEF Kept
  <2> QED BY <2>1, RowsFinite
<1>3. ASSUME Kept = {} PROVE FALSE
  <2>1. rows \subseteq 1..half
    <3>1. \A i \in rows : i \in Nat \ {0} /\ ~(i > half)
      BY <1>3 DEF Kept, TableType
    <3> HIDE DEF half
    <3> QED BY <1>1, <3>1
  <2>2. IsFiniteSet(1..half) /\ Cardinality(1..half) = half
    <3> HIDE DEF half
    <3> QED BY <1>1, FS_Interval
  <2> HIDE DEF half
  <2>3. Cardinality(rows) <= half
    BY <2>1, <2>2, FS_Subset
  <2>4. Cardinality(rows) \in Nat
    BY RowsFinite
  <2> QED BY <1>1, <2>3, <2>4
<1> QED BY <1>2, <1>3, FS_EmptySet

LEMMA MaxOfTwo == ASSUME NEW a \in Nat, NEW b \in Nat
                  PROVE  Max({a, b}) = IF a >= b THEN a ELSE b
<1>1. \E x \in {a, b} : \A y \in {a, b} : x >= y
  OBVIOUS
<1> QED BY <1>1 DEF Max

(***************************************************************************)
(* Types, phases and overlaps.                                             *)
(***************************************************************************)

LEMMA InitInv == Init => TypeInv /\ PhaseInv /\ OverlapInv /\ CountInv
<1> SUFFICES ASSUME Init PROVE TypeInv /\ PhaseInv /\ OverlapInv /\ CountInv
  OBVIOUS
<1>1. TableType /\ PhaseType /\ HistoryType
  <2>1. log_seq \in Nat /\ rows = 1..log_seq /\ log_table_nrows = 0
    BY LogTableAssumption DEF Init
  <2>2. TableType
    BY <2>1 DEF TableType
  <2> QED BY <2>2 DEF Init, PhaseType, HistoryType
<1>2. ThreadType
  BY DEF Init, ThreadType, Places
<1>3. PhaseInv /\ OverlapInv /\ CountInv
  BY DEF Init, PhaseInv, OverlapInv, CountInv, Overlap
<1> QED BY <1>1, <1>2, <1>3 DEF TypeInv

LEMMA GotoStep ==
    ASSUME ThreadType, HistoryType, OverlapInv,
           NEW t \in Threads, NEW l \in Places, Goto(t, l)
    PROVE  /\ pc' \in [Threads -> Places] /\ overlapped' \in BOOLEAN /\ OverlapInv'
           /\ pc'[t] = l /\ \A u \in Threads \ {t} : pc'[u] = pc[u]
           /\ ~overlapped' => ~overlapped
<1>1. overlapped' = (overlapped \/ Overlap(pc'))
  BY DEF Goto
<1>2. Overlap(pc') \in BOOLEAN
  BY DEF Overlap
<1>3. overlapped' \in BOOLEAN
  BY <1>1, <1>2 DEF HistoryType
<1>4. OverlapInv' /\ (~overlapped' => ~overlapped)
  BY <1>1, <1>2 DEF OverlapInv, HistoryType
<1> QED BY <1>3, <1>4 DEF Goto, ThreadType

LEMMA StoppedStep ==
    ASSUME Stopped
    PROVE  ThreadType' /\ OverlapInv' /\ phase' = "down" /\ \A t \in Threads : pc'[t] = "idle"
BY DEF Stopped, ThreadType, Places, OverlapInv, Overlap

\* Where a thread goes.
LEMMA StepPlace ==
    ASSUME NEW t \in Threads
    PROVE  /\ LoadCounter(t) => pc[t] = "idle" /\ phase = "up" /\ \E l \in Places : Goto(t, l)
           /\ Trim(t) => pc[t] = "trim" /\ Goto(t, "exchange")
           /\ TrimFails(t) => pc[t] = "trim" /\ Stopped
           /\ CompareExchange(t) => pc[t] = "exchange" /\ Goto(t, "insert")
           /\ Insert(t) => pc[t] = "insert" /\ Goto(t, "increment")
           /\ InsertFails(t) => pc[t] = "insert" /\ Goto(t, "idle")
           /\ Increment(t) => pc[t] = "increment" /\ Goto(t, "idle")
BY DEF LoadCounter, Trim, TrimFails, CompareExchange, Insert, InsertFails, Increment, Places

LEMMA TableStep == TypeInv /\ [Next]_vars => TableType'
<1> SUFFICES ASSUME TypeInv, [Next]_vars PROVE TableType'
  OBVIOUS
<1>0. TableType /\ ThreadType
  BY DEF TypeInv
<1>1. ASSUME UNCHANGED <<rows, log_seq>> \/ \E n \in Nat : Renumbered(n),
             log_table_nrows' \in Nat
      PROVE  TableType'
  BY <1>0, <1>1, RenumberedType DEF TableType
<1>2. Cardinality(rows) \in Nat /\ Cardinality(Kept) \in Nat
  <2>1. Kept \subseteq rows
    BY DEF Kept
  <2> QED BY <1>0, <2>1, RowsFinite
<1>3. \A n \in 0..Cardinality(rows) : n \in Nat
  BY <1>2
<1>4. log_table_nrows \in Nat /\ log_table_nrows + 1 \in Nat /\ 0 \in Nat
  BY <1>0 DEF TableType
<1>5. CASE Start \/ UpdateIds \/ Expire \/ Count \/ Stop
  BY <1>1, <1>2, <1>3, <1>4, <1>5 DEF Start, UpdateIds, Expire, Count, Stop, tableVars
<1>6. ASSUME NEW t \in Threads, Trim(t) \/ TrimFails(t) PROVE TableType'
  BY <1>1, <1>2, <1>4, <1>6 DEF Trim, TrimFails, Trimmed, Kept, tableVars
<1>7. ASSUME NEW t \in Threads, LoadCounter(t) \/ CompareExchange(t) \/ Increment(t)
      PROVE  TableType'
  <2>1. temp_nrows[t] \in Nat
    BY <1>0 DEF ThreadType
  <2>2. UNCHANGED <<rows, log_seq>> /\ log_table_nrows' \in Nat
    BY <1>4, <1>7, <2>1 DEF LoadCounter, CompareExchange, Increment, tableVars
  <2> QED BY <1>1, <2>2
<1>8. ASSUME NEW t \in Threads, Insert(t) \/ InsertFails(t) PROVE TableType'
  <2>1. /\ log_table_nrows' = log_table_nrows
        /\ \/ UNCHANGED <<rows, log_seq>>
           \/ log_seq' = log_seq + 1 /\ (rows' = rows \/ rows' = rows \cup {log_seq + 1})
    BY <1>8 DEF Insert, InsertFails, tableVars
  <2>2. CASE log_seq' = log_seq + 1
    <3>1. /\ 1..log_seq \subseteq 1..(log_seq + 1)
          /\ log_seq + 1 \in 1..(log_seq + 1) /\ log_seq + 1 \in Nat
      BY <1>0 DEF TableType
    <3>2. rows' \subseteq rows \cup {log_seq + 1}
      BY <2>1
    <3>3. rows \subseteq 1..log_seq
      BY <1>0 DEF TableType
    <3>4. rows' \subseteq 1..(log_seq + 1)
      BY <3>1, <3>2, <3>3, Zenon
    <3> QED BY <1>4, <2>1, <2>2, <3>1, <3>4 DEF TableType
  <2>3. CASE UNCHANGED <<rows, log_seq>>
    BY <1>0, <2>1, <2>3 DEF TableType
  <2> QED BY <2>1, <2>2, <2>3
<1>9. CASE UNCHANGED vars
  BY <1>1, <1>4, <1>9 DEF vars, tableVars
<1> QED BY <1>5, <1>6, <1>7, <1>8, <1>9 DEF Next, Constructor, update_log_table

LEMMA ThreadStep ==
    TypeInv /\ PhaseInv /\ OverlapInv /\ [Next]_vars
        => ThreadType' /\ PhaseType' /\ HistoryType' /\ PhaseInv' /\ OverlapInv'
<1> SUFFICES ASSUME TypeInv, PhaseInv, OverlapInv, [Next]_vars
             PROVE  ThreadType' /\ PhaseType' /\ HistoryType' /\ PhaseInv' /\ OverlapInv'
  OBVIOUS
<1>0. TableType /\ ThreadType /\ PhaseType /\ HistoryType
  BY DEF TypeInv
<1>1. CASE Start \/ UpdateIds \/ Expire \/ Count
  <2>1. /\ UNCHANGED threadVars /\ phase # "up"
        /\ phase' \in {"renumber", "expire", "count", "up"}
    BY <1>1 DEF Start, UpdateIds, Expire, Count
  <2>2. ThreadType' /\ PhaseType' /\ \A t \in Threads : pc'[t] = "idle"
    BY <1>0, <2>1 DEF ThreadType, PhaseType, threadVars, PhaseInv
  <2>3. OverlapInv'
    BY <2>2 DEF OverlapInv, Overlap
  <2>4. HistoryType' /\ PhaseInv'
    <3>1. CASE Start
      BY <2>2, <3>1 DEF Start, HistoryType, PhaseInv
    <3>2. CASE UpdateIds \/ Expire
      BY <1>0, <2>2, <3>2 DEF UpdateIds, Expire, HistoryType, historyVars, PhaseInv
    <3>3. CASE Count
      <4>1. Cardinality(rows) \in Nat
        BY <1>0, RowsFinite
      <4> QED BY <1>0, <2>2, <3>3, <4>1 DEF Count, HistoryType, PhaseInv
    <3> QED BY <1>1, <3>1, <3>2, <3>3
  <2> QED BY <2>2, <2>3, <2>4
<1>2. ASSUME Stopped, UNCHANGED historyVars
      PROVE  ThreadType' /\ PhaseType' /\ HistoryType' /\ PhaseInv' /\ OverlapInv'
  BY <1>0, <1>2, StoppedStep DEF PhaseType, HistoryType, PhaseInv, historyVars
<1>3. CASE Stop
  BY <1>2, <1>3 DEF Stop
<1>4. ASSUME NEW t \in Threads, TrimFails(t)
      PROVE  ThreadType' /\ PhaseType' /\ HistoryType' /\ PhaseInv' /\ OverlapInv'
  BY <1>2, <1>4 DEF TrimFails
<1>5. ASSUME NEW t \in Threads,
             \/ LoadCounter(t) \/ Trim(t) \/ CompareExchange(t) \/ Insert(t)
             \/ InsertFails(t) \/ Increment(t)
      PROVE  ThreadType' /\ PhaseType' /\ HistoryType' /\ PhaseInv' /\ OverlapInv'
  <2>1. /\ \E l \in Places : Goto(t, l)
        /\ phase = "up"
    <3>1. "exchange" \in Places /\ "insert" \in Places /\ "increment" \in Places
          /\ "idle" \in Places
      BY DEF Places
    <3>2. \E l \in Places : Goto(t, l)
      BY <1>5, <3>1, StepPlace
    <3>3. phase = "up" \/ pc[t] # "idle"
      BY <1>5, StepPlace
    <3> QED BY <3>2, <3>3 DEF PhaseInv
  <2>2. pc' \in [Threads -> Places] /\ overlapped' \in BOOLEAN /\ OverlapInv'
    BY <1>0, <2>1, GotoStep
  <2>3. /\ phase' = phase /\ inherited' = inherited
        /\ unknown' = unknown \/ unknown' = unknown + 1
    BY <1>5 DEF LoadCounter, Trim, CompareExchange, Insert, InsertFails, Increment
  <2>4. /\ seen' = seen \/ seen' = [seen EXCEPT ![t] = log_table_nrows]
        /\ temp_nrows' = temp_nrows \/ temp_nrows' = [temp_nrows EXCEPT ![t] = Max({1, log_seq'})]
    BY <1>5 DEF LoadCounter, Trim, CompareExchange, Insert, InsertFails, Increment
  <2>5. Max({1, log_seq'}) \in Nat
    <3>1. log_seq' \in Nat
      BY TableStep DEF TableType
    <3> QED BY <3>1, MaxOfTwo
  <2>6. ThreadType'
    BY <1>0, <2>2, <2>4, <2>5 DEF ThreadType, TableType
  <2>7. PhaseType' /\ HistoryType' /\ PhaseInv'
    BY <1>0, <2>1, <2>2, <2>3 DEF PhaseType, HistoryType, PhaseInv
  <2> QED BY <2>2, <2>6, <2>7
<1>6. CASE UNCHANGED vars
  BY <1>0, <1>6
  DEF vars, threadVars, historyVars, ThreadType, PhaseType, HistoryType, PhaseInv, OverlapInv, Overlap
<1> QED BY <1>1, <1>3, <1>4, <1>5, <1>6 DEF Next, Constructor, update_log_table

(* The variables keep their types: the rows of the table have numbers that *)
(* the sequence gave away.                                                 *)
THEOREM TypeCorrect == Spec => []TypeOK
<1>1. TypeInv /\ PhaseInv /\ OverlapInv /\ [Next]_vars => (TypeInv /\ PhaseInv /\ OverlapInv)'
  BY TableStep, ThreadStep DEF TypeInv
<1>2. TypeInv => TypeOK
  BY TypeParts
<1> QED BY <1>1, <1>2, InitInv, PTL DEF Spec

(***************************************************************************)
(* The counter.                                                            *)
(***************************************************************************)

LEMMA InsertedFinite ==
    /\ IsFiniteSet(Inserted) /\ Cardinality(Inserted) \in Nat
    /\ (\A t \in Threads : pc[t] # "increment") => Cardinality(Inserted) = 0
<1>1. Inserted \subseteq Threads
  BY DEF Inserted
<1>2. (\A t \in Threads : pc[t] # "increment") => Inserted = {}
  BY DEF Inserted
<1> QED BY <1>1, <1>2, LogTableAssumption, FS_Subset, FS_CardinalityType, FS_EmptySet

LEMMA CountStep ==
    TypeInv /\ PhaseInv /\ OverlapInv /\ CountInv /\ [Next]_vars => CountInv'
<1> SUFFICES ASSUME TypeInv, PhaseInv, OverlapInv, CountInv, [Next]_vars,
                    phase' = "up", ~overlapped', unknown' = 0
             PROVE  /\ \/ \E t \in Threads : pc'[t] = "exchange"
                       \/ Cardinality(rows') = log_table_nrows' + Cardinality(Inserted')
                    /\ \A t \in Threads :
                          /\ pc'[t] = "trim" => seen'[t] = log_table_nrows' /\ seen'[t] > RowsLimit
                          /\ pc'[t] = "exchange" => /\ seen'[t] = log_table_nrows'
                                                    /\ temp_nrows'[t] = Cardinality(rows')
  BY DEF CountInv
<1> DEFINE Goal == /\ \/ \E t \in Threads : pc'[t] = "exchange"
                      \/ Cardinality(rows') = log_table_nrows' + Cardinality(Inserted')
                   /\ \A t \in Threads :
                         /\ pc'[t] = "trim" => seen'[t] = log_table_nrows' /\ seen'[t] > RowsLimit
                         /\ pc'[t] = "exchange" => /\ seen'[t] = log_table_nrows'
                                                   /\ temp_nrows'[t] = Cardinality(rows')
<1>0. TableType /\ ThreadType /\ PhaseType /\ HistoryType
  BY DEF TypeInv
<1>1. /\ Cardinality(rows) \in Nat /\ log_table_nrows \in Nat
      /\ IsFiniteSet(Inserted) /\ Cardinality(Inserted) \in Nat
  BY <1>0, RowsFinite, InsertedFinite DEF TableType
<1>2. CASE Start \/ UpdateIds \/ Expire \/ Stop
  BY <1>2 DEF Start, UpdateIds, Expire, Stop, Stopped
<1>3. ASSUME NEW t \in Threads, TrimFails(t) PROVE FALSE
  BY <1>3 DEF TrimFails, Stopped
<1>4. CASE Count
  <2>1. /\ \A t \in Threads : pc'[t] = "idle"
        /\ log_table_nrows = 0 /\ rows' = rows
        /\ log_table_nrows' = Cardinality(rows) \/ (Cardinality(rows) = 0 /\ log_table_nrows' = 0)
    BY <1>4 DEF Count, PhaseInv, tableVars, threadVars
  <2>2. Inserted' = {}
    BY <2>1 DEF Inserted
  <2>3. Cardinality(Inserted') = 0
    BY <2>2, FS_EmptySet
  <2> QED BY <1>1, <2>1, <2>3
\* A step of a thread in a server that is up, from a state without an overlap.
<1>5. ASSUME NEW t \in Threads, update_log_table(t), ~TrimFails(t)
      PROVE  /\ phase = "up" /\ ~overlapped /\ unknown = 0 /\ \E l \in Places : Goto(t, l)
             /\ \A u \in Threads \ {t} : pc'[u] = pc[u]
             /\ pc[t] # "idle" => \A u \in Threads \ {t} : pc[u] \notin {"trim", "exchange"}
             /\ pc'[t] # "idle" => \A u \in Threads \ {t} : pc'[u] \notin {"trim", "exchange"}
             /\ pc[t] \in {"trim", "exchange"} => \A u \in Threads \ {t} : pc[u] = "idle"
  <2>1. \E l \in Places : Goto(t, l)
    <3>1. "exchange" \in Places /\ "insert" \in Places /\ "increment" \in Places
          /\ "idle" \in Places
      BY DEF Places
    <3> QED BY <1>5, <3>1, StepPlace DEF update_log_table
  <2>2. /\ ~overlapped /\ ~Overlap(pc) /\ ~Overlap(pc')
        /\ \A u \in Threads \ {t} : pc'[u] = pc[u]
    BY <1>0, <2>1, GotoStep DEF OverlapInv
  <2>3. phase = "up" /\ unknown = 0
    BY <1>0, <1>5 DEF update_log_table, LoadCounter, Trim, CompareExchange, Insert, InsertFails,
                     Increment, HistoryType
  <2> QED BY <2>1, <2>2, <2>3 DEF Overlap
<1>6. ASSUME NEW t \in Threads, LoadCounter(t) PROVE Goal
  <2>1. /\ pc[t] = "idle" /\ rows' = rows /\ log_table_nrows' = log_table_nrows
        /\ temp_nrows' = temp_nrows
        /\ \/ /\ log_table_nrows > RowsLimit /\ Goto(t, "trim")
              /\ seen' = [seen EXCEPT ![t] = log_table_nrows]
           \/ Goto(t, "insert") /\ seen' = seen
    BY <1>6 DEF LoadCounter, tableVars
  <2>2. pc'[t] \in {"trim", "insert"} /\ \A u \in Threads \ {t} : pc'[u] = pc[u]
    BY <1>0, <2>1 DEF Goto, ThreadType
  <2>3. \A u \in Threads \ {t} : pc'[u] \notin {"trim", "exchange"}
    BY <1>5, <1>6, <2>2, StepPlace DEF update_log_table, TrimFails, LoadCounter
  <2>4. Inserted' = Inserted
    BY <2>1, <2>2 DEF Inserted
  <2>5. \A u \in Threads : pc[u] # "exchange"
    BY <2>1, <2>2, <2>3
  <2>6. phase = "up" /\ ~overlapped /\ unknown = 0
    BY <1>5, <1>6, <2>1 DEF update_log_table, TrimFails
  <2>7. Cardinality(rows') = log_table_nrows' + Cardinality(Inserted')
    BY <2>1, <2>4, <2>5, <2>6 DEF CountInv
  <2>8. pc'[t] = "trim" => seen'[t] = log_table_nrows' /\ seen'[t] > RowsLimit
    BY <1>0, <2>1 DEF Goto, ThreadType
  <2> QED BY <2>2, <2>3, <2>7, <2>8
<1>7. ASSUME NEW t \in Threads, Trim(t) PROVE Goal
  <2>1. /\ pc[t] = "trim" /\ Goto(t, "exchange") /\ log_table_nrows' = log_table_nrows
        /\ seen' = seen /\ Renumbered(Cardinality(Kept))
        /\ temp_nrows' = [temp_nrows EXCEPT ![t] = Max({1, log_seq'})]
    BY <1>7 DEF Trim, Trimmed, Kept
  <2>2. /\ phase = "up" /\ ~overlapped /\ unknown = 0
        /\ \A u \in Threads \ {t} : pc[u] = "idle" /\ pc'[u] = "idle"
    BY <1>5, <1>7, <2>1 DEF update_log_table, TrimFails, Stopped
  <2>3. pc'[t] = "exchange"
    BY <1>0, <2>1 DEF Goto, ThreadType
  <2>4. Cardinality(Inserted) = 0
    BY <2>1, <2>2, InsertedFinite
  <2>5. seen[t] = log_table_nrows /\ Cardinality(rows) = log_table_nrows /\ seen[t] > RowsLimit
    BY <1>1, <2>1, <2>2, <2>4 DEF CountInv
  <2>6. Cardinality(Kept) >= 1 /\ Cardinality(Kept) \in Nat
    <3>1. Kept \subseteq rows
      BY DEF Kept
    <3> QED BY <1>0, <2>5, <3>1, KeptNotEmpty, RowsFinite
  <2>7. Cardinality(rows') = Cardinality(Kept) /\ log_seq' = Cardinality(Kept)
    BY <2>1, <2>6, RenumberedType DEF Renumbered
  <2>8. temp_nrows'[t] = Cardinality(rows')
    <3>1. Max({1, log_seq'}) = log_seq'
      BY <2>6, <2>7, MaxOfTwo
    <3> QED BY <1>0, <2>1, <2>7, <3>1 DEF ThreadType
  <2> QED BY <2>1, <2>2, <2>3, <2>5, <2>8
<1>8. ASSUME NEW t \in Threads, CompareExchange(t) PROVE Goal
  <2>1. /\ pc[t] = "exchange" /\ Goto(t, "insert") /\ rows' = rows
        /\ log_table_nrows' = IF log_table_nrows = seen[t] THEN temp_nrows[t] ELSE log_table_nrows
    BY <1>8 DEF CompareExchange, tableVars
  <2>2. /\ phase = "up" /\ ~overlapped /\ unknown = 0
        /\ \A u \in Threads \ {t} : pc[u] = "idle" /\ pc'[u] = "idle"
    BY <1>5, <1>8, <2>1 DEF update_log_table, TrimFails
  <2>3. pc'[t] = "insert"
    BY <1>0, <2>1 DEF Goto, ThreadType
  <2>4. log_table_nrows' = Cardinality(rows)
    BY <2>1, <2>2 DEF CountInv
  <2>5. Inserted' = {}
    BY <2>2, <2>3 DEF Inserted
  <2>6. Cardinality(Inserted') = 0
    BY <2>5, FS_EmptySet
  <2> QED BY <1>1, <2>1, <2>2, <2>3, <2>4, <2>6
\* A thread that inserts or counts is not in the way of a trimming.
<1>9. ASSUME NEW t \in Threads, pc[t] \in {"insert", "increment"}, update_log_table(t)
      PROVE  /\ Cardinality(rows) = log_table_nrows + Cardinality(Inserted)
             /\ \A u \in Threads \ {t} : pc'[u] = pc[u] /\ pc'[u] \notin {"trim", "exchange"}
  <2>1. ~TrimFails(t)
    BY <1>9 DEF TrimFails
  <2>2. \A u \in Threads : pc[u] # "exchange"
    BY <1>5, <1>9, <2>1
  <2> QED BY <1>5, <1>9, <2>1, <2>2 DEF CountInv
<1>10. ASSUME NEW t \in Threads, Insert(t) PROVE Goal
  <2>1. /\ pc[t] = "insert" /\ Goto(t, "increment") /\ log_table_nrows' = log_table_nrows
        /\ rows' = rows \cup {log_seq + 1}
    BY <1>10 DEF Insert
  <2>2. /\ Cardinality(rows) = log_table_nrows + Cardinality(Inserted)
        /\ \A u \in Threads \ {t} : pc'[u] = pc[u] /\ pc'[u] \notin {"trim", "exchange"}
    BY <1>9, <1>10, <2>1 DEF update_log_table
  <2>3. pc'[t] = "increment"
    BY <1>0, <2>1 DEF Goto, ThreadType
  <2>4. Cardinality(rows') = Cardinality(rows) + 1
    <3>1. IsFiniteSet(rows) /\ log_seq + 1 \notin rows
      BY <1>0, RowsFinite DEF TableType
    <3> QED BY <2>1, <3>1, FS_AddElement
  <2>5. Inserted' = Inserted \cup {t} /\ t \notin Inserted
    BY <2>1, <2>2, <2>3 DEF Inserted
  <2>6. Cardinality(Inserted') = Cardinality(Inserted) + 1
    BY <1>1, <2>5, FS_AddElement
  <2> QED BY <1>1, <2>1, <2>2, <2>3, <2>4, <2>6
<1>11. ASSUME NEW t \in Threads, InsertFails(t) PROVE Goal
  <2>1. /\ pc[t] = "insert" /\ Goto(t, "idle") /\ log_table_nrows' = log_table_nrows
        /\ rows' = rows \/ unknown' = unknown + 1
    BY <1>11 DEF InsertFails, tableVars
  <2>2. /\ Cardinality(rows) = log_table_nrows + Cardinality(Inserted)
        /\ \A u \in Threads \ {t} : pc'[u] = pc[u] /\ pc'[u] \notin {"trim", "exchange"}
    BY <1>9, <1>11, <2>1 DEF update_log_table
  <2>3. pc'[t] = "idle"
    BY <1>0, <2>1 DEF Goto, ThreadType
  <2>4. rows' = rows
    BY <1>0, <2>1 DEF HistoryType
  <2>5. Inserted' = Inserted
    BY <2>1, <2>2, <2>3 DEF Inserted
  <2> QED BY <2>1, <2>2, <2>3, <2>4, <2>5
<1>12. ASSUME NEW t \in Threads, Increment(t) PROVE Goal
  <2>1. /\ pc[t] = "increment" /\ Goto(t, "idle") /\ log_table_nrows' = log_table_nrows + 1
        /\ rows' = rows
    BY <1>12 DEF Increment, tableVars
  <2>2. /\ Cardinality(rows) = log_table_nrows + Cardinality(Inserted)
        /\ \A u \in Threads \ {t} : pc'[u] = pc[u] /\ pc'[u] \notin {"trim", "exchange"}
    BY <1>9, <1>12, <2>1 DEF update_log_table
  <2>3. pc'[t] = "idle"
    BY <1>0, <2>1 DEF Goto, ThreadType
  <2>4. Inserted' = Inserted \ {t} /\ t \in Inserted
    BY <2>1, <2>2, <2>3 DEF Inserted
  <2>5. Cardinality(Inserted') = Cardinality(Inserted) - 1
    BY <1>1, <2>4, FS_RemoveElement
  <2> QED BY <1>1, <2>1, <2>2, <2>3, <2>5
<1>13. CASE UNCHANGED vars
  BY <1>13 DEF vars, tableVars, threadVars, historyVars, CountInv, Inserted
<1> QED BY <1>2, <1>3, <1>4, <1>6, <1>7, <1>8, <1>10, <1>11, <1>12, <1>13
        DEF Next, Constructor, update_log_table

(* Between requests the counter of the handler is the number of rows of    *)
(* log_table, unless a trimming met another thread or a command failed     *)
(* that the counter depends on (update_log_table, handler.cpp:139-165).    *)
THEOREM CounterExact == Spec => []CounterExactUnlessOverlapped
<1>1. TypeInv /\ CountInv => CounterExactUnlessOverlapped
  <2> SUFFICES ASSUME TypeInv, CountInv, phase = "up", ~overlapped, unknown = 0,
                      \A t \in Threads : pc[t] = "idle"
               PROVE  log_table_nrows = Cardinality(rows)
    BY DEF CounterExactUnlessOverlapped
  <2>1. Cardinality(Inserted) = 0
    BY InsertedFinite
  <2>2. log_table_nrows \in Nat /\ Cardinality(rows) \in Nat
    BY RowsFinite DEF TypeInv, TableType
  <2> QED BY <2>1, <2>2 DEF CountInv
<1>2. TypeInv /\ PhaseInv /\ OverlapInv /\ CountInv /\ [Next]_vars
        => (TypeInv /\ PhaseInv /\ OverlapInv /\ CountInv)'
  BY TableStep, ThreadStep, CountStep DEF TypeInv
<1> QED BY <1>1, <1>2, InitInv, PTL DEF Spec

(***************************************************************************)
(* The size of the table when two threads serve.  In terms of numbers: the *)
(* table holds k rows that the counter c should know of, f says whether    *)
(* the row of number 1 is among them, the threads are at p and q, and v    *)
(* and w are the numbers of rows their trimmings left.                     *)
(***************************************************************************)

\* A row that is inserted, and not yet added to the counter.
Uncounted(p) == IF p = "increment" THEN 1 ELSE 0

\* A row that is inserted without another look at the counter.
Coming(p) == IF p \in {"exchange", "insert"} THEN 1 ELSE 0

\* The thread at p has trimmed the table to v rows and may be stalled: whatever the
\* other does meanwhile, the counter may become v, and must not be too small then.
Stalled(k, f, c, p, q, v, w) ==
    p = "exchange" =>
        /\ v >= 1
        /\ k + Coming(q) <= v + RowsLimit - 1 + f
        /\ k - Uncounted(q) <= v + c - 2 + f
        /\ q = "exchange" => k <= v + w - 2 + f

\* The counter lags behind by less than the limit, or by the limit if the next
\* trimming takes a row at least; and so the table exceeds m by two rows at most.
Sized(k, f, c, m, p, q, v, w) ==
    /\ k - Uncounted(p) - Uncounted(q) <= c + RowsLimit - 1 + f
    /\ k + Coming(p) + Coming(q) <= m + 1 + f
    /\ Stalled(k, f, c, p, q, v, w)
    /\ Stalled(k, f, c, q, p, w, v)
    /\ p \in {"trim", "exchange"} \/ q \in {"trim", "exchange"} => c >= 1

LEMMA SizedAlike ==
    ASSUME NEW k \in Int, NEW f \in {0, 1}, NEW c \in Nat, NEW m \in Nat, RowsLimit \in Nat,
           NEW p \in Places, NEW q \in Places, NEW v \in Nat, NEW w \in Nat,
           Sized(k, f, c, m, p, q, v, w)
    PROVE  Sized(k, f, c, m, q, p, w, v)
BY DEF Sized, Uncounted, Coming

LEMMA LoadSized ==
    ASSUME NEW k \in Int, NEW f \in {0, 1}, NEW c \in Nat, NEW m \in Nat, RowsLimit \in Nat,
           NEW q \in Places, NEW v \in Nat, NEW w \in Nat,
           m >= 2 * RowsLimit, Sized(k, f, c, m, "idle", q, v, w)
    PROVE  /\ c > RowsLimit => Sized(k, f, c, m, "trim", q, v, w)
           /\ ~(c > RowsLimit) => Sized(k, f, c, m, "insert", q, v, w)
BY DEF Sized, Stalled, Uncounted, Coming, Places

LEMMA ExchangeSized ==
    ASSUME NEW k \in Int, NEW f \in {0, 1}, NEW c \in Nat, NEW m \in Nat, RowsLimit \in Nat,
           NEW q \in Places, NEW v \in Nat, NEW w \in Nat, Sized(k, f, c, m, "exchange", q, v, w)
    PROVE  /\ Sized(k, f, c, m, "insert", q, v, w)
           /\ Sized(k, f, v, m, "insert", q, v, w)
BY DEF Sized, Stalled, Uncounted, Coming, Places

LEMMA IncrementSized ==
    ASSUME NEW k \in Int, NEW f \in {0, 1}, NEW c \in Nat, NEW m \in Nat, RowsLimit \in Nat,
           NEW q \in Places, NEW v \in Nat, NEW w \in Nat, Sized(k, f, c, m, "increment", q, v, w),
           NEW d \in Nat, d = c + 1
    PROVE  Sized(k, f, d, m, "idle", q, v, w)
BY DEF Sized, Stalled, Uncounted, Coming, Places

\* The numbers of a state: rows the counter should know of, the row of number 1, and
\* what the table was to hold.
Known == Cardinality(rows) - unknown
First == IF 1 \in rows THEN 1 ELSE 0
Most  == Max({2 * RowsLimit, inherited})

SizeInv ==
    phase = "up" =>
        \A t, u \in Threads :
            t # u => Sized(Known, First, log_table_nrows, Most,
                           pc[t], pc[u], temp_nrows[t], temp_nrows[u])

NumberType ==
    /\ Known \in Int /\ First \in {0, 1} /\ log_table_nrows \in Nat
    /\ RowsLimit \in Nat /\ unknown \in Nat
    /\ Most \in Nat /\ Most >= 2 * RowsLimit /\ Most >= inherited
    /\ Cardinality(rows) \in Nat /\ Known = Cardinality(rows) - unknown
    /\ \A t \in Threads : pc[t] \in Places /\ temp_nrows[t] \in Nat

LEMMA NumberTypes == TypeInv => NumberType
<1> SUFFICES ASSUME TypeInv PROVE NumberType
  OBVIOUS
<1>1. /\ TableType /\ ThreadType /\ RowsLimit \in Nat
      /\ unknown \in Nat /\ inherited \in Nat
  BY LogTableAssumption DEF TypeInv, HistoryType
<1>2. Cardinality(rows) \in Nat /\ log_table_nrows \in Nat
  BY <1>1, RowsFinite DEF TableType
<1>3. Most \in Nat /\ Most >= 2 * RowsLimit /\ Most >= inherited
  <2>1. 2 * RowsLimit \in Nat
    BY <1>1
  <2>2. Most = IF 2 * RowsLimit >= inherited THEN 2 * RowsLimit ELSE inherited
    BY <1>1, <2>1, MaxOfTwo DEF Most
  <2> HIDE DEF Most
  <2> QED BY <1>1, <2>1, <2>2
<1>4. Known \in Int /\ First \in {0, 1}
  BY <1>1, <1>2 DEF Known, First
<1>5. \A t \in Threads : pc[t] \in Places /\ temp_nrows[t] \in Nat
  BY <1>1 DEF ThreadType
<1> QED BY <1>1, <1>2, <1>3, <1>4, <1>5 DEF NumberType, Known

\* A trimming takes the row of number 1 at least, if it is there, and numbers the others.
LEMMA TrimRows ==
    ASSUME TypeInv, RowsLimit >= 2, Trimmed
    PROVE  \E n \in Nat :
              /\ Cardinality(rows') = n /\ log_seq' = n /\ n <= Cardinality(rows) - First
              /\ n = 0 => 1 \notin rows'
              /\ n >= 1 => 1 \in rows'
<1> DEFINE n == Cardinality(Kept)
<1>1. TableType /\ Cardinality(rows) \in Nat
  BY NumberTypes DEF NumberType, TypeInv
<1>2. Kept \subseteq rows /\ n \in Nat /\ n <= Cardinality(rows)
  <2>1. Kept \subseteq rows
    BY DEF Kept
  <2> QED BY <1>1, <2>1, RowsFinite
<1>3. 1 \in rows => n <= Cardinality(rows) - 1
  <2> SUFFICES ASSUME 1 \in rows PROVE n <= Cardinality(rows) - 1
    OBVIOUS
  <2>1. RowsLimit \div 2 >= 1 /\ RowsLimit \div 2 \in Nat
    BY LogTableAssumption
  <2>2. Kept \subseteq rows \ {1}
    <3>1. ~(1 > RowsLimit \div 2)
      BY <2>1
    <3> QED BY <3>1 DEF Kept
  <2>3. IsFiniteSet(rows)
    BY <1>1, RowsFinite
  <2>4. IsFiniteSet(rows \ {1}) /\ Cardinality(rows \ {1}) = Cardinality(rows) - 1
    BY <2>3, FS_RemoveElement
  <2> QED BY <2>2, <2>4, FS_Subset
<1>4. rows' = 1..n /\ log_seq' = n /\ Cardinality(rows') = n
  <2>1. Renumbered(n)
    BY DEF Trimmed, Kept
  <2> QED BY <1>2, <2>1, RenumberedType DEF Renumbered
<1> HIDE DEF n
<1>5. (n = 0 => 1 \notin rows') /\ (n >= 1 => 1 \in rows')
  BY <1>2, <1>4
<1>6. n <= Cardinality(rows) - First
  BY <1>1, <1>2, <1>3 DEF First
<1> QED BY <1>2, <1>4, <1>5, <1>6

\* A step of a thread, as it sees the numbers beside any other thread.
LEMMA ThreadSized ==
    ASSUME TypeInv, TypeInv', RowsLimit >= 2, phase = "up",
           NEW t \in Threads, update_log_table(t), ~TrimFails(t),
           NEW u \in Threads, u # t,
           Sized(Known, First, log_table_nrows, Most, pc[t], pc[u], temp_nrows[t], temp_nrows[u])
    PROVE  Sized(Known', First', log_table_nrows', Most', pc'[t], pc'[u],
                 temp_nrows'[t], temp_nrows'[u])
<1> DEFINE k == Known
           f == First
           c == log_table_nrows
           m == Most
           q == pc[u]
           v == temp_nrows[t]
           w == temp_nrows[u]
<1>1. /\ k \in Int /\ f \in {0, 1} /\ c \in Nat /\ m \in Nat /\ m >= 2 * RowsLimit
      /\ RowsLimit \in Nat /\ unknown \in Nat
      /\ k = Cardinality(rows) - unknown /\ Cardinality(rows) \in Nat
      /\ pc[t] \in Places /\ q \in Places /\ v \in Nat /\ w \in Nat
  BY NumberTypes DEF NumberType
<1>2. Sized(k, f, c, m, pc[t], q, v, w)
  OBVIOUS
<1>3. inherited' = inherited /\ Most' = m
  BY DEF update_log_table, LoadCounter, Trim, TrimFails, CompareExchange, Insert, InsertFails,
         Increment, Most
<1>4. ASSUME NEW l, Goto(t, l) PROVE pc'[t] = l /\ pc'[u] = q
  BY <1>4 DEF Goto, TypeInv, ThreadType
<1>5. First' = IF 1 \in rows' THEN 1 ELSE 0
  BY DEF First
<1>6. Known' = Cardinality(rows') - unknown'
  BY DEF Known
<1>7. rows' = rows /\ unknown' = unknown => Known' = k /\ First' = f
  BY DEF Known, First
<1>8. ThreadType
  BY DEF TypeInv
<1> HIDE DEF k, f, c, m, q, v, w
<1>9. CASE LoadCounter(t)
  <2>1. /\ pc[t] = "idle" /\ rows' = rows /\ unknown' = unknown
        /\ log_table_nrows' = c /\ temp_nrows' = temp_nrows
        /\ \/ c > RowsLimit /\ Goto(t, "trim")
           \/ ~(c > RowsLimit) /\ Goto(t, "insert")
    BY <1>9 DEF LoadCounter, tableVars, c
  <2>2. Sized(k, f, c, m, "idle", q, v, w)
    BY <1>2, <2>1
  <2>3. /\ c > RowsLimit => Sized(k, f, c, m, "trim", q, v, w)
        /\ ~(c > RowsLimit) => Sized(k, f, c, m, "insert", q, v, w)
    BY <1>1, <2>2, LoadSized
  <2>4. Sized(k, f, c, m, pc'[t], pc'[u], v, w)
    BY <1>4, <2>1, <2>3
  <2> QED BY <1>3, <1>7, <2>1, <2>4 DEF v, w
<1>10. CASE Trim(t)
  <2>1. /\ pc[t] = "trim" /\ Trimmed /\ Goto(t, "exchange")
        /\ log_table_nrows' = c /\ unknown' = unknown
        /\ temp_nrows' = [temp_nrows EXCEPT ![t] = Max({1, log_seq'})]
    BY <1>10 DEF Trim, c
  <2>2. PICK n \in Nat :
           /\ Cardinality(rows') = n /\ log_seq' = n /\ n <= Cardinality(rows) - First
           /\ n = 0 => 1 \notin rows'
           /\ n >= 1 => 1 \in rows'
    BY <2>1, TrimRows
  <2>3. PICK x \in Nat : x = Max({1, log_seq'}) /\ x = IF 1 >= n THEN 1 ELSE n
    BY <2>2, MaxOfTwo
  <2>4. temp_nrows'[t] = x /\ temp_nrows'[u] = w
    BY <1>8, <2>1, <2>3 DEF ThreadType, w
  <2>5. PICK g \in {0, 1} : g = First' /\ (n = 0 => g = 0) /\ (n >= 1 => g = 1)
    BY <1>5, <2>2
  <2>6. PICK j \in Int : j = n - unknown /\ j <= k - f
    <3>1. n - unknown \in Int /\ n - unknown <= k - f
      BY <1>1, <2>2 DEF f
    <3> QED BY <3>1
  <2>7. x \in Nat /\ ((g = 0 /\ x = 1 /\ j <= 0) \/ (g = 1 /\ x >= 1 /\ j <= x))
    BY <1>1, <2>2, <2>3, <2>5, <2>6
  <2>8. Sized(k, f, c, m, "trim", q, v, w)
    BY <1>2, <2>1
  <2>9. Known' = j
    BY <1>6, <2>1, <2>2, <2>6
  <2>10. Sized(j, g, c, m, "exchange", q, x, w)
    <3>1. c >= 1 /\ k - Uncounted(q) <= c + RowsLimit - 1 + f /\ k + Coming(q) <= m + 1 + f
      BY <1>1, <2>8 DEF Sized, Uncounted, Coming, Places
    <3>2. Uncounted(q) \in {0, 1} /\ Coming(q) \in {0, 1} /\ (q = "exchange" => Coming(q) = 1 /\ Uncounted(q) = 0)
          /\ Uncounted("exchange") = 0 /\ Coming("exchange") = 1
      BY DEF Uncounted, Coming
    <3>3. q = "exchange" => w >= 1 /\ k <= w + RowsLimit - 1 + f /\ k <= w + c - 2 + f
      BY <1>1, <2>8 DEF Sized, Stalled, Uncounted, Coming, Places
    <3>4. Uncounted(q) \in Int /\ Coming(q) \in Int /\ Coming(q) <= 1 /\ Uncounted(q) >= 0
      BY <3>2
    <3>5. g \in Int /\ f \in Int /\ f >= 0
      BY <1>1
    <3>6. Stalled(j, g, c, "exchange", q, x, w)
      <4>1. x >= 1 /\ j + Coming(q) <= x + RowsLimit - 1 + g
        BY ONLY <1>1, <2>6, <2>7, <3>4, <3>5, RowsLimit >= 2
      <4>2. j - Uncounted(q) <= x + c - 2 + g
        BY ONLY <1>1, <2>6, <2>7, <3>1, <3>4, <3>5
      <4>3. q = "exchange" => j <= x + w - 2 + g
        BY <1>1, <2>6, <2>7, <3>3, <3>5
      <4> QED BY <4>1, <4>2, <4>3 DEF Stalled
    <3>7. Stalled(j, g, c, q, "exchange", w, x)
      <4> SUFFICES ASSUME q = "exchange"
                   PROVE  /\ w >= 1
                          /\ j + Coming("exchange") <= w + RowsLimit - 1 + g
                          /\ j - Uncounted("exchange") <= w + c - 2 + g
                          /\ j <= w + x - 2 + g
        BY DEF Stalled
      <4>1. w >= 1 /\ k <= w + RowsLimit - 1 + f /\ k <= w + c - 2 + f
        BY <3>3
      <4>2. j + 1 <= w + RowsLimit - 1 + g
        BY ONLY <1>1, <2>6, <2>7, <3>5, <4>1, RowsLimit >= 2
      <4>3. j - 0 <= w + c - 2 + g
        BY ONLY <1>1, <2>6, <2>7, <3>5, <4>1
      <4>4. j <= w + x - 2 + g
        BY ONLY <1>1, <2>6, <2>7, <3>5, <4>1
      <4> QED BY <3>2, <4>1, <4>2, <4>3, <4>4
    <3>8. j - Uncounted("exchange") - Uncounted(q) <= c + RowsLimit - 1 + g
      BY <1>1, <2>5, <2>6, <2>7, <3>1, <3>2, <3>3
    <3>9. j + Coming("exchange") + Coming(q) <= m + 1 + g
      BY <1>1, <2>5, <2>6, <2>7, <3>1, <3>2, <3>3
    <3> QED BY <3>1, <3>6, <3>7, <3>8, <3>9 DEF Sized
  <2> QED BY <1>3, <1>4, <2>1, <2>4, <2>5, <2>9, <2>10
<1>11. CASE CompareExchange(t)
  <2>1. /\ pc[t] = "exchange" /\ Goto(t, "insert") /\ rows' = rows /\ unknown' = unknown
        /\ log_table_nrows' = c \/ log_table_nrows' = v
        /\ temp_nrows' = temp_nrows
    BY <1>11 DEF CompareExchange, tableVars, c, v
  <2>2. Sized(k, f, c, m, "exchange", q, v, w)
    BY <1>2, <2>1
  <2>3. Sized(k, f, c, m, "insert", q, v, w) /\ Sized(k, f, v, m, "insert", q, v, w)
    BY <1>1, <2>2, ExchangeSized
  <2>4. Sized(k, f, log_table_nrows', m, "insert", q, v, w)
    BY <2>1, <2>3, Zenon
  <2> QED BY <1>3, <1>4, <1>7, <2>1, <2>4 DEF v, w
<1>12. ASSUME rows' = rows \/ rows' = rows \cup {log_seq + 1}
       PROVE  /\ First' \in {0, 1} /\ First' >= f
              /\ rows' # rows => Cardinality(rows') = Cardinality(rows) + 1
  <2>1. First' \in {0, 1} /\ First' >= f
    BY <1>12 DEF First, f
  <2>2. ASSUME rows' = rows \cup {log_seq + 1} PROVE Cardinality(rows') = Cardinality(rows) + 1
    <3>1. IsFiniteSet(rows) /\ log_seq + 1 \notin rows
      BY RowsFinite DEF TypeInv, TableType
    <3> QED BY <2>2, <3>1, FS_AddElement
  <2> QED BY <1>12, <2>1, <2>2
<1>13. CASE Insert(t)
  <2>1. /\ pc[t] = "insert" /\ Goto(t, "increment") /\ rows' = rows \cup {log_seq + 1}
        /\ log_table_nrows' = c /\ unknown' = unknown /\ temp_nrows' = temp_nrows
    BY <1>13 DEF Insert, c
  <2>2. rows' # rows
    BY <2>1 DEF TypeInv, TableType
  <2>3. PICK g \in {0, 1}, j \in Int : g = First' /\ g >= f /\ j = Known' /\ j = k + 1
    <3>1. First' \in {0, 1} /\ First' >= f
      BY <1>12, <2>1
    <3>2. Known' = k + 1 /\ k + 1 \in Int
      BY <1>1, <1>6, <1>12, <2>1, <2>2
    <3> QED BY <3>1, <3>2
  <2>4. Sized(k, f, c, m, "insert", q, v, w)
    BY <1>2, <2>1
  <2>6. Sized(j, g, c, m, "increment", q, v, w)
    BY <1>1, <2>3, <2>4 DEF Sized, Stalled, Uncounted, Coming, Places
  <2> QED BY <1>3, <1>4, <2>1, <2>3, <2>6 DEF v, w
<1>14. CASE InsertFails(t)
  <2>1. /\ pc[t] = "insert" /\ Goto(t, "idle")
        /\ \/ rows' = rows /\ unknown' = unknown
           \/ rows' = rows \cup {log_seq + 1} /\ unknown' = unknown + 1
        /\ log_table_nrows' = c /\ temp_nrows' = temp_nrows
    BY <1>14 DEF InsertFails, tableVars, c
  <2>2. log_seq + 1 \notin rows
    BY DEF TypeInv, TableType
  <2>3. /\ First' \in {0, 1} /\ First' >= f
        /\ rows' # rows => Cardinality(rows') = Cardinality(rows) + 1
    BY <1>12, <2>1
  <2>4. Known' = k
    BY <1>1, <1>6, <2>1, <2>2, <2>3
  <2>5. Sized(k, f, c, m, "insert", q, v, w)
    BY <1>2, <2>1
  <2>6. PICK g \in {0, 1} : g = First' /\ g >= f
    BY <2>3
  <2>7. Sized(k, g, c, m, "idle", q, v, w)
    BY <1>1, <2>5, <2>6 DEF Sized, Stalled, Uncounted, Coming, Places
  <2> QED BY <1>3, <1>4, <2>1, <2>4, <2>6, <2>7 DEF v, w
<1>15. CASE Increment(t)
  <2>1. /\ pc[t] = "increment" /\ Goto(t, "idle") /\ rows' = rows /\ unknown' = unknown
        /\ log_table_nrows' = c + 1 /\ temp_nrows' = temp_nrows
    BY <1>15 DEF Increment, tableVars, c
  <2>2. Sized(k, f, c, m, "increment", q, v, w)
    BY <1>2, <2>1
  <2>3. c + 1 \in Nat
    BY <1>1
  <2>4. Sized(k, f, c + 1, m, "idle", q, v, w)
    BY <1>1, <2>2, <2>3, IncrementSized
  <2> QED BY <1>3, <1>4, <1>7, <2>1, <2>4 DEF v, w
<1> QED BY <1>9, <1>10, <1>11, <1>13, <1>14, <1>15 DEF update_log_table

\* The server comes up with a table it has counted, or of which it knows nothing.
LEMMA CountSized ==
    ASSUME TypeInv, TypeInv', PhaseInv, Count, RowsLimit >= 2
    PROVE  SizeInv'
<1> SUFFICES ASSUME NEW t \in Threads, NEW u \in Threads
             PROVE  Sized(Known', First', log_table_nrows', Most', pc'[t], pc'[u],
                          temp_nrows'[t], temp_nrows'[u])
  BY DEF SizeInv
<1>1. /\ pc' = pc /\ pc[t] = "idle" /\ pc[u] = "idle" /\ rows' = rows
      /\ inherited' = Cardinality(rows)
      /\ \/ log_table_nrows' = Cardinality(rows) /\ unknown' = 0
         \/ log_table_nrows' = 0 /\ unknown' = Cardinality(rows)
  BY DEF Count, PhaseInv, tableVars, threadVars
<1>2. Cardinality(rows) \in Nat /\ RowsLimit \in Nat
  BY NumberTypes DEF NumberType
<1>3. Most' \in Nat /\ Most' >= inherited' /\ First' \in {0, 1}
  <2>1. First' \in {0, 1}
    BY DEF First
  <2>2. 2 * RowsLimit \in Nat /\ inherited' = Cardinality(rows)
    BY <1>1, <1>2
  <2>3. Most' = Max({2 * RowsLimit, inherited'})
    BY DEF Most
  <2>4. Max({2 * RowsLimit, inherited'}) = IF 2 * RowsLimit >= inherited' THEN 2 * RowsLimit ELSE inherited'
    BY <1>2, <2>2, MaxOfTwo
  <2> QED BY <1>2, <2>1, <2>2, <2>3, <2>4
<1>4. Known' = Cardinality(rows) - unknown'
  BY <1>1 DEF Known
<1> QED BY <1>1, <1>2, <1>3, <1>4 DEF Sized, Stalled, Uncounted, Coming

LEMMA TwoThreads ==
    ASSUME Cardinality(Threads) = 2
    PROVE  \A t, a, b \in Threads : a # b => t = a \/ t = b
<1> SUFFICES ASSUME NEW t \in Threads, NEW a \in Threads, NEW b \in Threads,
                    a # b, t # a, t # b
             PROVE  FALSE
  OBVIOUS
<1>1. IsFiniteSet(Threads) /\ {a, b, t} \subseteq Threads
  BY LogTableAssumption
<1>2. IsFiniteSet({a}) /\ Cardinality({a}) = 1
  BY FS_Singleton
<1>3. IsFiniteSet({a, b}) /\ Cardinality({a, b}) = 2
  <2>1. {a, b} = {a} \cup {b} /\ b \notin {a}
    OBVIOUS
  <2> QED BY <1>2, <2>1, FS_AddElement
<1>4. Cardinality({a, b, t}) = 3
  <2>1. {a, b, t} = {a, b} \cup {t} /\ t \notin {a, b}
    OBVIOUS
  <2> QED BY <1>3, <2>1, FS_AddElement
<1>5. Cardinality({a, b, t}) <= 2
  BY <1>1, FS_Subset
<1> QED BY <1>4, <1>5

LEMMA SizeStep ==
    ASSUME Cardinality(Threads) = 2, RowsLimit >= 2
    PROVE  TypeInv /\ TypeInv' /\ PhaseInv /\ SizeInv /\ [Next]_vars => SizeInv'
<1> SUFFICES ASSUME TypeInv, TypeInv', PhaseInv, SizeInv, [Next]_vars PROVE SizeInv'
  OBVIOUS
<1>1. CASE Count
  BY <1>1, CountSized
<1>2. CASE Start \/ UpdateIds \/ Expire \/ Stop
  BY <1>2 DEF Start, UpdateIds, Expire, Stop, Stopped, SizeInv
<1>3. ASSUME NEW t \in Threads, TrimFails(t) PROVE SizeInv'
  BY <1>3 DEF TrimFails, Stopped, SizeInv
<1>4. ASSUME NEW t \in Threads, update_log_table(t), ~TrimFails(t) PROVE SizeInv'
  <2>1. phase = "up"
    BY <1>4, StepPlace DEF update_log_table, PhaseInv
  <2>2. ASSUME NEW u \in Threads, u # t
        PROVE  Sized(Known', First', log_table_nrows', Most', pc'[t], pc'[u],
                     temp_nrows'[t], temp_nrows'[u])
    BY <1>4, <2>1, <2>2, ThreadSized DEF SizeInv
  <2>3. NumberType'
    BY NumberTypes, PTL
  <2>4. ASSUME NEW u \in Threads, u # t
        PROVE  Sized(Known', First', log_table_nrows', Most', pc'[u], pc'[t],
                     temp_nrows'[u], temp_nrows'[t])
    BY <2>2, <2>3, <2>4, SizedAlike DEF NumberType
  <2>5. ASSUME NEW a \in Threads, NEW b \in Threads, a # b
        PROVE  Sized(Known', First', log_table_nrows', Most', pc'[a], pc'[b],
                     temp_nrows'[a], temp_nrows'[b])
    <3>1. CASE t = a
      BY <2>2, <2>5, <3>1
    <3>2. CASE t = b
      BY <2>4, <2>5, <3>2
    <3> QED BY <2>5, <3>1, <3>2, TwoThreads
  <2> QED BY <2>5 DEF SizeInv
<1>5. CASE UNCHANGED vars
  BY <1>5 DEF vars, tableVars, threadVars, historyVars, SizeInv, Known, First, Most
<1> QED BY <1>1, <1>2, <1>3, <1>4, <1>5 DEF Next, Constructor, update_log_table

(* With two threads, and a limit that a trimming enforces, log_table never  *)
(* holds more rows than twice the limit, or than it held when the server    *)
(* came up, and one per thread, apart from rows whose insertion was         *)
(* reported as failed (update_log_table, handler.cpp:139-165).              *)
THEOREM SizeBounded ==
    ASSUME Cardinality(Threads) = 2, RowsLimit >= 2
    PROVE  Spec => []TableBounded
<1>1. TypeInv /\ SizeInv => TableBounded
  <2> SUFFICES ASSUME TypeInv, SizeInv, phase = "up"
               PROVE  Cardinality(rows) <= Most + Cardinality(Threads) + unknown
    BY DEF TableBounded, Most
  <2>1. NumberType
    BY NumberTypes
  <2>2. PICK t \in Threads, u \in Threads : t # u
    <3>1. Threads # {}
      BY FS_EmptySet
    <3>2. PICK t \in Threads : TRUE
      BY <3>1
    <3>3. Threads # {t}
      BY FS_Singleton
    <3> QED BY <3>2, <3>3
  <2>3. Sized(Known, First, log_table_nrows, Most, pc[t], pc[u], temp_nrows[t], temp_nrows[u])
    BY <2>2 DEF SizeInv
  <2>4. Known + Coming(pc[t]) + Coming(pc[u]) <= Most + 1 + First
    BY <2>3 DEF Sized
  <2>5. Coming(pc[t]) \in Nat /\ Coming(pc[u]) \in Nat
    BY DEF Coming
  <2>6. /\ Known \in Int /\ First \in Int /\ First <= 1 /\ Most \in Nat /\ unknown \in Nat
        /\ Cardinality(rows) \in Nat /\ Known = Cardinality(rows) - unknown
    BY <2>1 DEF NumberType
  <2> HIDE DEF Known, First, Most
  <2>7. Known <= Most + 2
    BY <2>4, <2>5, <2>6
  <2> QED BY <2>6, <2>7
<1>2. Init => SizeInv
  BY DEF Init, SizeInv
<1>3. TypeInv /\ PhaseInv /\ OverlapInv /\ CountInv /\ SizeInv /\ [Next]_vars
        => (TypeInv /\ PhaseInv /\ OverlapInv /\ CountInv)'
  BY TableStep, ThreadStep, CountStep DEF TypeInv
<1>4. TypeInv /\ PhaseInv /\ OverlapInv /\ CountInv /\ SizeInv /\ [Next]_vars
        => (TypeInv /\ PhaseInv /\ OverlapInv /\ CountInv /\ SizeInv)'
  BY <1>3, SizeStep
<1> QED BY <1>1, <1>2, <1>4, InitInv, PTL DEF Spec

=============================================================================
