-------------------------- MODULE HttpServerProofs --------------------------
(***************************************************************************)
(* Theorems about HttpServer, for any number of threads, sessions,         *)
(* requests, failures and records: every request has its answer, and the   *)
(* log tells the story of every connection.                                *)
(***************************************************************************)
EXTENDS HttpServer, SequenceTheorems, FiniteSetTheorems, TLAPS

(***************************************************************************)
(* Types, in parts.                                                        *)
(***************************************************************************)

ServerType ==
    /\ process \in {"constructed", "up", "crashed"}
    /\ logger \in BOOLEAN /\ stranded \in BOOLEAN
    /\ acceptor \in {"none", "listening", "broken"}

Places == {"none", "started", "reading", "handling", "writing", "closed"}

SessionType ==
    /\ pc \in [Sessions -> Places]
    /\ close \in [Sessions -> BOOLEAN]
    /\ deadline \in [Sessions -> {"never", "armed", "expired"}]
    /\ client \in [Sessions -> {"away", "waiting", "connected", "gone"}]

CountType ==
    /\ taken \in [Sessions -> 0..MaxRequests] /\ answered \in [Sessions -> 0..MaxRequests]

LogType ==
    /\ log_strand \in Seq(Records) /\ Len(log_strand) <= MaxPending
    /\ written \in [Sessions -> Seq(Kinds)]

LEMMA TypeParts ==
    TypeOK <=> /\ ServerType /\ SessionType /\ CountType /\ LogType
               /\ failures \in 0..MaxFailures
BY DEF TypeOK, ServerType, SessionType, CountType, LogType, Places

(***************************************************************************)
(* What a set of entries in the log must be while its session is at p.     *)
(***************************************************************************)

Entry == [at : Nat, kind : Kinds]

Complete(log, p) ==
    /\ p = "none" <=> log = {}
    /\ \A e \in log : e.kind = "connected" => \A d \in log : e.at <= d.at
    /\ \A e \in log : e.kind \in Ends => \E d \in log : d.at < e.at
    /\ p = "closed" <=> \E e \in log : e.kind \in Ends
    /\ \A d, e \in log : d.kind \in Ends /\ e.kind \in Ends => d = e
    /\ \A e \in log : e.kind = "timed out" => \A d \in log : d.at <= e.at
    /\ \A c, d, e \in log : e.kind \in Ends /\ e.at < c.at /\ e.at < d.at => c = d

\* The end of the connection is the last entry.
EndLast(log) == \E e \in log : e.kind = "closing" /\ \A d \in log : d.at <= e.at

\* One more entry, the last.
More(log, new, k) ==
    \E e \in Entry :
        /\ e.kind = k
        /\ new = log \cup {e}
        /\ \A d \in log : d.at < e.at

LEMMA CompleteMore ==
    ASSUME NEW log \in SUBSET Entry, NEW new, NEW p, NEW k, Complete(log, p), More(log, new, k)
    PROVE  /\ new \in SUBSET Entry /\ log \subseteq new
           /\ \E e \in new : e.kind = k
           /\ p = "none" /\ k \in {"connected", "report"} => Complete(new, "started")
           /\ p \notin {"none", "closed"} /\ k = "report" =>
                 \A q : q \notin {"none", "closed"} => Complete(new, q)
           /\ p \notin {"none", "closed"} /\ k = "timed out" => Complete(new, "closed")
           /\ p \notin {"none", "closed"} /\ k = "closing" =>
                 Complete(new, "closed") /\ EndLast(new)
           /\ p = "closed" /\ EndLast(log) /\ k = "report" => Complete(new, "closed")
<1>1. PICK e \in Entry : e.kind = k /\ new = log \cup {e} /\ \A d \in log : d.at < e.at
  BY DEF More
<1>2. /\ new \in SUBSET Entry /\ log \subseteq new /\ e \in new
      /\ \A d \in new : d.at \in Nat
  BY <1>1 DEF Entry
<1>3. "report" \notin Ends /\ "connected" \notin Ends /\ "closing" \in Ends /\ "timed out" \in Ends
  BY DEF Ends
<1>4. \A d \in new : d = e \/ (d \in log /\ d.at < e.at /\ d # e)
  BY <1>1, <1>2
<1>5. ASSUME p = "none", k \in {"connected", "report"} PROVE Complete(new, "started")
  <2>a. log = {}
    BY <1>5 DEF Complete
  <2>b. e.kind \notin Ends
    BY <1>1, <1>3, <1>5
  <2>1. /\ new # {} /\ e.kind \notin Ends /\ e.at <= e.at
        /\ \A d \in new : d = e
    BY <1>1, <1>2, <2>a, <2>b
  <2> QED BY <1>3, <2>1 DEF Complete
<1>6. ASSUME p \notin {"none", "closed"}, k = "report", NEW q, q \notin {"none", "closed"}
      PROVE  Complete(new, q)
  <2>1. /\ new # {} /\ \A d \in new : d.kind \notin Ends
        /\ e.kind # "connected" /\ log # {}
    <3>1. log # {} /\ \A d \in log : d.kind \notin Ends
      BY <1>6 DEF Complete
    <3>2. e.kind \notin Ends /\ e.kind # "connected"
      BY <1>1, <1>3, <1>6
    <3> QED BY <1>2, <1>4, <3>1, <3>2
  <2>2. \A d \in new : d.kind = "connected" => \A c \in new : d.at <= c.at
    <3> SUFFICES ASSUME NEW d \in log, NEW c \in new, d.kind = "connected" PROVE d.at <= c.at
      BY <1>4, <2>1
    <3>1. c \in log => d.at <= c.at
      BY DEF Complete
    <3> QED BY <1>1, <1>2, <1>4, <3>1
  <2> QED BY <1>3, <1>6, <2>1, <2>2 DEF Complete
<1>7. ASSUME p \notin {"none", "closed"}, k \in Ends PROVE Complete(new, "closed")
  <2>1. log # {} /\ \A d \in log : d.kind \notin Ends
    BY <1>7 DEF Complete
  <2>2. \A d \in new : d.kind \in Ends <=> d = e
    BY <1>1, <1>4, <1>7, <2>1
  <2>3. \A d \in new : d.at <= e.at
    BY <1>1, <1>2, <1>4
  <2>4. \A d \in new : d.kind = "connected" => \A c \in new : d.at <= c.at
    <3> SUFFICES ASSUME NEW d \in log, NEW c \in new, d.kind = "connected" PROVE d.at <= c.at
      BY <1>1, <1>3, <1>4, <1>7
    <3>1. c \in log => d.at <= c.at
      BY DEF Complete
    <3> QED BY <1>1, <1>2, <1>4, <3>1
  <2>5. \E d \in new : d.at < e.at
    BY <1>1, <1>2, <2>1
  <2>6. \A c \in new : ~(e.at < c.at)
    BY <1>2, <2>3
  <2> QED BY <1>2, <1>3, <2>2, <2>3, <2>4, <2>5, <2>6 DEF Complete
<1>8. k = "closing" => EndLast(new)
  BY <1>1, <1>2, <1>4 DEF EndLast
<1>9. ASSUME p = "closed", EndLast(log), k = "report" PROVE Complete(new, "closed")
  <2>1. PICK l \in log : l.kind = "closing" /\ \A d \in log : d.at <= l.at
    BY <1>9 DEF EndLast
  <2>2. \A d \in new : d.kind \in Ends <=> d = l
    BY <1>1, <1>3, <1>4, <1>9, <2>1 DEF Complete
  <2>3. \A d \in new : l.at < d.at => d = e
    BY <1>2, <1>4, <2>1
  <2>4. \A d \in new : d.kind = "connected" => \A c \in new : d.at <= c.at
    <3> SUFFICES ASSUME NEW d \in log, NEW c \in new, d.kind = "connected" PROVE d.at <= c.at
      BY <1>1, <1>9, <1>4
    <3>1. c \in log => d.at <= c.at
      BY DEF Complete
    <3> QED BY <1>1, <1>2, <1>4, <3>1
  <2>5. l \in new /\ \E d \in new : d.at < l.at
    BY <1>2, <1>3, <2>1 DEF Complete
  <2>6. new # {} /\ l.kind # "timed out" /\ l.kind \in Ends
    BY <1>2, <1>3, <2>1
  <2>7. \A d \in new : d.kind \in Ends => \E c \in new : c.at < d.at
    BY <2>2, <2>5
  <2>8. \A d \in new : d.kind = "timed out" => \A c \in new : c.at <= d.at
    BY <1>3, <2>2, <2>6
  <2>9. \A c, d, f \in new : f.kind \in Ends /\ f.at < c.at /\ f.at < d.at => c = d
    BY <2>2, <2>3
  <2>10. (\E f \in new : f.kind \in Ends) /\ \A c, d \in new : c.kind \in Ends /\ d.kind \in Ends => c = d
    BY <2>2, <2>5
  <2> QED BY <2>4, <2>6, <2>7, <2>8, <2>9, <2>10 DEF Complete
<1> QED BY <1>1, <1>2, <1>3, <1>5, <1>6, <1>7, <1>8, <1>9

\* Only the order of the places matters.
Moved(log, new) ==
    \E f \in [log -> new] :
        /\ \A d \in log : f[d].kind = d.kind
        /\ \A d, e \in log : d.at < e.at <=> f[d].at < f[e].at
        /\ \A e \in new : \E d \in log : f[d] = e

LEMMA CompleteMoved ==
    ASSUME NEW log \in SUBSET Entry, NEW new \in SUBSET Entry, NEW p,
           Complete(log, p), Moved(log, new)
    PROVE  Complete(new, p) /\ \A e \in log : \E d \in new : d.kind = e.kind
<1>1. PICK f \in [log -> new] :
        /\ \A d \in log : f[d].kind = d.kind
        /\ \A d, e \in log : d.at < e.at <=> f[d].at < f[e].at
        /\ \A e \in new : \E d \in log : f[d] = e
  BY DEF Moved
<1>2. /\ \A d \in log : f[d] \in new /\ d.at \in Nat
      /\ \A d \in new : d.at \in Nat
  BY <1>1 DEF Entry
<1>3. \A d, e \in log : d.at <= e.at <=> f[d].at <= f[e].at
  BY <1>1, <1>2
<1>4. p = "none" <=> new = {}
  BY <1>1, <1>2 DEF Complete
<1>5. \A e \in new : e.kind = "connected" => \A d \in new : e.at <= d.at
  <2> SUFFICES ASSUME NEW x \in log, NEW y \in log, x.kind = "connected"
               PROVE  f[x].at <= f[y].at
    BY <1>1
  <2> QED BY <1>3 DEF Complete
<1>6. \A e \in new : e.kind \in Ends => \E d \in new : d.at < e.at
  <2> SUFFICES ASSUME NEW x \in log, x.kind \in Ends PROVE \E d \in new : d.at < f[x].at
    BY <1>1
  <2>1. PICK y \in log : y.at < x.at
    BY DEF Complete
  <2> QED BY <1>1, <1>2, <2>1
<1>7. p = "closed" <=> \E e \in new : e.kind \in Ends
  <2>1. p = "closed" <=> \E x \in log : x.kind \in Ends
    BY DEF Complete
  <2>2. ASSUME NEW x \in log, x.kind \in Ends PROVE \E e \in new : e.kind \in Ends
    BY <1>1, <1>2, <2>2
  <2>3. ASSUME NEW e \in new, e.kind \in Ends PROVE \E x \in log : x.kind \in Ends
    BY <1>1, <2>3
  <2> QED BY <2>1, <2>2, <2>3
<1>8. \A d, e \in new : d.kind \in Ends /\ e.kind \in Ends => d = e
  <2> SUFFICES ASSUME NEW x \in log, NEW y \in log, x.kind \in Ends, y.kind \in Ends
               PROVE  f[x] = f[y]
    BY <1>1
  <2>1. x = y
    BY DEF Complete
  <2> QED BY <2>1
<1>9. ASSUME NEW e \in new, NEW d \in new, e.kind = "timed out" PROVE d.at <= e.at
  <2>1. PICK x \in log : f[x] = e
    BY <1>1
  <2>2. PICK y \in log : f[y] = d
    BY <1>1
  <2>3. x.kind = "timed out"
    BY <1>1, <1>9, <2>1
  <2>4. y.at <= x.at
    BY <2>3 DEF Complete
  <2> QED BY <1>3, <2>1, <2>2, <2>4
<1>10. \A c, d, e \in new : e.kind \in Ends /\ e.at < c.at /\ e.at < d.at => c = d
  <2> SUFFICES ASSUME NEW x \in log, NEW y \in log, NEW z \in log, z.kind \in Ends,
                      f[z].at < f[x].at, f[z].at < f[y].at
               PROVE  f[x] = f[y]
    BY <1>1
  <2> QED BY <1>1 DEF Complete
<1> QED BY <1>1, <1>2, <1>4, <1>5, <1>6, <1>7, <1>8, <1>9, <1>10 DEF Complete

(***************************************************************************)
(* The entries of a session, as records are posted and written.            *)
(***************************************************************************)

\* e is an entry of session s in a log that has written w and is to write q.
Tells(w, q, s, e) ==
    \/ e.at \in 1..Len(w) /\ e.kind = w[e.at]
    \/ /\ e.at - Len(w) \in 1..Len(q)
       /\ q[e.at - Len(w)].of = s
       /\ e.kind = q[e.at - Len(w)].kind

EntriesAreTold ==
    \A s \in Sessions :
        Entries(s) = {e \in Entry : Tells(written[s], log_strand, s, e)}

LEMMA EntryIs == LogType => EntriesAreTold
<1> SUFFICES ASSUME LogType, NEW s \in Sessions
             PROVE  Entries(s) = {e \in Entry : Tells(written[s], log_strand, s, e)}
  BY DEF EntriesAreTold
<1> DEFINE w == written[s]
           q == log_strand
           E == {e \in Entry : Tells(w, q, s, e)}
<1>1. /\ w \in Seq(Kinds) /\ q \in Seq(Records)
      /\ Len(w) \in Nat /\ Len(q) \in Nat /\ DOMAIN w = 1..Len(w) /\ DOMAIN q = 1..Len(q)
      /\ \A i \in 1..Len(w) : w[i] \in Kinds
      /\ \A i \in 1..Len(q) : q[i].kind \in Kinds
  <2>1. w \in Seq(Kinds) /\ q \in Seq(Records)
    BY DEF LogType
  <2>2. \A r \in Records : r.kind \in Kinds
    BY DEF Records
  <2> HIDE DEF w, q
  <2>3. \A i \in 1..Len(q) : q[i] \in Records
    BY <2>1
  <2> QED BY <2>1, <2>2, <2>3
<1>2. Entries(s) = {[at |-> i, kind |-> w[i]] : i \in DOMAIN w}
                   \cup {[at |-> Len(w) + i, kind |-> q[i].kind] :
                         i \in {j \in DOMAIN q : q[j].of = s}}
  BY DEF Entries
<1> HIDE DEF w, q
<1>3. ASSUME NEW i \in 1..Len(w) PROVE [at |-> i, kind |-> w[i]] \in E
  BY <1>1 DEF Tells, Entry
<1>4. ASSUME NEW i \in 1..Len(q), q[i].of = s
      PROVE  [at |-> Len(w) + i, kind |-> q[i].kind] \in E
  <2>1. Len(w) + i \in Nat /\ Len(w) + i - Len(w) = i
    BY <1>1
  <2> QED BY <1>1, <1>4, <2>1 DEF Tells, Entry
<1>5. ASSUME NEW e \in E PROVE e \in Entries(s)
  <2>1. e = [at |-> e.at, kind |-> e.kind] /\ e.at \in Nat
    BY DEF Entry
  <2>2. CASE e.at \in 1..Len(w) /\ e.kind = w[e.at]
    BY <1>1, <1>2, <2>1, <2>2
  <2>3. CASE /\ e.at - Len(w) \in 1..Len(q)
             /\ q[e.at - Len(w)].of = s
             /\ e.kind = q[e.at - Len(w)].kind
    <3> DEFINE i == e.at - Len(w)
    <3>1. i \in 1..Len(q) /\ Len(w) + i = e.at /\ q[i].of = s /\ e.kind = q[i].kind
      BY <1>1, <2>1, <2>3
    <3> HIDE DEF i
    <3> QED BY <1>1, <1>2, <2>1, <3>1
  <2> QED BY <2>2, <2>3 DEF Tells
<1>6. Entries(s) = E
  BY <1>1, <1>2, <1>3, <1>4, <1>5
<1> QED BY <1>1, <1>6 DEF w, q

\* The records of kinds come one after the other.
LEMMA PostTells ==
    ASSUME LogType, NEW s \in Sessions, NEW kinds \in Seq(Kinds), Post(s, kinds)
    PROVE  /\ LogType'
           /\ \A t \in Sessions : t # s => Entries(t)' = Entries(t)
           /\ \E up : /\ up[0] = Entries(s) /\ up[Len(kinds)] = Entries(s)'
                      /\ \A j \in 1..Len(kinds) : More(up[j - 1], up[j], kinds[j])
<1> DEFINE new == [i \in DOMAIN kinds |-> Record(s, kinds[i])]
           q == log_strand
           r == log_strand'
<1>1. /\ DOMAIN kinds = 1..Len(kinds) /\ Len(kinds) \in Nat
      /\ \A i \in 1..Len(kinds) : kinds[i] \in Kinds
  OBVIOUS
<1>2. new \in Seq(Records) /\ Len(new) = Len(kinds)
      /\ \A i \in 1..Len(kinds) : new[i].of = s /\ new[i].kind = kinds[i]
  <2>1. \A i \in 1..Len(kinds) : Record(s, kinds[i]) \in Records
    BY <1>1 DEF Record, Records
  <2>2. new \in [1..Len(kinds) -> Records]
    BY <1>1, <2>1
  <2> QED BY <1>1, <2>2 DEF Record
<1> HIDE DEF new
<1>3. /\ r = q \o new /\ written' = written
      /\ Len(q) + Len(kinds) <= MaxPending
  BY DEF Post, new
<1>4. q \in Seq(Records) /\ Len(q) \in Nat
  BY DEF LogType
<1> HIDE DEF q, r
<1>5. /\ r \in Seq(Records) /\ Len(r) = Len(q) + Len(kinds)
      /\ \A i \in 1..(Len(q) + Len(kinds)) :
            r[i] = IF i <= Len(q) THEN q[i] ELSE new[i - Len(q)]
  <2>1. q \in Seq(Records) /\ new \in Seq(Records)
    BY <1>2, <1>4
  <2>2. /\ q \o new \in Seq(Records) /\ Len(q \o new) = Len(q) + Len(new)
        /\ \A i \in 1..(Len(q) + Len(new)) :
              (q \o new)[i] = IF i <= Len(q) THEN q[i] ELSE new[i - Len(q)]
    BY <2>1, ConcatProperties, Zenon
  <2>3. Len(new) = Len(kinds) /\ r = q \o new
    BY <1>2, <1>3
  <2> QED BY <2>2, <2>3, Zenon
<1>6. LogType'
  BY <1>3, <1>5 DEF LogType, r
<1>7. ASSUME NEW t \in Sessions
      PROVE  /\ written[t] \in Seq(Kinds) /\ Len(written[t]) \in Nat
             /\ Entries(t) = {e \in Entry : Tells(written[t], q, t, e)}
             /\ Entries(t)' = {e \in Entry : Tells(written[t], r, t, e)}
  <2>1. EntriesAreTold
    BY EntryIs
  <2>2. EntriesAreTold'
    BY <1>6, EntryIs, PTL
  <2>3. written[t] \in Seq(Kinds)
    BY DEF LogType
  <2> QED BY <1>3, <2>1, <2>2, <2>3 DEF EntriesAreTold, q, r
<1>8. ASSUME NEW t \in Sessions, t # s, NEW e \in Entry
      PROVE  Tells(written[t], q, t, e) <=> Tells(written[t], r, t, e)
  <2> DEFINE i == e.at - Len(written[t])
  <2>1. i \in Int /\ Len(q) \in Nat /\ Len(kinds) \in Nat
    BY <1>1, <1>4, <1>7 DEF Entry
  <2> HIDE DEF i
  <2>2. i \in 1..Len(q) => i \in 1..Len(r) /\ r[i] = q[i]
    BY <1>5, <2>1
  <2>3. ASSUME i \in 1..Len(r), i \notin 1..Len(q) PROVE r[i].of # t
    <3>1. i - Len(q) \in 1..Len(kinds) /\ r[i] = new[i - Len(q)]
      BY <1>5, <2>1, <2>3
    <3> QED BY <1>2, <1>8, <3>1
  <2> QED BY <2>2, <2>3 DEF Tells, i
<1>9. \A t \in Sessions : t # s => Entries(t)' = Entries(t)
  BY <1>7, <1>8
<1>10. \E up : /\ up[0] = Entries(s) /\ up[Len(kinds)] = Entries(s)'
               /\ \A j \in 1..Len(kinds) : More(up[j - 1], up[j], kinds[j])
  <2> DEFINE N == Len(written[s]) + Len(q)
             up == [j \in 0..Len(kinds) |-> {e \in Entries(s)' : e.at <= N + j}]
  <2>1. N \in Nat
    BY <1>4, <1>7
  <2>2. \A e \in Entries(s) : e.at <= N
    <3> SUFFICES ASSUME NEW e \in Entry, Tells(written[s], q, s, e) PROVE e.at <= N
      BY <1>7
    <3> QED BY <1>4, <1>7 DEF Tells, Entry
  <2>3. ASSUME NEW e \in Entry, e.at <= N
        PROVE  Tells(written[s], q, s, e) <=> Tells(written[s], r, s, e)
    <3> DEFINE i == e.at - Len(written[s])
    <3>1. i \in Int /\ i <= Len(q)
      BY <1>4, <1>7, <2>3 DEF Entry
    <3> HIDE DEF i
    <3>2. i \in 1..Len(q) <=> i \in 1..Len(r)
      BY <1>1, <1>4, <1>5, <3>1
    <3>3. i \in 1..Len(q) => r[i] = q[i]
      BY <1>1, <1>4, <1>5, <3>1
    <3> QED BY <3>2, <3>3 DEF Tells, i
  <2>4. ASSUME NEW e \in Entry, ~(e.at <= N)
        PROVE  Tells(written[s], r, s, e) <=> /\ e.at - N \in 1..Len(kinds)
                                              /\ e.kind = kinds[e.at - N]
    <3> DEFINE i == e.at - Len(written[s])
               j == e.at - N
    <3>1. /\ i \in Int /\ j \in Int /\ j > 0 /\ i = j + Len(q)
          /\ ~(e.at \in 1..Len(written[s]))
      BY <1>4, <1>7, <2>4 DEF Entry
    <3> HIDE DEF i, j
    <3>2. i \in 1..Len(r) <=> j \in 1..Len(kinds)
      BY <1>1, <1>4, <1>5, <3>1
    <3>3. j \in 1..Len(kinds) => r[i] = new[j]
      BY <1>1, <1>4, <1>5, <3>1
    <3> QED BY <1>2, <3>1, <3>2, <3>3 DEF Tells, i, j
  <2> HIDE DEF N
  <2>5. up[0] = Entries(s)
    <3>1. up[0] = {e \in Entries(s)' : e.at <= N}
      BY <1>1, <2>1
    <3> QED BY <1>7, <2>2, <2>3, <3>1
  <2>6. up[Len(kinds)] = Entries(s)'
    <3>1. \A e \in Entries(s)' : e.at <= N + Len(kinds)
      <4> SUFFICES ASSUME NEW e \in Entry, Tells(written[s], r, s, e)
                   PROVE  e.at <= N + Len(kinds)
        BY <1>7
      <4>1. e.at \in Nat
        BY DEF Entry
      <4> QED BY <1>1, <2>1, <2>4, <4>1
    <3> QED BY <1>1, <3>1
  <2>7. ASSUME NEW j \in 1..Len(kinds) PROVE More(up[j - 1], up[j], kinds[j])
    <3> DEFINE e == [at |-> N + j, kind |-> kinds[j]]
    <3>1. e \in Entry /\ e.at = N + j /\ e.kind = kinds[j] /\ e.at - N = j
      BY <1>1, <2>1 DEF Entry
    <3>2. \A d \in Entry : d.at = N + j /\ d.kind = kinds[j] => d = e
      BY DEF Entry
    <3> HIDE DEF e
    <3>3. /\ up[j] = {d \in Entries(s)' : d.at <= N + j}
          /\ up[j - 1] = {d \in Entries(s)' : d.at <= N + (j - 1)}
      BY <1>1
    <3> HIDE DEF up
    <3>4. e \in Entries(s)'
      <4>1. ~(e.at <= N)
        BY <2>1, <3>1
      <4> QED BY <1>7, <2>4, <3>1, <4>1
    <3>5. ASSUME NEW d \in Entries(s)', d.at <= N + j, d # e PROVE d.at <= N + (j - 1)
      <4>1. d \in Entry /\ d.at \in Nat /\ Tells(written[s], r, s, d)
        BY <1>7 DEF Entry
      <4>2. d.at = N + j => d.kind = kinds[j]
        <5> SUFFICES ASSUME d.at = N + j PROVE d.kind = kinds[j]
          OBVIOUS
        <5>1. ~(d.at <= N) /\ d.at - N = j
          BY <2>1
        <5> QED BY <2>4, <4>1, <5>1
      <4> QED BY <2>1, <3>2, <3>5, <4>1, <4>2
    <3>6. up[j] = up[j - 1] \cup {e}
      <4>1. e.at <= N + j /\ \A d \in Entries(s)' : d.at <= N + (j - 1) => d.at <= N + j
        BY <1>7, <2>1, <3>1 DEF Entry
      <4> QED BY <3>3, <3>4, <3>5, <4>1
    <3>7. \A d \in up[j - 1] : d.at < e.at
      BY <1>7, <2>1, <3>1, <3>3 DEF Entry
    <3> QED BY <3>1, <3>6, <3>7 DEF More
  <2> HIDE DEF up
  <2> QED BY <2>5, <2>6, <2>7
<1> QED BY <1>6, <1>9, <1>10

LEMMA StayMoved == ASSUME NEW log PROVE Moved(log, log)
<1> DEFINE f == [d \in log |-> d]
<1>1. f \in [log -> log] /\ \A d \in log : f[d] = d
  OBVIOUS
<1> HIDE DEF f
<1> QED BY <1>1 DEF Moved

\* Writing a record leaves the entries of its session where they are, and moves the
\* pending ones of the others.
LEMMA WriteTells ==
    ASSUME LogType, WriteRecord
    PROVE  LogType' /\ \A t \in Sessions : Moved(Entries(t), Entries(t)')
<1> DEFINE h == Head(log_strand)
           q == log_strand
           r == log_strand'
<1>1. /\ log_strand \in Seq(Records) /\ log_strand # <<>>
      /\ log_strand' = Tail(log_strand)
      /\ written' = [written EXCEPT ![h.of] = Append(@, h.kind)]
  BY DEF WriteRecord, Written, LogType
<1>2. /\ h \in Records /\ h = q[1]
      /\ r \in Seq(Records) /\ Len(r) = Len(q) - 1
      /\ \A i \in 1..Len(r) : r[i] = q[i + 1]
      /\ Len(q) \in Nat \ {0}
  BY <1>1
<1>3. h.of \in Sessions /\ h.kind \in Kinds
  BY <1>2 DEF Records
<1>4. written \in [Sessions -> Seq(Kinds)] /\ q \in Seq(Records)
  BY DEF LogType
<1> HIDE DEF h, q, r
<1>5. ASSUME NEW t \in Sessions, t # h.of PROVE written'[t] = written[t]
  BY <1>1, <1>4, <1>5
<1>6. ASSUME NEW t \in Sessions, t = h.of
      PROVE  /\ written'[t] \in Seq(Kinds) /\ Len(written'[t]) = Len(written[t]) + 1
             /\ \A i \in 1..Len(written[t]) : written'[t][i] = written[t][i]
             /\ written'[t][Len(written[t]) + 1] = h.kind
  <2> DEFINE w == written[t]
  <2>1. written'[t] = Append(w, h.kind) /\ w \in Seq(Kinds)
    BY <1>1, <1>4, <1>6
  <2> HIDE DEF w
  <2>2. written'[t] \in Seq(Kinds)
    BY <1>3, <2>1, AppendProperties
  <2>3. /\ Len(written'[t]) = Len(w) + 1
        /\ \A i \in 1..Len(w) : written'[t][i] = w[i]
        /\ written'[t][Len(w) + 1] = h.kind
    BY <1>3, <2>1, AppendProperties
  <2> QED BY <2>2, <2>3 DEF w
<1>7. LogType'
  <2>1. written' \in [Sessions -> Seq(Kinds)]
    <3>1. \A t \in Sessions : written'[t] \in Seq(Kinds)
      BY <1>4, <1>5, <1>6
    <3> QED BY <1>1, <1>4, <3>1
  <2>2. Len(q) <= MaxPending
    BY DEF LogType, q
  <2> QED BY <1>2, <2>1, <2>2, HttpServerAssumption DEF LogType, r
<1>8. ASSUME NEW t \in Sessions
      PROVE  /\ written[t] \in Seq(Kinds) /\ Len(written[t]) \in Nat
             /\ Entries(t) = {e \in Entry : Tells(written[t], q, t, e)}
             /\ Entries(t)' = {e \in Entry : Tells(written'[t], r, t, e)}
  <2>1. EntriesAreTold
    BY EntryIs
  <2>2. EntriesAreTold'
    BY <1>7, EntryIs, PTL
  <2>3. written[t] \in Seq(Kinds)
    BY DEF LogType
  <2> QED BY <2>1, <2>2, <2>3 DEF EntriesAreTold, q, r
<1>9. ASSUME NEW t \in Sessions, t = h.of PROVE Moved(Entries(t), Entries(t)')
  <2>1. ASSUME NEW e \in Entry
        PROVE  Tells(written[t], q, t, e) <=> Tells(written'[t], r, t, e)
    <3> DEFINE n == Len(written[t])
               v == written'[t]
    <3>1. /\ e.at \in Nat /\ n \in Nat /\ Len(q) \in Nat \ {0} /\ Len(r) = Len(q) - 1
          /\ Len(v) = n + 1 /\ v[n + 1] = h.kind
      BY <1>2, <1>6, <1>8, <1>9 DEF Entry
    <3>2. \A i \in 1..n : v[i] = written[t][i]
      BY <1>6, <1>9
    <3>3. q[1].of = t /\ q[1].kind = h.kind
      BY <1>2, <1>9
    <3> HIDE DEF n, v
    <3>4. CASE e.at <= n
      <4>1. e.at \in 1..n <=> e.at \in 1..(n + 1)
        BY <3>1, <3>4
      <4>2. e.at - n \notin 1..Len(q) /\ e.at - (n + 1) \notin 1..Len(r)
        BY <3>1, <3>4
      <4>3. Tells(written[t], q, t, e) <=> e.at \in 1..n /\ e.kind = written[t][e.at]
        BY <4>2 DEF Tells, n
      <4>4. Tells(v, r, t, e) <=> e.at \in 1..(n + 1) /\ e.kind = v[e.at]
        BY <3>1, <4>2 DEF Tells
      <4> QED BY <3>2, <4>1, <4>3, <4>4 DEF v
    <3>5. CASE e.at = n + 1
      <4>1. /\ e.at \notin 1..n /\ e.at \in 1..(n + 1)
            /\ e.at - n = 1 /\ 1 \in 1..Len(q) /\ e.at - (n + 1) \notin 1..Len(r)
        BY <3>1, <3>5
      <4> QED BY <3>1, <3>3, <3>5, <4>1 DEF Tells, n, v
    <3>6. CASE e.at > n + 1
      <4> DEFINE i == e.at - (n + 1)
      <4>1. /\ e.at \notin 1..n /\ e.at \notin 1..(n + 1)
            /\ i \in Int /\ e.at - n = i + 1 /\ i > 0
        BY <3>1, <3>6
      <4> HIDE DEF i
      <4>2. /\ i + 1 \in 1..Len(q) <=> i \in 1..Len(r)
            /\ i \in 1..Len(r) => r[i] = q[i + 1]
        BY <1>2, <3>1, <4>1
      <4> QED BY <3>1, <4>1, <4>2 DEF Tells, n, v, i
    <3> QED BY <3>1, <3>4, <3>5, <3>6
  <2> QED BY <1>8, <2>1, StayMoved
<1>10. ASSUME NEW t \in Sessions, t # h.of PROVE Moved(Entries(t), Entries(t)')
  <2> DEFINE w == written[t]
             n == Len(w)
             E == Entries(t)
             F == Entries(t)'
  <2>1. /\ n \in Nat /\ Len(q) \in Nat \ {0} /\ Len(r) = Len(q) - 1 /\ q[1].of # t
        /\ E = {e \in Entry : Tells(w, q, t, e)}
        /\ F = {e \in Entry : Tells(w, r, t, e)}
    BY <1>2, <1>5, <1>8, <1>10
  <2> HIDE DEF w
  <2> DEFINE Place(d) == IF d.at <= n THEN d.at ELSE d.at - 1
             f == [d \in E |-> [at |-> Place(d), kind |-> d.kind]]
  <2>2. ASSUME NEW d \in Entry, Tells(w, q, t, d)
        PROVE  /\ d.at \in Nat /\ (d.at <= n \/ d.at > n + 1) /\ Place(d) \in Nat
               /\ f[d] = [at |-> Place(d), kind |-> d.kind]
               /\ f[d] \in Entry /\ Tells(w, r, t, f[d])
    <3>1. d.at \in Nat /\ d.kind \in Kinds /\ d.at # n + 1 /\ d \in E
      <4>1. d.at \in Nat /\ d.kind \in Kinds /\ d \in E
        BY <2>1, <2>2 DEF Entry
      <4>2. ASSUME d.at = n + 1 PROVE FALSE
        <5>1. d.at - n = 1 /\ d.at \notin 1..n
          BY <2>1, <4>2
        <5> QED BY <2>1, <2>2, <5>1 DEF Tells
      <4> QED BY <4>1, <4>2
    <3> HIDE DEF n, E, F
    <3>2. Place(d) \in Nat /\ (d.at <= n \/ d.at > n + 1)
      BY <2>1, <3>1
    <3>3. f[d] = [at |-> Place(d), kind |-> d.kind]
      BY <3>1
    <3>4. f[d] \in Entry /\ f[d].at = Place(d) /\ f[d].kind = d.kind
      BY <3>1, <3>2, <3>3 DEF Entry
    <3> HIDE DEF f
    <3>5. Tells(w, r, t, f[d])
      <4>1. CASE d.at <= n
        <5>1. d.at - n \notin 1..Len(q) /\ Place(d) = d.at
          BY <2>1, <3>1, <4>1
        <5> QED BY <2>2, <3>4, <5>1 DEF Tells, n
      <4>2. CASE d.at > n + 1
        <5> DEFINE i == Place(d) - n
        <5>1. /\ d.at \notin 1..n /\ i \in Int /\ d.at - n = i + 1 /\ i > 0
          BY <2>1, <3>1, <4>2
        <5>2. f[d].at - n = i
          BY <3>4
        <5> HIDE DEF i, Place
        <5>3. i \in 1..Len(r) <=> i + 1 \in 1..Len(q)
          BY <2>1, <5>1
        <5>4. i \in 1..Len(r) => r[i] = q[i + 1]
          BY <1>2
        <5>5. i + 1 \in 1..Len(q) /\ q[i + 1].of = t /\ d.kind = q[i + 1].kind
          BY <2>2, <5>1 DEF Tells, n
        <5> QED BY <3>4, <5>2, <5>3, <5>4, <5>5 DEF Tells, n
      <4> QED BY <3>2, <4>1, <4>2
    <3> QED BY <3>1, <3>2, <3>3, <3>4, <3>5
  <2>3. f \in [E -> F] /\ \A d \in E : f[d].kind = d.kind
    <3>1. ASSUME NEW d \in E PROVE f[d] \in F /\ f[d].kind = d.kind
      <4>1. d \in Entry /\ Tells(w, q, t, d)
        BY <2>1
      <4>2. /\ f[d] = [at |-> Place(d), kind |-> d.kind]
            /\ f[d] \in Entry /\ Tells(w, r, t, f[d])
        BY <2>2, <4>1
      <4>3. f[d].kind = d.kind
        BY <4>2
      <4> QED BY <2>1, <4>2, <4>3
    <3> QED BY <3>1
  <2>4. ASSUME NEW d \in E, NEW e \in E PROVE d.at < e.at <=> f[d].at < f[e].at
    <3>1. d \in Entry /\ Tells(w, q, t, d) /\ e \in Entry /\ Tells(w, q, t, e)
      BY <2>1
    <3>2. /\ d.at \in Nat /\ (d.at <= n \/ d.at > n + 1) /\ f[d].at = Place(d)
          /\ e.at \in Nat /\ (e.at <= n \/ e.at > n + 1) /\ f[e].at = Place(e)
      BY <2>2, <3>1
    <3> HIDE DEF f, n
    <3> QED BY <2>1, <3>2
  <2>5. ASSUME NEW e \in F PROVE \E d \in E : f[d] = e
    <3>1. e \in Entry /\ Tells(w, r, t, e)
      BY <2>1
    <3>2. e.at \in Nat /\ e.kind \in Kinds /\ e = [at |-> e.at, kind |-> e.kind]
      BY <3>1 DEF Entry
    <3> DEFINE p == IF e.at <= n THEN e.at ELSE e.at + 1
               d == [at |-> p, kind |-> e.kind]
    <3>3. p \in Nat /\ d \in Entry /\ d.at = p /\ d.kind = e.kind
      BY <3>2 DEF Entry
    <3>4. Tells(w, q, t, d)
      <4>1. CASE e.at <= n
        <5>1. e.at - n \notin 1..Len(r) /\ p = e.at
          BY <2>1, <3>2, <4>1
        <5> QED BY <3>1, <3>3, <5>1 DEF Tells
      <4>2. CASE ~(e.at <= n)
        <5> DEFINE i == e.at - n
        <5>1. e.at \notin 1..n /\ i \in Int /\ p - n = i + 1 /\ i > 0
          BY <2>1, <3>2, <4>2
        <5>2. i \in 1..Len(r) /\ r[i].of = t /\ e.kind = r[i].kind
          BY <3>1, <5>1 DEF Tells
        <5> HIDE DEF i, p
        <5>3. i + 1 \in 1..Len(q) /\ r[i] = q[i + 1]
          BY <1>2, <2>1, <5>1, <5>2
        <5> HIDE DEF d
        <5>4. d.at - n = i + 1
          BY <3>3, <5>1
        <5> QED BY <3>3, <5>2, <5>3, <5>4 DEF Tells
      <4> QED BY <4>1, <4>2
    <3>5. Place(d) = e.at
      <4> HIDE DEF n
      <4> QED BY <2>1, <3>2, <3>3
    <3>6. d \in E
      BY <2>1, <3>3, <3>4
    <3> HIDE DEF d, p
    <3>7. f[d] = e
      BY <3>2, <3>3, <3>5, <3>6
    <3> QED BY <3>6, <3>7
  <2> HIDE DEF f
  <2> QED BY <2>3, <2>4, <2>5 DEF Moved
<1> QED BY <1>7, <1>9, <1>10

(***************************************************************************)
(* The invariant: what the counters of one session say at each step of its *)
(* loop, which begins when its client is accepted, and what its log tells. *)
(***************************************************************************)

Counts(s) ==
    /\ client[s] \in {"away", "waiting"} => pc[s] = "none"
    /\ pc[s] \in {"none", "started", "reading"} => answered[s] = taken[s]
    /\ pc[s] \in {"handling", "writing"} => taken[s] = answered[s] + 1
    /\ pc[s] = "closed" /\ answered[s] # taken[s] =>
          taken[s] = answered[s] + 1 /\ "report" \in Told(s)

Story(s) == Complete(Entries(s), pc[s])

IInv == TypeOK /\ \A s \in Sessions : Counts(s) /\ Story(s)

LEMMA TypeInit == Init => IInv
<1> SUFFICES ASSUME Init PROVE IInv
  OBVIOUS
<1>1. ServerType
  BY DEF Init, ServerType
<1>2. SessionType
  BY DEF Init, SessionType, Places
<1>3. CountType /\ failures \in 0..MaxFailures
  BY HttpServerAssumption DEF Init, CountType
<1>4. LogType
  BY HttpServerAssumption DEF Init, LogType
<1>5. \A s \in Sessions : Counts(s)
  BY DEF Init, Counts
<1>6. ASSUME NEW s \in Sessions PROVE Story(s)
  <2>1. Entries(s) = {}
    BY DEF Init, Entries
  <2>2. pc[s] = "none"
    BY DEF Init
  <2> QED BY <2>1, <2>2 DEF Story, Complete
<1> QED BY <1>1, <1>2, <1>3, <1>4, <1>5, <1>6, TypeParts DEF IInv

LEMMA CompletePlace ==
    ASSUME NEW log, NEW p, NEW q, p \notin {"none", "closed"}, q \notin {"none", "closed"},
           Complete(log, p)
    PROVE  Complete(log, q)
BY DEF Complete

(***************************************************************************)
(* The steps of the sessions.                                              *)
(***************************************************************************)

\* The failures are counted, and what is posted is about s.
Reports(s) ==
    /\ LogType' /\ failures' \in 0..MaxFailures
    /\ \A t \in Sessions : t # s => Entries(t)' = Entries(t)

LEMMA NoReport ==
    ASSUME LogType, failures \in 0..MaxFailures, UNCHANGED <<logVars, failures>>
    PROVE  /\ LogType' /\ failures' \in 0..MaxFailures
           /\ \A t \in Sessions : Entries(t)' = Entries(t)
BY DEF LogType, logVars, Entries

LEMMA OneReport ==
    ASSUME LogType, failures \in 0..MaxFailures, NEW s \in Sessions, NEW k \in Kinds,
           Post(s, <<k>>), UNCHANGED failures \/ Fails
    PROVE  Reports(s) /\ More(Entries(s), Entries(s)', k)
<1> DEFINE kinds == <<k>>
<1>1. kinds \in Seq(Kinds) /\ Len(kinds) = 1 /\ kinds[1] = k
  OBVIOUS
<1>2. failures' \in 0..MaxFailures
  BY HttpServerAssumption DEF Fails
<1>3. Post(s, kinds)
  OBVIOUS
<1> HIDE DEF kinds
<1>4. PICK up : /\ up[0] = Entries(s) /\ up[Len(kinds)] = Entries(s)'
                /\ \A j \in 1..Len(kinds) : More(up[j - 1], up[j], kinds[j])
  BY <1>1, <1>3, PostTells
<1>5. up[1] = Entries(s)' /\ More(up[1 - 1], up[1], kinds[1])
  BY <1>1, <1>4
<1>6. 1 - 1 = 0
  OBVIOUS
<1>7. More(Entries(s), Entries(s)', k)
  BY <1>1, <1>4, <1>5, <1>6, Zenon
<1> QED BY <1>1, <1>2, <1>3, <1>7, PostTells DEF Reports

LEMMA PairSequence == ASSUME NEW S, NEW a \in S, NEW b \in S
                      PROVE  /\ <<a, b>> \in Seq(S) /\ Len(<<a, b>>) = 2
                             /\ <<a, b>>[1] = a /\ <<a, b>>[2] = b
OBVIOUS

LEMMA OneSequence == ASSUME NEW S, NEW a \in S
                     PROVE  /\ <<a>> \in Seq(S) /\ Len(<<a>>) = 1 /\ <<a>>[1] = a
OBVIOUS

LEMMA AddReport ==
    ASSUME NEW log \in SUBSET Entry, NEW new, NEW p, p \notin {"none", "closed"},
           Complete(log, p), More(log, new, "report")
    PROVE  /\ new \in SUBSET Entry /\ Complete(new, p)
           /\ \E e \in new : e.kind = "report"
<1> DEFINE k == "report"
<1>1. More(log, new, k)
  OBVIOUS
<1> HIDE DEF k
<1>2. /\ new \in SUBSET Entry
      /\ \E e \in new : e.kind = k
      /\ k = "report" => Complete(new, p)
  BY <1>1, CompleteMore
<1> QED BY <1>2 DEF k

LEMMA AddTimeout ==
    ASSUME NEW log \in SUBSET Entry, NEW new, NEW p, p \notin {"none", "closed"},
           Complete(log, p), More(log, new, "timed out")
    PROVE  log \subseteq new /\ Complete(new, "closed")
<1> DEFINE k == "timed out"
<1>1. More(log, new, k)
  OBVIOUS
<1> HIDE DEF k
<1>2. log \subseteq new /\ (k = "timed out" => Complete(new, "closed"))
  BY <1>1, CompleteMore
<1> QED BY <1>2 DEF k

LEMMA AddClosing ==
    ASSUME NEW log \in SUBSET Entry, NEW new, NEW p, p \notin {"none", "closed"},
           Complete(log, p), More(log, new, "closing")
    PROVE  /\ new \in SUBSET Entry /\ log \subseteq new
           /\ Complete(new, "closed") /\ EndLast(new)
<1> DEFINE k == "closing"
<1>1. More(log, new, k)
  OBVIOUS
<1> HIDE DEF k
<1>2. /\ new \in SUBSET Entry /\ log \subseteq new
      /\ k = "closing" => Complete(new, "closed") /\ EndLast(new)
  BY <1>1, CompleteMore
<1> QED BY <1>2 DEF k

LEMMA AddShutdown ==
    ASSUME NEW log \in SUBSET Entry, NEW new,
           Complete(log, "closed"), EndLast(log), More(log, new, "report")
    PROVE  log \subseteq new /\ Complete(new, "closed")
<1> DEFINE k == "report"
           p == "closed"
<1>1. More(log, new, k) /\ Complete(log, p)
  OBVIOUS
<1> HIDE DEF k, p
<1>2. /\ log \subseteq new
      /\ p = "closed" /\ k = "report" => Complete(new, "closed")
  BY <1>1, CompleteMore
<1> QED BY <1>2 DEF k, p

LEMMA FirstRecord ==
    ASSUME NEW log \in SUBSET Entry, NEW new, NEW k \in {"connected", "report"},
           Complete(log, "none"), More(log, new, k)
    PROVE  Complete(new, "started")
<1> DEFINE p == "none"
<1>1. Complete(log, p)
  OBVIOUS
<1> HIDE DEF p
<1>2. p = "none" => Complete(new, "started")
  BY <1>1, CompleteMore
<1> QED BY <1>2 DEF p

LEMMA OneKindMore ==
    ASSUME NEW kinds \in Seq(Kinds), NEW n \in Nat, Len(kinds) = n, NEW k \in Kinds
    PROVE  \E q \in Seq(Kinds) :
              /\ q = Append(kinds, k) /\ Len(q) = n + 1 /\ q[n + 1] = k
              /\ n = 1 => q[1] = kinds[1]
<1> DEFINE q == Append(kinds, k)
<1>1. /\ q \in Seq(Kinds) /\ Len(q) = n + 1 /\ \A i \in 1..n : q[i] = kinds[i]
      /\ q[n + 1] = k
  BY AppendProperties
<1>2. q = Append(kinds, k)
  OBVIOUS
<1> HIDE DEF q
<1> QED BY <1>1, <1>2

TwoMore(kinds, n, a, b, q) ==
    /\ q = kinds \o <<a, b>> /\ Len(q) = n + 2 /\ q[n + 1] = a /\ q[n + 2] = b
    /\ n = 1 => q[1] = kinds[1]

LEMMA TwoKindsMore ==
    ASSUME NEW kinds \in Seq(Kinds), NEW n \in Nat, Len(kinds) = n,
           NEW a \in Kinds, NEW b \in Kinds
    PROVE  \E q \in Seq(Kinds) : TwoMore(kinds, n, a, b, q)
<1> DEFINE c == <<a, b>>
           q == kinds \o c
<1>1. c \in Seq(Kinds) /\ Len(c) = 2 /\ c[1] = a /\ c[2] = b
  BY PairSequence
<1>2. q = kinds \o <<a, b>>
  OBVIOUS
<1> HIDE DEF c
<1>3. /\ q \in Seq(Kinds) /\ Len(q) = Len(kinds) + Len(c)
      /\ \A i \in 1..(Len(kinds) + Len(c)) :
            q[i] = IF i <= Len(kinds) THEN kinds[i] ELSE c[i - Len(kinds)]
  BY <1>1, ConcatProperties, Zenon
<1> HIDE DEF q
<1>4. Len(q) = n + 2 /\ q[n + 1] = a /\ q[n + 2] = b
  BY <1>1, <1>3
<1>5. n = 1 => q[1] = kinds[1]
  BY <1>1, <1>3
<1> QED BY <1>2, <1>3, <1>4, <1>5 DEF TwoMore

\* The log of a session after its loop.
LEMMA FinishPosts ==
    ASSUME LogType, NEW s \in Sessions, NEW kinds \in {<<>>, <<"report">>}, NEW ec,
           Finish(s, kinds, ec)
    PROVE  /\ LogType' /\ \A t \in Sessions : t # s => Entries(t)' = Entries(t)
           /\ \E mid :
                 /\ \/ kinds = <<>> /\ mid = Entries(s)
                    \/ kinds = <<"report">> /\ More(Entries(s), mid, "report")
                 /\ \/ More(mid, Entries(s)', "timed out")
                    \/ More(mid, Entries(s)', "closing")
                    \/ \E end : More(mid, end, "closing") /\ More(end, Entries(s)', "report")
<1> DEFINE n == Len(kinds)
<1>1. "report" \in Kinds /\ "closing" \in Kinds /\ "timed out" \in Kinds
  BY DEF Kinds, Ends
<1>2. /\ kinds \in Seq(Kinds) /\ n \in {0, 1}
      /\ n = 0 => kinds = <<>>
      /\ n = 1 => kinds = <<"report">> /\ kinds[1] = "report"
  <2>1. CASE kinds = <<>>
    <3>1. <<>> \in Seq(Kinds) /\ Len(<<>>) = 0 /\ 0 # 1
      OBVIOUS
    <3> QED BY <2>1, <3>1, Zenon
  <2>2. CASE kinds = <<"report">>
    <3>1. 0 # 1
      OBVIOUS
    <3> QED BY <1>1, <2>2, <3>1, OneSequence, Zenon
  <2> QED BY <2>1, <2>2
<1>3. Len(kinds) = n /\ n \in Nat /\ kinds \in Seq(Kinds)
  BY <1>2
<1> HIDE DEF n
<1>4. PICK q \in Seq(Kinds) :
          /\ Post(s, q)
          /\ n = 1 => q[1] = "report"
          /\ \/ Len(q) = n + 1 /\ q[n + 1] \in {"timed out", "closing"}
             \/ Len(q) = n + 2 /\ q[n + 1] = "closing" /\ q[n + 2] = "report"
  <2>1. \/ \E k \in {"timed out", "closing"} : Post(s, Append(kinds, k))
        \/ Post(s, kinds \o <<"closing", "report">>)
    BY Zenon DEF Finish
  <2>2. ASSUME NEW k \in {"timed out", "closing"}, Post(s, Append(kinds, k))
        PROVE  \E q \in Seq(Kinds) :
                  /\ Post(s, q) /\ (n = 1 => q[1] = "report")
                  /\ Len(q) = n + 1 /\ q[n + 1] \in {"timed out", "closing"}
    <3>1. k \in Kinds
      BY <1>1
    <3>2. PICK q \in Seq(Kinds) :
              /\ q = Append(kinds, k) /\ Len(q) = n + 1 /\ q[n + 1] = k
              /\ n = 1 => q[1] = kinds[1]
      BY ONLY <1>3, <3>1, OneKindMore
    <3> QED BY <1>2, <2>2, <3>2, Zenon
  <2>3. ASSUME Post(s, kinds \o <<"closing", "report">>)
        PROVE  \E q \in Seq(Kinds) :
                  /\ Post(s, q) /\ (n = 1 => q[1] = "report")
                  /\ Len(q) = n + 2 /\ q[n + 1] = "closing" /\ q[n + 2] = "report"
    <3> DEFINE a == "closing"
               b == "report"
    <3>1. a \in Kinds /\ b \in Kinds
      BY <1>1
    <3>2. Post(s, kinds \o <<a, b>>)
      BY <2>3
    <3> HIDE DEF a, b
    <3>3. PICK q \in Seq(Kinds) : TwoMore(kinds, n, a, b, q)
      BY ONLY <1>3, <3>1, TwoKindsMore
    <3> QED BY <1>2, <3>2, <3>3, Zenon DEF TwoMore, a, b
  <2> QED BY <2>1, <2>2, <2>3, Zenon
<1>5. PICK up : /\ up[0] = Entries(s) /\ up[Len(q)] = Entries(s)'
                /\ \A j \in 1..Len(q) : More(up[j - 1], up[j], q[j])
  BY <1>4, PostTells
<1>6. \/ kinds = <<>> /\ up[n] = Entries(s)
      \/ kinds = <<"report">> /\ More(Entries(s), up[n], "report")
  <2>1. CASE n = 0
    BY <1>2, <1>5, <2>1, Zenon
  <2>2. CASE n = 1
    <3>1. 1 \in 1..Len(q) /\ 1 - 1 = 0
      <4>1. Len(q) = n + 1 \/ Len(q) = n + 2
        BY <1>4, Zenon
      <4> QED BY ONLY <2>2, <4>1
    <3>2. More(up[1 - 1], up[1], q[1])
      BY <1>5, <3>1
    <3> QED BY <1>2, <1>4, <1>5, <2>2, <3>1, <3>2, Zenon
  <2> QED BY <1>2, <2>1, <2>2
<1>7. n + 1 \in 1..Len(q) /\ More(up[n], up[n + 1], q[n + 1])
  <2>1. n + 1 \in 1..Len(q) /\ (n + 1) - 1 = n
    <3>1. Len(q) = n + 1 \/ Len(q) = n + 2
      BY <1>4, Zenon
    <3> QED BY ONLY <1>3, <3>1
  <2>2. More(up[(n + 1) - 1], up[n + 1], q[n + 1])
    BY <1>5, <2>1
  <2> QED BY <2>1, <2>2, Zenon
<1>8. Len(q) = n + 2 => More(up[n + 1], up[n + 2], q[n + 2])
  <2> SUFFICES ASSUME Len(q) = n + 2 PROVE More(up[n + 1], up[n + 2], q[n + 2])
    OBVIOUS
  <2>1. n + 2 \in 1..Len(q) /\ (n + 2) - 1 = n + 1
    BY <1>2
  <2>2. More(up[(n + 2) - 1], up[n + 2], q[n + 2])
    BY <1>5, <2>1
  <2> QED BY <2>1, <2>2, Zenon
<1>9. \/ More(up[n], Entries(s)', "timed out")
      \/ More(up[n], Entries(s)', "closing")
      \/ \E end : More(up[n], end, "closing") /\ More(end, Entries(s)', "report")
  BY <1>4, <1>5, <1>7, <1>8, Zenon
<1> QED BY <1>4, <1>6, <1>9, PostTells

\* After the loop: the records made on the way and that of the end are told.
LEMMA FinishTells ==
    ASSUME LogType, SessionType, failures \in 0..MaxFailures,
           NEW s \in Sessions, NEW kinds \in {<<>>, <<"report">>}, NEW ec,
           Finish(s, kinds, ec), pc[s] \notin {"none", "closed"}, Story(s)
    PROVE  /\ SessionType' /\ Reports(s)
           /\ pc' = [pc EXCEPT ![s] = "closed"]
           /\ client' = [client EXCEPT ![s] = "gone"]
           /\ Complete(Entries(s)', "closed")
           /\ kinds = <<"report">> => "report" \in Told(s)'
<1>1. Entries(s) \in SUBSET Entry
  BY EntryIs DEF EntriesAreTold
<1>2. PICK mid :
         /\ \/ kinds = <<>> /\ mid = Entries(s)
            \/ kinds = <<"report">> /\ More(Entries(s), mid, "report")
         /\ \/ More(mid, Entries(s)', "timed out")
            \/ More(mid, Entries(s)', "closing")
            \/ \E end : More(mid, end, "closing") /\ More(end, Entries(s)', "report")
  BY FinishPosts
<1>3. /\ mid \in SUBSET Entry /\ Complete(mid, pc[s])
      /\ kinds = <<"report">> => \E e \in mid : e.kind = "report"
  <2>1. Complete(Entries(s), pc[s])
    BY DEF Story
  <2>2. CASE kinds = <<>> /\ mid = Entries(s)
    <3>1. <<>> # <<"report">>
      OBVIOUS
    <3> QED BY <1>1, <2>1, <2>2, <3>1, Zenon
  <2>3. CASE More(Entries(s), mid, "report")
    BY <1>1, <2>1, <2>3, AddReport
  <2> QED BY <1>2, <2>2, <2>3
<1>4. /\ mid \subseteq Entries(s)' /\ Complete(Entries(s)', "closed")
  <2>1. CASE More(mid, Entries(s)', "timed out")
    BY <1>3, <2>1, AddTimeout
  <2>2. CASE More(mid, Entries(s)', "closing")
    BY <1>3, <2>2, AddClosing
  <2>3. CASE \E end : More(mid, end, "closing") /\ More(end, Entries(s)', "report")
    <3>1. PICK end : More(mid, end, "closing") /\ More(end, Entries(s)', "report")
      BY <2>3
    <3>2. /\ end \in SUBSET Entry /\ mid \subseteq end
          /\ Complete(end, "closed") /\ EndLast(end)
      BY <1>3, <3>1, AddClosing
    <3>3. end \subseteq Entries(s)' /\ Complete(Entries(s)', "closed")
      BY <3>1, <3>2, AddShutdown
    <3> QED BY <3>2, <3>3
  <2> QED BY <1>2, <2>1, <2>2, <2>3
<1>5. kinds = <<"report">> => "report" \in Told(s)'
  BY <1>3, <1>4 DEF Told
<1>6. pc' = [pc EXCEPT ![s] = "closed"] /\ client' = [client EXCEPT ![s] = "gone"]
  BY DEF Finish
<1>7. SessionType'
  <2>1. /\ close' = [close EXCEPT ![s] = FALSE]
        /\ deadline' = [deadline EXCEPT ![s] = "never"]
    BY DEF Finish
  <2>2. "closed" \in Places
    BY DEF Places
  <2> QED BY <1>6, <2>1, <2>2 DEF SessionType
<1>8. Reports(s)
  <2>1. failures' = failures \/ (failures < MaxFailures /\ failures' = failures + 1)
    BY Zenon DEF Finish, Fails
  <2>2. failures' \in 0..MaxFailures
    BY <2>1, HttpServerAssumption
  <2> QED BY <2>2, FinishPosts DEF Reports
<1> QED BY <1>4, <1>5, <1>6, <1>7, <1>8

\* The step of another session.
LEMMA OthersStand ==
    ASSUME NEW t \in Sessions, Counts(t), Story(t), Entries(t)' = Entries(t),
           pc'[t] = pc[t], taken'[t] = taken[t], answered'[t] = answered[t],
           client'[t] = client[t]
    PROVE  Counts(t)' /\ Story(t)'
BY DEF Counts, Story, Told

\* What the step of one session must do for the invariant.
SafeStep(s) ==
    /\ SessionType' /\ CountType' /\ Reports(s) /\ Counts(s)' /\ Story(s)'
    /\ \A t \in Sessions \ {s} :
          /\ pc'[t] = pc[t] /\ taken'[t] = taken[t] /\ answered'[t] = answered[t]
          /\ client'[t] = client[t]

LEMMA SessionSteps ==
    ASSUME SessionType, CountType, LogType, failures \in 0..MaxFailures,
           NEW s \in Sessions, Counts(s), Story(s),
           Accept(s) \/ ReadRequest(s) \/ SessionStep(s)
    PROVE  SafeStep(s)
<1> USE DEF Places
<1>0. Entries(s) \in SUBSET Entry /\ Complete(Entries(s), pc[s])
  BY EntryIs DEF EntriesAreTold, Story
<1>1. CASE Accept(s)
  <2>1. PICK k \in {"connected", "report"} : Post(s, <<k>>) /\ (UNCHANGED failures \/ Fails)
    BY <1>1, Zenon DEF Accept
  <2>2. Reports(s) /\ More(Entries(s), Entries(s)', k)
    <3>1. k \in Kinds
      BY DEF Kinds
    <3> QED BY <2>1, <3>1, OneReport
  <2>3. SessionType' /\ CountType' /\ taken' = taken /\ answered' = answered
    BY <1>1 DEF Accept, SessionType, CountType
  <2>4. /\ pc' = [pc EXCEPT ![s] = "started"] /\ client' = [client EXCEPT ![s] = "connected"]
        /\ answered[s] = taken[s] /\ pc[s] = "none"
    BY <1>1 DEF Accept, Counts
  <2>5. Complete(Entries(s)', "started")
    BY <1>0, <2>2, <2>4, FirstRecord
  <2>6. Story(s)'
    BY <2>4, <2>5 DEF Story, SessionType
  <2> QED BY <2>2, <2>3, <2>4, <2>6 DEF SafeStep, Counts, SessionType
<1>2. CASE Start(s)
  <2>1. Reports(s) /\ Entries(s)' = Entries(s)
    BY <1>2, NoReport DEF Start, Reports
  <2>2. /\ SessionType' /\ CountType' /\ taken' = taken /\ answered' = answered
        /\ pc[s] = "started" /\ pc' = [pc EXCEPT ![s] = "reading"] /\ client' = client
    BY <1>2 DEF Start, ReadNext, SessionType, CountType
  <2>3. Story(s)'
    BY <1>0, <2>1, <2>2, CompletePlace DEF Story, SessionType
  <2> QED BY <2>1, <2>2, <2>3 DEF SafeStep, Counts, SessionType
<1>3. CASE ReadFails(s)
  <2>1. /\ pc[s] = "reading" /\ taken' = taken /\ answered' = answered
        /\ \E ec \in {"timeout", "error"} : Finish(s, <<"report">>, ec)
    BY <1>3 DEF ReadFails
  <2>2. /\ SessionType' /\ Reports(s) /\ pc' = [pc EXCEPT ![s] = "closed"]
        /\ client' = [client EXCEPT ![s] = "gone"]
        /\ Complete(Entries(s)', "closed")
    BY <2>1, FinishTells
  <2>3. CountType'
    BY <2>1 DEF CountType
  <2>4. Story(s)'
    BY <2>2 DEF Story, SessionType
  <2> QED BY <2>1, <2>2, <2>3, <2>4 DEF SafeStep, Counts, SessionType
<1>4. CASE ReadRequest(s)
  <2>1. Reports(s) /\ Entries(s)' = Entries(s)
    BY <1>4, NoReport DEF ReadRequest, Reports
  <2>2. /\ pc[s] = "reading" /\ answered' = answered /\ taken[s] < MaxRequests
        /\ client' = client
        /\ taken' = [taken EXCEPT ![s] = @ + 1]
        /\ \E l \in {"handling", "writing"} : pc' = [pc EXCEPT ![s] = l]
    BY <1>4 DEF ReadRequest
  <2>3. SessionType'
    BY <1>4, <2>2 DEF ReadRequest, SessionType, Requests
  <2>4. CountType'
    BY <2>2, HttpServerAssumption DEF CountType
  <2>5. Counts(s)'
    BY <2>2 DEF Counts, CountType, SessionType
  <2>6. Story(s)'
    <3>1. pc[s] \notin {"none", "closed"} /\ pc'[s] \notin {"none", "closed"}
      BY <2>2 DEF SessionType
    <3> QED BY <1>0, <2>1, <3>1, CompletePlace DEF Story
  <2> QED BY <2>1, <2>2, <2>3, <2>4, <2>5, <2>6 DEF SafeStep, SessionType, CountType
<1>5. CASE HandleRequest(s)
  <2>1. /\ pc[s] = "handling" /\ pc' = [pc EXCEPT ![s] = "writing"]
        /\ UNCHANGED <<close, deadline, taken, answered, client>>
        /\ UNCHANGED <<logVars, failures>> \/ (Post(s, <<"report">>) /\ Fails)
    BY <1>5 DEF HandleRequest
  <2>2. pc[s] \notin {"none", "closed"} /\ pc'[s] \notin {"none", "closed"} /\ pc'[s] = "writing"
    BY <2>1 DEF SessionType
  <2>3. Reports(s) /\ Story(s)'
    <3>1. CASE UNCHANGED <<logVars, failures>>
      <4>1. Reports(s) /\ Entries(s)' = Entries(s)
        BY <3>1, NoReport DEF Reports
      <4> QED BY <1>0, <2>2, <4>1, CompletePlace DEF Story
    <3>2. CASE Post(s, <<"report">>) /\ Fails
      <4>1. "report" \in Kinds
        BY DEF Kinds
      <4>2. Reports(s) /\ More(Entries(s), Entries(s)', "report")
        BY <3>2, <4>1, OneReport
      <4>3. Complete(Entries(s)', pc[s])
        BY <1>0, <2>2, <4>2, AddReport
      <4> QED BY <2>2, <4>2, <4>3, CompletePlace DEF Story
    <3> QED BY <2>1, <3>1, <3>2
  <2>4. SessionType' /\ CountType'
    BY <2>1 DEF SessionType, CountType
  <2> QED BY <2>1, <2>3, <2>4 DEF SafeStep, Counts, SessionType
<1>6. CASE ResponseWritten(s)
  <2>1. /\ pc[s] = "writing" /\ taken' = taken
        /\ answered' = [answered EXCEPT ![s] = @ + 1]
        /\ \/ Finish(s, <<>>, "none")
           \/ ReadNext(s) /\ UNCHANGED <<logVars, client, failures>>
    BY <1>6 DEF ResponseWritten
  <2>2. taken[s] = answered[s] + 1
    BY <2>1 DEF Counts
  <2>3. /\ SessionType' /\ Reports(s) /\ client' \in {client, [client EXCEPT ![s] = "gone"]}
        /\ \E l \in {"closed", "reading"} : pc' = [pc EXCEPT ![s] = l]
        /\ Story(s)'
    <3>1. CASE Finish(s, <<>>, "none")
      <4>1. /\ SessionType' /\ Reports(s) /\ pc' = [pc EXCEPT ![s] = "closed"]
            /\ client' = [client EXCEPT ![s] = "gone"]
            /\ Complete(Entries(s)', "closed")
        BY <2>1, <3>1, FinishTells
      <4>2. Story(s)'
        BY <4>1 DEF Story, SessionType
      <4> QED BY <4>1, <4>2
    <3>2. CASE ReadNext(s) /\ UNCHANGED <<logVars, client, failures>>
      <4>1. Reports(s) /\ Entries(s)' = Entries(s)
        BY <3>2, NoReport DEF Reports
      <4>2. pc' = [pc EXCEPT ![s] = "reading"]
        BY <3>2 DEF ReadNext
      <4>3. Story(s)'
        BY <1>0, <2>1, <4>1, <4>2, CompletePlace DEF Story, SessionType
      <4> QED BY <3>2, <4>1, <4>3 DEF ReadNext, SessionType
    <3> QED BY <2>1, <3>1, <3>2
  <2>4. CountType'
    BY <2>1, <2>2, HttpServerAssumption DEF CountType
  <2>5. answered'[s] = taken'[s]
    BY <2>1, <2>2 DEF CountType
  <2>6. Counts(s)'
    BY <2>1, <2>3, <2>5 DEF Counts, SessionType
  <2> QED BY <2>1, <2>3, <2>4, <2>6 DEF SafeStep, SessionType, CountType
<1>7. CASE WriteFails(s)
  <2>1. /\ pc[s] = "writing" /\ taken' = taken /\ answered' = answered
        /\ \E ec \in {"timeout", "error"} : Finish(s, <<"report">>, ec)
    BY <1>7 DEF WriteFails
  <2>2. /\ SessionType' /\ Reports(s) /\ pc' = [pc EXCEPT ![s] = "closed"]
        /\ client' = [client EXCEPT ![s] = "gone"]
        /\ "report" \in Told(s)' /\ Complete(Entries(s)', "closed")
    BY <2>1, FinishTells
  <2>3. CountType'
    BY <2>1 DEF CountType
  <2>4. Counts(s)'
    BY <2>1, <2>2 DEF Counts, SessionType
  <2>5. Story(s)'
    BY <2>2 DEF Story, SessionType
  <2> QED BY <2>1, <2>2, <2>3, <2>4, <2>5 DEF SafeStep, SessionType
<1>8. CASE HandleCrashes(s)
  <2>1. Reports(s) /\ Entries(s)' = Entries(s)
    <3>1. UNCHANGED logVars /\ failures' \in 0..MaxFailures
      BY <1>8, HttpServerAssumption DEF HandleCrashes, Fails
    <3>2. log_strand' = log_strand /\ written' = written
      BY <3>1 DEF logVars
    <3>3. LogType' /\ \A t \in Sessions : Entries(t)' = Entries(t)
      BY <3>2 DEF LogType, Entries
    <3> QED BY <3>1, <3>3 DEF Reports
  <2>2. /\ pc' = pc /\ taken' = taken /\ answered' = answered /\ client' = client
        /\ close' = close /\ deadline' = deadline
    BY <1>8 DEF HandleCrashes, sessionVars
  <2>3. SessionType' /\ CountType' /\ Counts(s)'
    <3>1. SessionType' /\ CountType'
      BY <2>2 DEF SessionType, CountType
    <3>2. pc[s] = "handling"
      BY <1>8 DEF HandleCrashes
    <3> QED BY <2>2, <3>1, <3>2 DEF Counts
  <2>4. Story(s)'
    BY <1>0, <2>1, <2>2 DEF Story
  <2> QED BY <2>1, <2>2, <2>3, <2>4 DEF SafeStep
<1> QED BY <1>1, <1>2, <1>3, <1>4, <1>5, <1>6, <1>7, <1>8 DEF SessionStep

(***************************************************************************)
(* The other steps leave the sessions where they are.                      *)
(***************************************************************************)

\* A session of which no record is posted.
LEMMA Stays ==
    ASSUME LogType, LogType', NEW t \in Sessions, Counts(t), Story(t),
           Moved(Entries(t), Entries(t)'),
           pc'[t] = pc[t], taken'[t] = taken[t], answered'[t] = answered[t],
           client'[t] \in {"away", "waiting"} => client[t] \in {"away", "waiting"}
    PROVE  Counts(t)' /\ Story(t)'
<1>1. EntriesAreTold /\ EntriesAreTold'
  BY EntryIs, PTL
<1>2. Entries(t) \in SUBSET Entry /\ Entries(t)' \in SUBSET Entry
  BY <1>1 DEF EntriesAreTold
<1>3. /\ Complete(Entries(t)', pc[t])
      /\ \A e \in Entries(t) : \E d \in Entries(t)' : d.kind = e.kind
  BY <1>2, CompleteMoved DEF Story
<1>4. Told(t) \subseteq Told(t)'
  BY <1>3 DEF Told
<1> QED BY <1>3, <1>4 DEF Counts, Story

LEMMA OtherSteps ==
    ASSUME SessionType, CountType, LogType, failures \in 0..MaxFailures,
           \/ run \/ AcceptFails \/ DatabaseStrands \/ WriteRecord \/ UNCHANGED vars
           \/ \E s \in Sessions : ClientConnects(s) \/ ClientGoes(s) \/ Expire(s)
    PROVE  /\ SessionType' /\ CountType' /\ LogType' /\ failures' \in 0..MaxFailures
           /\ pc' = pc /\ taken' = taken /\ answered' = answered
           /\ \A t \in Sessions : /\ Moved(Entries(t), Entries(t)')
                                  /\ client'[t] \in {"away", "waiting"}
                                     => client[t] \in {"away", "waiting"}
<1>1. CASE run \/ AcceptFails \/ DatabaseStrands \/ UNCHANGED vars
  <2>1. UNCHANGED <<sessionVars, client, logVars>>
    BY <1>1 DEF run, AcceptFails, DatabaseStrands, vars
  <2>2. failures' \in 0..MaxFailures
    BY <1>1, HttpServerAssumption DEF run, AcceptFails, DatabaseStrands, vars, Fails
  <2>3. LogType' /\ \A t \in Sessions : Entries(t)' = Entries(t)
    BY <2>1 DEF logVars, LogType, Entries
  <2> QED BY <2>1, <2>2, <2>3, StayMoved DEF sessionVars, SessionType, CountType
<1>2. CASE WriteRecord
  <2>1. UNCHANGED <<sessionVars, client, failures>>
    BY <1>2 DEF WriteRecord
  <2> QED BY <1>2, <2>1, WriteTells DEF sessionVars, SessionType, CountType
<1>3. ASSUME NEW s \in Sessions, ClientConnects(s) \/ ClientGoes(s) \/ Expire(s)
      PROVE  /\ SessionType' /\ CountType' /\ LogType' /\ failures' \in 0..MaxFailures
             /\ pc' = pc /\ taken' = taken /\ answered' = answered
             /\ \A t \in Sessions : /\ Moved(Entries(t), Entries(t)')
                                    /\ client'[t] \in {"away", "waiting"}
                                       => client[t] \in {"away", "waiting"}
  <2>1. LogType' /\ failures' \in 0..MaxFailures /\ \A t \in Sessions : Entries(t)' = Entries(t)
    BY <1>3, NoReport DEF ClientConnects, ClientGoes, Expire
  <2>2. UNCHANGED <<pc, close, taken, answered>>
    BY <1>3 DEF ClientConnects, ClientGoes, Expire, sessionVars
  <2>3. /\ deadline' \in [Sessions -> {"never", "armed", "expired"}]
        /\ client' \in [Sessions -> {"away", "waiting", "connected", "gone"}]
        /\ \A t \in Sessions : client'[t] \in {"away", "waiting"}
                               => client[t] \in {"away", "waiting"}
    BY <1>3 DEF ClientConnects, ClientGoes, Expire, sessionVars, SessionType
  <2> QED BY <2>1, <2>2, <2>3, StayMoved DEF SessionType, CountType
<1> QED BY <1>1, <1>2, <1>3

LEMMA ServerStep == ServerType /\ [Next]_vars => ServerType'
<1> SUFFICES ASSUME ServerType, [Next]_vars PROVE ServerType'
  OBVIOUS
<1>1. CASE run
  BY <1>1 DEF run, ServerType
<1>2. CASE DatabaseStrands
  BY <1>2 DEF DatabaseStrands, ServerType, serverVars
<1>3. ASSUME UNCHANGED <<serverVars, stranded>> PROVE ServerType'
  BY <1>3 DEF ServerType, serverVars
<1>4. CASE AcceptFails \/ WriteRecord \/ UNCHANGED vars
  BY <1>3, <1>4 DEF AcceptFails, WriteRecord, vars
<1>5. ASSUME NEW s \in Sessions, ClientConnects(s) \/ ClientGoes(s) \/ Expire(s) \/ Accept(s)
      PROVE  ServerType'
  BY <1>3, <1>5 DEF ClientConnects, ClientGoes, Expire, Accept
<1>6. ASSUME NEW s \in Sessions, ReadRequest(s) \/ SessionStep(s) PROVE ServerType'
  <2>1. CASE HandleCrashes(s)
    BY <2>1 DEF HandleCrashes, ServerType
  <2>2. CASE ~HandleCrashes(s)
    BY <1>3, <1>6, <2>2 DEF ReadRequest, SessionStep, Start, ReadFails, HandleRequest,
                            ResponseWritten, WriteFails
  <2> QED BY <2>1, <2>2
<1> QED BY <1>1, <1>2, <1>4, <1>5, <1>6 DEF Next

LEMMA InvStep == IInv /\ [Next]_vars => IInv'
<1> SUFFICES ASSUME IInv, [Next]_vars PROVE IInv'
  OBVIOUS
<1>1. /\ ServerType /\ SessionType /\ CountType /\ LogType /\ failures \in 0..MaxFailures
      /\ \A s \in Sessions : Counts(s) /\ Story(s)
  BY TypeParts DEF IInv
<1>2. /\ SessionType' /\ CountType' /\ LogType' /\ failures' \in 0..MaxFailures
      /\ \A s \in Sessions : Counts(s)' /\ Story(s)'
  <2>1. ASSUME NEW s \in Sessions, Accept(s) \/ ReadRequest(s) \/ SessionStep(s)
        PROVE  /\ SessionType' /\ CountType' /\ LogType' /\ failures' \in 0..MaxFailures
               /\ \A t \in Sessions : Counts(t)' /\ Story(t)'
    <3>1. SafeStep(s)
      BY <1>1, <2>1, SessionSteps
    <3>2. ASSUME NEW t \in Sessions \ {s} PROVE Counts(t)' /\ Story(t)'
      BY <1>1, <3>1, OthersStand DEF SafeStep, Reports
    <3> QED BY <3>1, <3>2 DEF SafeStep, Reports
  <2>2. CASE \/ run \/ AcceptFails \/ DatabaseStrands \/ WriteRecord \/ UNCHANGED vars
             \/ \E s \in Sessions : ClientConnects(s) \/ ClientGoes(s) \/ Expire(s)
    <3>1. /\ SessionType' /\ CountType' /\ LogType' /\ failures' \in 0..MaxFailures
          /\ pc' = pc /\ taken' = taken /\ answered' = answered
          /\ \A t \in Sessions : /\ Moved(Entries(t), Entries(t)')
                                 /\ client'[t] \in {"away", "waiting"}
                                    => client[t] \in {"away", "waiting"}
      BY <1>1, <2>2, OtherSteps
    <3> QED BY <1>1, <3>1, Stays
  <2> QED BY <2>1, <2>2 DEF Next
<1>3. ServerType'
  BY <1>1, <1>2, ServerStep
<1>4. TypeOK'
  BY <1>2, <1>3 DEF TypeOK, ServerType, SessionType, CountType, LogType, Places
<1> QED BY <1>2, <1>4 DEF IInv

(* The variables keep their types: no more is posted, read and answered    *)
(* than the bounds allow.                                                  *)
THEOREM TypeCorrect == Spec => []TypeOK
<1>1. IInv => TypeOK
  BY DEF IInv
<1> QED BY <1>1, TypeInit, InvStep, PTL DEF Spec

(* A session answers every request before it reads the next, once; the one *)
(* a closed connection leaves without an answer is its last, and it is     *)
(* told to the log (session_loop, handle_error).                           *)
THEOREM AnswersOnce == Spec => []OneAnswerPerRequest
<1>1. IInv => OneAnswerPerRequest
  BY DEF IInv, Counts, OneAnswerPerRequest
<1> QED BY <1>1, TypeInit, InvStep, PTL DEF Spec

LEMMA StoryIs == IInv => LogTellsConnections
<1> SUFFICES ASSUME IInv, NEW s \in Sessions
             PROVE  LET ends     == {e \in Entries(s) : e.kind \in Ends}
                        After(e) == {d \in Entries(s) : e.at < d.at}
                    IN  /\ pc[s] = "none" <=> Entries(s) = {}
                        /\ \A e \in Entries(s) :
                              e.kind = "connected" => \A d \in Entries(s) : e.at <= d.at
                        /\ \A e \in ends : \E d \in Entries(s) : d.at < e.at
                        /\ Cardinality(ends) = IF pc[s] = "closed" THEN 1 ELSE 0
                        /\ \A e \in ends :
                              Cardinality(After(e)) <= IF e.kind = "closing" THEN 1 ELSE 0
  BY DEF LogTellsConnections
<1> DEFINE ends     == {e \in Entries(s) : e.kind \in Ends}
           After(e) == {d \in Entries(s) : e.at < d.at}
<1>1. Complete(Entries(s), pc[s])
  BY DEF IInv, Story
<1>2. \A e \in Entries(s) : e.at \in Nat
  BY EntryIs, TypeParts DEF IInv, EntriesAreTold, Entry
<1>3. Cardinality(ends) = IF pc[s] = "closed" THEN 1 ELSE 0
  <2>1. CASE pc[s] = "closed"
    <3>1. PICK e \in Entries(s) : e.kind \in Ends
      BY <1>1, <2>1 DEF Complete
    <3>2. ends = {e}
      BY <1>1, <3>1 DEF Complete
    <3> QED BY <2>1, <3>2, FS_Singleton
  <2>2. CASE pc[s] # "closed"
    <3>1. ends = {}
      BY <1>1, <2>2 DEF Complete
    <3> QED BY <2>2, <3>1, FS_EmptySet
  <2> QED BY <2>1, <2>2
<1>4. ASSUME NEW e \in ends PROVE Cardinality(After(e)) <= IF e.kind = "closing" THEN 1 ELSE 0
  <2>1. CASE After(e) = {}
    <3>1. Cardinality(After(e)) = 0
      BY <2>1, FS_EmptySet
    <3> QED BY <3>1
  <2>2. CASE After(e) # {}
    <3>1. PICK d \in Entries(s) : e.at < d.at
      BY <2>2
    <3>2. After(e) = {d}
      BY <1>1, <3>1 DEF Complete
    <3>3. Cardinality(After(e)) = 1
      BY <3>2, FS_Singleton
    <3>4. e.kind # "timed out"
      <4>1. e.kind = "timed out" => d.at <= e.at
        BY <1>1, <3>1 DEF Complete
      <4>2. e.at \in Nat /\ d.at \in Nat
        BY <1>2
      <4>3. ~(d.at <= e.at)
        BY ONLY <3>1, <4>2
      <4> QED BY ONLY <4>1, <4>3
    <3>5. e.kind = "closing"
      BY <3>4 DEF Ends
    <3> QED BY <3>3, <3>5
  <2> QED BY <2>1, <2>2
<1>5. /\ pc[s] = "none" <=> Entries(s) = {}
      /\ \A e \in Entries(s) : e.kind = "connected" => \A d \in Entries(s) : e.at <= d.at
      /\ \A e \in ends : \E d \in Entries(s) : d.at < e.at
  BY <1>1 DEF Complete
<1> HIDE DEF ends, After
<1> QED BY <1>3, <1>4, <1>5 DEF ends, After

(* The log tells the story of every connection: first that it came, or why *)
(* its endpoint is unknown, then what was reported, its end once, after    *)
(* the session is over, and behind a closing at most a failed shutdown.    *)
THEOREM StoryTold == Spec => []LogTellsConnections
<1> QED BY TypeInit, InvStep, StoryIs, PTL DEF Spec

===============================================================================
