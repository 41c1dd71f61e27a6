-------------------------- MODULE FusionTxnProofs --------------------------
(***************************************************************************)
(* Proofs about FusionTxn, for any rows, any depth of closures and any     *)
(* number of runs and faults.                                              *)
(***************************************************************************)
EXTENDS FusionTxn, SequenceTheorems, WellFoundedInduction, TLAPS

\* The rows of the k outermost closures.
Outer(k) == UNION {calls[i].view : i \in {j \in DOMAIN calls : j <= k}}

\* The holder counts a level for every closure, and one more for every SAVEPOINT that failed
\* and every run that was abandoned.
Exact == holder.counter = Len(calls)

\* i is the last of the savepoints ms that has this name.
IsLast(ms, i, name) ==
  i \in DOMAIN ms /\ ms[i].name = name /\ \A j \in DOMAIN ms : ms[j].name = name => j <= i

Ordered(ms) == \A i, j \in DOMAIN ms : i <= j => ms[i].name <= ms[j].name
Below(ms, c) == \A i \in DOMAIN ms : ms[i].name <= c

\* A holder that holds nothing is new, and one that holds has an open session and the
\* names of its levels.
HolderShape ==
  /\ conn.open <=> holder.held
  /\ ~ holder.held => holder = NoHolder /\ conn = NoConn
  /\ holder.held =>
       /\ Len(holder.names) = holder.counter - 1
       /\ \A i \in DOMAIN holder.names : holder.names[i] = i
  /\ Len(calls) <= holder.counter
  /\ conn.aborted => provider = "postgres"

\* Unless a run was abandoned, which leaves its level counted: only a swallowed failure on
\* PostgreSQL, or a dead session, makes a SAVEPOINT fail.
Counted ==
  ~ abandoned =>
    /\ conn.broken \/ (provider = "postgres" /\ swallowed) \/ Exact
    /\ conn.aborted /\ ~ conn.broken => swallowed \/ (~ Idle /\ Top.failed)

\* While no SAVEPOINT has failed and no run was abandoned: names of savepoints never decrease, and a working
\* session has none above its level.
MarksOrdered ==
  holder.held /\ ~ conn.broken /\ Exact =>
    /\ Ordered(conn.marks)
    /\ ~ conn.aborted => Below(conn.marks, holder.counter)

\* ... the last savepoint of each level has the rows of the closures outside of it, and a
\* working session has the rows of all of them.
MarksHoldViews ==
  holder.held /\ ~ conn.broken /\ Exact =>
    /\ \A k \in 1..(holder.counter - 1) :
         \E i \in DOMAIN conn.marks : IsLast(conn.marks, i, k) /\ conn.marks[i].writes = Outer(k)
    /\ ~ conn.aborted => conn.writes = Views

Safe ==
  /\ TypeOK
  /\ HolderShape
  /\ Counted
  /\ MarksOrdered
  /\ MarksHoldViews
  /\ NothingUnpromised
  /\ KeepsPromises
Call == [readOnly : BOOLEAN, failed : BOOLEAN, view : SUBSET Write]
Mark == [name : Nat, writes : SUBSET Write]

----------------------------------------------------------------------------
(* The greatest of some numbers.                                           *)

\* The natural numbers are well founded: a set of them has a least one ...
LEMMA LeastNat ==
  ASSUME NEW T \in SUBSET Nat, T # {}
  PROVE  \E x \in T : \A y \in T : x <= y
<1> DEFINE R == OpToRel(<, Nat)
<1>1. IsWellFoundedOn(R, Nat)
  BY NatLessThanWellFounded
<1>2. \A x, y \in Nat : x < y => <<x, y>> \in R
  BY DEF OpToRel
<1> HIDE DEF R
<1>3. PICK x \in T : \A y \in T : ~ (<<y, x>> \in R)
  BY <1>1, WFMin
<1>4. ASSUME NEW y \in T PROVE x <= y
  <2>1. x \in Nat /\ y \in Nat
    OBVIOUS
  <2>2. ~ (y < x)
    BY <1>2, <1>3, <2>1
  <2> QED BY <2>1, <2>2
<1> QED BY <1>4

\* ... and a set of indices a greatest.
LEMMA GreatestOf ==
  ASSUME NEW n \in Nat, NEW T \in SUBSET (1..n), T # {}
  PROVE  \E x \in T : \A y \in T : y <= x
<1> DEFINE U == {u \in 0..n : n - u \in T}
<1>1. PICK t : t \in T
  OBVIOUS
<1>2. \A x \in T : x \in 1..n
  OBVIOUS
<1>3. \A x \in T : n - x \in U
  BY <1>2
<1>4. U \in SUBSET Nat /\ U # {}
  <2>1. U \subseteq 0..n /\ n - t \in U
    BY <1>1, <1>3
  <2> HIDE DEF U
  <2>2. \A u \in U : u \in Nat
    BY <2>1
  <2> QED BY <2>1, <2>2
<1> HIDE DEF U
<1>5. PICK u \in U : \A v \in U : u <= v
  BY <1>4, LeastNat
<1>6. u \in 0..n /\ n - u \in T
  BY <1>5 DEF U
<1>7. ASSUME NEW y \in T PROVE y <= n - u
  <2>1. u <= n - y
    BY <1>3, <1>5
  <2> QED BY <1>2, <1>6, <2>1
<1> QED BY <1>6, <1>7

----------------------------------------------------------------------------
(* Sequences, and the rows of the closures when one starts or ends.        *)

\* A prefix of a sequence.
LEMMA Prefix ==
  ASSUME NEW S, NEW s \in Seq(S), NEW n \in 0..Len(s)
  PROVE  /\ SubSeq(s, 1, n) \in Seq(S)
         /\ Len(SubSeq(s, 1, n)) = n
         /\ DOMAIN SubSeq(s, 1, n) = 1..n
         /\ \A i \in 1..n : SubSeq(s, 1, n)[i] = s[i]
<1>1. Len(s) \in Nat /\ \A i \in 1..n : s[i] \in S
  BY LenProperties, ElementOfSeq
<1>2. SubSeq(s, 1, n) \in Seq(S) /\ Len(SubSeq(s, 1, n)) = (IF 1 <= n THEN n - 1 + 1 ELSE 0)
      /\ \A i \in 1..(n - 1 + 1) : SubSeq(s, 1, n)[i] = s[1 + i - 1]
  BY <1>1, SubSeqProperties
<1> QED BY <1>1, <1>2, LenProperties

\* ExceptSeq, as a formula.
LEMMA SeqUpdate ==
  \A S : \A q \in Seq(S) : \A i \in 1..Len(q) : \A e \in S :
    /\ [q EXCEPT ![i] = e] \in Seq(S) /\ Len([q EXCEPT ![i] = e]) = Len(q)
    /\ \A j \in 1..Len(q) : [q EXCEPT ![i] = e][j] = IF j = i THEN e ELSE q[j]
BY ExceptSeq

\* A closure that starts has no rows.
LEMMA CallStarts ==
  ASSUME calls \in Seq(Call), NEW ro \in BOOLEAN, calls' = Append(calls, NewCall(ro))
  PROVE  /\ calls' \in Seq(Call) /\ Len(calls') = Len(calls) + 1 /\ calls' # <<>>
         /\ Views' = Views
         /\ \A k \in Nat : k <= Len(calls) => Outer(k)' = Outer(k)
         /\ \A k \in Nat : k = Len(calls) => Outer(k)' = Views
         /\ calls'[Len(calls')].failed = FALSE
<1>1. NewCall(ro) \in Call /\ NewCall(ro).view = {} /\ NewCall(ro).failed = FALSE
  BY DEF NewCall, Call
<1>2. /\ calls' \in Seq(Call) /\ Len(calls') = Len(calls) + 1
      /\ \A i \in 1..Len(calls) : calls'[i] = calls[i]
      /\ calls'[Len(calls) + 1] = NewCall(ro)
  BY <1>1, AppendProperties
<1>3. Len(calls) \in Nat /\ DOMAIN calls = 1..Len(calls) /\ DOMAIN calls' = 1..(Len(calls) + 1)
  BY <1>2, LenProperties
<1>4. Views' = Views
  BY <1>1, <1>2, <1>3 DEF Views
<1>5. ASSUME NEW k \in Nat, k <= Len(calls) PROVE Outer(k)' = Outer(k)
  BY <1>1, <1>2, <1>3, <1>5 DEF Outer
<1>6. ASSUME NEW k \in Nat, k = Len(calls) PROVE Outer(k)' = Views
  BY <1>1, <1>2, <1>3, <1>6 DEF Outer, Views
<1>7. calls' # <<>> /\ calls'[Len(calls')].failed = FALSE
  BY <1>1, <1>2, <1>3, EmptySeq
<1> QED BY <1>2, <1>4, <1>5, <1>6, <1>7

\* A closure that fails takes its rows with it.
LEMMA CallFails ==
  ASSUME calls \in Seq(Call), calls # <<>>, GivesErr
  PROVE  /\ calls' \in Seq(Call) /\ Len(calls') = Len(calls) - 1
         /\ Views' = Outer(Len(calls) - 1)
         /\ \A k \in Nat : k <= Len(calls) - 1 => Outer(k)' = Outer(k)
<1>1. Len(calls) \in Nat \ {0} /\ DOMAIN calls = 1..Len(calls)
  BY LenProperties, EmptySeq
<1>2. /\ calls' \in Seq(Call) /\ Len(calls') = Len(calls) - 1
      /\ DOMAIN calls' = 1..(Len(calls) - 1)
      /\ \A i \in 1..(Len(calls) - 1) : calls'[i] = calls[i]
  BY <1>1, Prefix DEF GivesErr
<1>3. Views' = Outer(Len(calls) - 1)
  BY <1>1, <1>2 DEF Views, Outer
<1>4. ASSUME NEW k \in Nat, k <= Len(calls) - 1 PROVE Outer(k)' = Outer(k)
  BY <1>1, <1>2, <1>4 DEF Outer
<1> QED BY <1>2, <1>3, <1>4

\* A nested closure that succeeds hands its rows to its caller.
LEMMA CallSucceeds ==
  ASSUME calls \in Seq(Call), Len(calls) > 1, GivesOk
  PROVE  /\ calls' \in Seq(Call) /\ Len(calls') = Len(calls) - 1
         /\ Views' = Views
         /\ \A k \in Nat : k < Len(calls) - 1 => Outer(k)' = Outer(k)
         /\ promised' = promised
<1> DEFINE n == Len(calls)
           s == SubSeq(calls, 1, n - 1)
           c == [s[n - 1] EXCEPT !.view = @ \cup Top.view]
<1>1. n \in Nat /\ n > 1 /\ DOMAIN calls = 1..n
  BY LenProperties
<1>2. /\ s \in Seq(Call) /\ Len(s) = n - 1
      /\ \A i \in 1..(n - 1) : s[i] = calls[i]
  BY <1>1, Prefix
<1>3. Top \in Call /\ calls[n - 1] \in Call
  BY <1>1, ElementOfSeq DEF Top
<1>4. c \in Call /\ c.view = calls[n - 1].view \cup calls[n].view
  BY <1>1, <1>2, <1>3 DEF Call, Top
<1>5. calls' = [s EXCEPT ![n - 1] = c] /\ promised' = promised
  <2>1. Len(calls) # 1
    BY <1>1
  <2>2. /\ calls' = [SubSeq(calls, 1, Len(calls) - 1) EXCEPT ![Len(calls) - 1].view = @ \cup Top.view]
        /\ promised' = promised
    BY <2>1, Zenon DEF GivesOk
  <2> QED BY <2>2, Zenon
<1>6. /\ calls' \in Seq(Call) /\ Len(calls') = n - 1
      /\ \A i \in 1..(n - 1) : calls'[i] = IF i = n - 1 THEN c ELSE s[i]
  <2> HIDE DEF s, c
  <2> HIDE DEF n
  <2>1. n - 1 \in 1..Len(s) /\ s \in Seq(Call)
    BY <1>1, <1>2
  <2>2. /\ [s EXCEPT ![n - 1] = c] \in Seq(Call) /\ Len([s EXCEPT ![n - 1] = c]) = Len(s)
        /\ \A i \in 1..Len(s) : [s EXCEPT ![n - 1] = c][i] = IF i = n - 1 THEN c ELSE s[i]
    <3>1. c \in Call
      BY <1>4
    <3> HIDE DEF Call
    <3> QED BY <2>1, <3>1, SeqUpdate
  <2> QED BY <1>1, <1>2, <1>5, <2>2, Zenon
<1>7. DOMAIN calls' = 1..(n - 1)
  BY <1>6, LenProperties
<1> HIDE DEF n, s, c
<1>8. Views' = Views
  <2>1. ASSUME NEW w, w \in Views PROVE w \in Views'
    <3>1. PICK i \in 1..n : w \in calls[i].view
      BY <1>1, <2>1 DEF Views
    <3>2. CASE i < n - 1
      BY <1>1, <1>2, <1>6, <1>7, <3>1, <3>2 DEF Views
    <3>3. CASE i >= n - 1
      BY <1>1, <1>4, <1>6, <1>7, <3>1, <3>3 DEF Views
    <3> QED BY <1>1, <3>2, <3>3
  <2>2. ASSUME NEW w, w \in Views' PROVE w \in Views
    <3>1. PICK i \in 1..(n - 1) : w \in calls'[i].view
      BY <1>7, <2>2 DEF Views
    <3> QED BY <1>1, <1>2, <1>4, <1>6, <3>1 DEF Views
  <2> QED BY <2>1, <2>2
<1>9. ASSUME NEW k \in Nat, k < n - 1 PROVE Outer(k)' = Outer(k)
  BY <1>1, <1>2, <1>6, <1>7, <1>9 DEF Outer
<1> QED BY <1>5, <1>6, <1>8, <1>9 DEF n
----------------------------------------------------------------------------
(* The holder and the session.                                             *)

Holder == {NoHolder} \cup [held : {TRUE}, counter : Nat \ {0}, names : Seq(Nat \ {0})]
Conn == [open : BOOLEAN, broken : BOOLEAN, aborted : BOOLEAN, readOnly : BOOLEAN,
         marks : Seq(Mark), writes : SUBSET Write]

\* What the shape of the state says of the holder and the closures.
LEMMA Shape ==
  ASSUME Safe
  PROVE  /\ holder \in Holder /\ conn \in Conn /\ calls \in Seq(Call)
         /\ holder.counter \in Nat /\ Len(calls) \in Nat /\ Len(calls) <= holder.counter
         /\ DOMAIN calls = 1..Len(calls)
         /\ holder.held \in BOOLEAN
         /\ (holder.held <=> holder.counter > 0)
         /\ (Idle <=> Len(calls) = 0)
         /\ conn.marks \in Seq(Mark) /\ Len(conn.marks) \in Nat
         /\ DOMAIN conn.marks = 1..Len(conn.marks)
         /\ conn.open \in BOOLEAN /\ conn.broken \in BOOLEAN /\ conn.aborted \in BOOLEAN
         /\ conn.readOnly \in BOOLEAN /\ conn.writes \subseteq Write
<1>1. holder \in Holder /\ conn \in Conn /\ calls \in Seq(Call)
  BY DEF Safe, TypeOK, Holder, Conn, Call, Mark
<1>2. Len(calls) \in Nat /\ DOMAIN calls = 1..Len(calls) /\ (Idle <=> Len(calls) = 0)
  BY <1>1, LenProperties, EmptySeq DEF Idle
<1>3. /\ conn.marks \in Seq(Mark) /\ conn.writes \subseteq Write
      /\ conn.open \in BOOLEAN /\ conn.broken \in BOOLEAN /\ conn.aborted \in BOOLEAN
      /\ conn.readOnly \in BOOLEAN
  BY <1>1 DEF Conn
<1>4. Len(conn.marks) \in Nat /\ DOMAIN conn.marks = 1..Len(conn.marks)
  BY <1>3, LenProperties
<1>5. holder.counter \in Nat /\ holder.held \in BOOLEAN /\ (holder.held <=> holder.counter > 0)
  <2>1. CASE holder = NoHolder
    BY <2>1 DEF NoHolder
  <2>2. CASE holder \in [held : {TRUE}, counter : Nat \ {0}, names : Seq(Nat \ {0})]
    <3>1. holder.held \in {TRUE} /\ holder.counter \in Nat \ {0}
      BY <2>2
    <3>2. holder.held = TRUE /\ holder.counter \in Nat
      BY <3>1
    <3>3. holder.counter > 0
      BY <3>1
    <3> QED BY <3>2, <3>3, Zenon
  <2> QED BY <1>1, <2>1, <2>2 DEF Holder
<1>6. Len(calls) <= holder.counter
  BY DEF Safe, HolderShape
<1> QED BY <1>1, <1>2, <1>3, <1>4, <1>5, <1>6

\* A holder that holds has a counter and names.
LEMMA HeldShape ==
  ASSUME Safe, holder.held
  PROVE  /\ holder = [held |-> TRUE, counter |-> holder.counter, names |-> holder.names]
         /\ holder.counter \in Nat \ {0} /\ holder.names \in Seq(Nat \ {0})
         /\ Len(holder.names) = holder.counter - 1
         /\ DOMAIN holder.names = 1..(holder.counter - 1)
         /\ \A i \in 1..(holder.counter - 1) : holder.names[i] = i
<1>0. holder # NoHolder
  <2>1. NoHolder.held = FALSE
    BY DEF NoHolder
  <2> QED BY <2>1
<1>1. holder \in [held : {TRUE}, counter : Nat \ {0}, names : Seq(Nat \ {0})]
  BY <1>0, Shape DEF Holder
<1>2. holder.names \in Seq(Nat \ {0}) /\ holder.counter \in Nat \ {0}
  BY <1>1
<1>3. holder = [held |-> TRUE, counter |-> holder.counter, names |-> holder.names]
  BY <1>1
<1>4. Len(holder.names) = holder.counter - 1 /\ \A i \in DOMAIN holder.names : holder.names[i] = i
  BY DEF Safe, HolderShape
<1>5. DOMAIN holder.names = 1..(holder.counter - 1)
  BY <1>2, <1>4, LenProperties
<1> QED BY <1>2, <1>3, <1>4, <1>5

\* A level that begins.
LEMMA IncShape ==
  ASSUME Safe, holder.held, holder' = Inc(holder)
  PROVE  /\ holder' \in Holder /\ holder'.held /\ holder'.counter = holder.counter + 1
         /\ Len(holder'.names) = holder'.counter - 1
         /\ \A i \in DOMAIN holder'.names : holder'.names[i] = i
<1> DEFINE s == Append(holder.names, holder.counter)
<1>1. holder' = [held |-> TRUE, counter |-> holder.counter + 1, names |-> s]
  BY HeldShape DEF Inc
<1>2. /\ s \in Seq(Nat \ {0}) /\ Len(s) = holder.counter
      /\ \A i \in 1..(holder.counter - 1) : s[i] = holder.names[i]
      /\ s[holder.counter] = holder.counter
  BY HeldShape, AppendProperties
<1>3. DOMAIN s = 1..holder.counter
  BY <1>2, LenProperties
<1> HIDE DEF s
<1>4. ASSUME NEW i \in DOMAIN s PROVE s[i] = i
  <2>1. i \in 1..holder.counter /\ holder.counter \in Nat
    BY <1>3, <1>4, HeldShape
  <2>2. CASE i = holder.counter
    BY <1>2, <2>2
  <2>3. CASE i # holder.counter
    <3>1. i \in 1..(holder.counter - 1)
      BY <2>1, <2>3
    <3> QED BY <1>2, <3>1, HeldShape
  <2> QED BY <2>2, <2>3
<1>5. holder' \in Holder
  BY <1>1, <1>2, HeldShape DEF Holder
<1> QED BY <1>1, <1>2, <1>4, <1>5, HeldShape

\* A nested level that ends.
LEMMA DecShape ==
  ASSUME Safe, holder.counter > 1, holder' = Dec(holder)
  PROVE  /\ holder' \in Holder /\ holder'.held /\ holder'.counter = holder.counter - 1
         /\ Len(holder'.names) = holder'.counter - 1
         /\ \A i \in DOMAIN holder'.names : holder'.names[i] = i
         /\ holder.held /\ LastName(holder) = holder.counter - 1
<1> DEFINE s == SubSeq(holder.names, 1, holder.counter - 2)
<1>0. holder.held /\ holder.counter \in Nat
  BY Shape
<1>1. holder.names # <<>> /\ Len(holder.names) - 1 = holder.counter - 2
  BY <1>0, HeldShape, EmptySeq
<1>2. holder' = [held |-> TRUE, counter |-> holder.counter - 1, names |-> s]
  BY <1>0, <1>1, HeldShape DEF Dec
<1>3. /\ s \in Seq(Nat \ {0}) /\ Len(s) = holder.counter - 2 /\ DOMAIN s = 1..(holder.counter - 2)
      /\ \A i \in 1..(holder.counter - 2) : s[i] = holder.names[i]
  <2>1. holder.names \in Seq(Nat \ {0}) /\ holder.counter - 2 \in 0..Len(holder.names)
    BY <1>0, HeldShape
  <2> QED BY <2>1, Prefix
<1> HIDE DEF s
<1>4. \A i \in DOMAIN s : s[i] = i
  BY <1>0, <1>3, HeldShape
<1>5. holder' \in Holder
  BY <1>0, <1>2, <1>3, HeldShape DEF Holder
<1>6. LastName(holder) = holder.counter - 1
  BY <1>0, HeldShape DEF LastName
<1> QED BY <1>0, <1>2, <1>3, <1>4, <1>5, <1>6

\* LastMark is the last savepoint of its name, when there is one.
LEMMA LastMarkIs ==
  ASSUME NEW c, NEW name \in Nat, NEW i \in Nat, c.marks \in Seq(Mark), IsLast(c.marks, i, name)
  PROVE  Marked(c, name) # {} /\ LastMark(c, name) = i
<1>1. DOMAIN c.marks = 1..Len(c.marks) /\ Len(c.marks) \in Nat
  BY LenProperties
<1>2. i \in Marked(c, name) /\ \A j \in Marked(c, name) : j <= i
  BY DEF IsLast, Marked
<1>3. \A j \in Marked(c, name) : j \in Nat
  BY <1>1 DEF Marked
<1>4. LastMark(c, name) \in Marked(c, name) /\ \A j \in Marked(c, name) : j <= LastMark(c, name)
  BY <1>2 DEF LastMark
<1> HIDE DEF LastMark
<1>5. LastMark(c, name) \in Nat /\ LastMark(c, name) <= i /\ i <= LastMark(c, name)
  BY <1>2, <1>3, <1>4
<1> QED BY <1>2, <1>5

\* A new savepoint is the last of its name.
LEMMA MarkAdded ==
  ASSUME NEW ms \in Seq(Mark), NEW c \in Nat, NEW W \in SUBSET Write, NEW t,
         t = Append(ms, [name |-> c, writes |-> W])
  PROVE  /\ t \in Seq(Mark)
         /\ IsLast(t, Len(ms) + 1, c) /\ t[Len(ms) + 1].writes = W /\ Len(ms) + 1 \in DOMAIN t
<1> DEFINE m == [name |-> c, writes |-> W]
           n == Len(ms)
<1>1. m \in Mark /\ m.name = c /\ m.writes = W
  BY DEF Mark
<1>2. n \in Nat /\ DOMAIN ms = 1..n
  BY LenProperties
<1>3. /\ t \in Seq(Mark) /\ DOMAIN t = 1..(n + 1)
      /\ t[n + 1] = m
  BY <1>1, AppendProperties, LenProperties
<1> HIDE DEF m, n
<1>4. IsLast(t, n + 1, c)
  BY <1>1, <1>2, <1>3 DEF IsLast
<1> QED BY <1>1, <1>2, <1>3, <1>4 DEF n

\* It keeps the order when it is not below the others ...
LEMMA MarkAddedOnTop ==
  ASSUME NEW ms \in Seq(Mark), NEW c \in Nat, NEW W \in SUBSET Write, NEW t,
         t = Append(ms, [name |-> c, writes |-> W]), Ordered(ms), Below(ms, c)
  PROVE  Ordered(t) /\ Below(t, c + 1)
<1> DEFINE m == [name |-> c, writes |-> W]
           n == Len(ms)
<1>1. m \in Mark /\ m.name = c
  BY DEF Mark
<1>2. n \in Nat /\ DOMAIN ms = 1..n /\ \A i \in 1..n : ms[i].name \in Nat
  <2>1. n \in Nat /\ DOMAIN ms = 1..n /\ \A i \in 1..n : ms[i] \in Mark
    BY LenProperties, ElementOfSeq
  <2> QED BY <2>1 DEF Mark
<1>3. DOMAIN t = 1..(n + 1) /\ t[n + 1] = m /\ \A i \in 1..n : t[i] = ms[i]
  BY <1>1, AppendProperties, LenProperties
<1> HIDE DEF m, n
<1> QED BY <1>1, <1>2, <1>3 DEF Ordered, Below

\* ... and leaves the last savepoints of other names what they were.
LEMMA MarkAddedBesides ==
  ASSUME NEW ms \in Seq(Mark), NEW c \in Nat, NEW W \in SUBSET Write, NEW t,
         t = Append(ms, [name |-> c, writes |-> W])
  PROVE  \A k \in Nat : \A i \in DOMAIN ms :
           k < c /\ IsLast(ms, i, k) => IsLast(t, i, k) /\ t[i] = ms[i] /\ i \in DOMAIN t
<1> DEFINE m == [name |-> c, writes |-> W]
           n == Len(ms)
<1>1. m \in Mark /\ m.name = c
  BY DEF Mark
<1>2. n \in Nat /\ DOMAIN ms = 1..n
  BY LenProperties
<1>3. DOMAIN t = 1..(n + 1) /\ t[n + 1] = m /\ \A i \in 1..n : t[i] = ms[i]
  BY <1>1, AppendProperties, LenProperties
<1> HIDE DEF m, n
<1> QED BY <1>1, <1>2, <1>3 DEF IsLast

\* Savepoints that are cut after the last one of a name, or before it.
Cut(ms, i, c, m) == IsLast(ms, i, c) /\ Ordered(ms) /\ m \in {i - 1, i}

\* What is left is ordered and not above the name ...
LEMMA MarksCut ==
  ASSUME NEW ms \in Seq(Mark), NEW c \in Nat, NEW i \in DOMAIN ms, NEW m, Cut(ms, i, c, m)
  PROVE  Ordered(SubSeq(ms, 1, m)) /\ Below(SubSeq(ms, 1, m), c)
<1> DEFINE n == Len(ms)
           t == SubSeq(ms, 1, m)
<1>1. n \in Nat /\ DOMAIN ms = 1..n /\ \A j \in 1..n : ms[j].name \in Nat
  <2>1. n \in Nat /\ DOMAIN ms = 1..n /\ \A j \in 1..n : ms[j] \in Mark
    BY LenProperties, ElementOfSeq
  <2> QED BY <2>1 DEF Mark
<1>2. m \in 0..n /\ i \in 1..n
  BY <1>1 DEF Cut
<1>3. t \in Seq(Mark) /\ DOMAIN t = 1..m /\ \A j \in 1..m : t[j] = ms[j]
  BY <1>2, Prefix
<1> HIDE DEF n, t
<1>4. Ordered(t)
  BY <1>1, <1>2, <1>3 DEF Ordered, Cut
<1>5. Below(t, c)
  BY <1>1, <1>2, <1>3 DEF Below, Ordered, IsLast, Cut
<1> QED BY <1>4, <1>5 DEF t

\* ... and the last savepoint of a name that is left stays the last.
LEMMA LastIsLeft ==
  ASSUME NEW ms \in Seq(Mark), NEW c \in Nat, NEW i \in DOMAIN ms, NEW m, Cut(ms, i, c, m),
         NEW k \in Nat, NEW j \in DOMAIN ms, IsLast(ms, j, k), k < c \/ (k = c /\ m = i)
  PROVE  /\ IsLast(SubSeq(ms, 1, m), j, k) /\ SubSeq(ms, 1, m)[j] = ms[j]
         /\ j \in DOMAIN SubSeq(ms, 1, m)
<1> DEFINE n == Len(ms)
           t == SubSeq(ms, 1, m)
<1>1. n \in Nat /\ DOMAIN ms = 1..n /\ \A l \in 1..n : ms[l].name \in Nat
  <2>1. n \in Nat /\ DOMAIN ms = 1..n /\ \A l \in 1..n : ms[l] \in Mark
    BY LenProperties, ElementOfSeq
  <2> QED BY <2>1 DEF Mark
<1>2. m \in 0..n /\ i \in 1..n
  BY <1>1 DEF Cut
<1>3. t \in Seq(Mark) /\ DOMAIN t = 1..m /\ \A l \in 1..m : t[l] = ms[l]
  BY <1>2, Prefix
<1> HIDE DEF n, t
<1>4. j \in 1..m
  BY <1>1, <1>2 DEF IsLast, Ordered, Cut
<1>5. IsLast(t, j, k)
  BY <1>1, <1>2, <1>3, <1>4 DEF IsLast
<1> QED BY <1>3, <1>4, <1>5 DEF t

\* Whatever ends with nothing held is safe, as far as the holder and the session go.
LEMMA EmptyIsSafe ==
  ASSUME holder' = NoHolder, conn' = NoConn, calls' = <<>>
  PROVE  HolderShape' /\ Counted' /\ MarksOrdered' /\ MarksHoldViews'
<1>1. Len(<<>>) = 0
  OBVIOUS
<1>2. HolderShape'
  BY <1>1 DEF HolderShape, NoHolder, NoConn
<1>3. Counted'
  BY <1>1 DEF Counted, Exact, NoHolder, NoConn
<1>4. MarksOrdered' /\ MarksHoldViews'
  BY DEF MarksOrdered, MarksHoldViews, NoHolder
<1> QED BY <1>2, <1>3, <1>4
\* The type invariant, from the parts that have a shape of their own.
LEMMA TypeFrom ==
  ASSUME TypeOK, UNCHANGED <<provider, kept>>, swallowed' \in BOOLEAN, abandoned' \in BOOLEAN,
         holder' \in Holder, conn' \in Conn, calls' \in Seq(Call),
         durable' \subseteq Write, promised' \subseteq Write, unknown' \subseteq Write,
         runs' \in 0..MaxRuns, faults' \in 0..MaxFaults
  PROVE  TypeOK'
BY DEF TypeOK, Holder, Conn, Call, Mark

\* Starts, Fault and Proceeds keep their types.
LEMMA Counts ==
  ASSUME TypeOK
  PROVE  /\ Starts => runs' \in 0..MaxRuns
         /\ Fault => faults' \in 0..MaxFaults
         /\ Proceeds => swallowed' \in BOOLEAN /\ (swallowed => swallowed')
<1>1. Starts => runs' \in 0..MaxRuns
  BY TxnAssumption DEF TxnAssumption, TypeOK, Starts
<1>2. Fault => faults' \in 0..MaxFaults
  BY TxnAssumption DEF TxnAssumption, TypeOK, Fault
<1>3. Proceeds => swallowed' \in BOOLEAN /\ (swallowed => swallowed')
  BY Zenon DEF TypeOK, Proceeds
<1> QED BY <1>1, <1>2, <1>3

\* A row that the running closure writes.
LEMMA CallWrites ==
  ASSUME calls \in Seq(Call), calls # <<>>, NEW w \in Write,
         calls' = [calls EXCEPT ![Len(calls)].view = @ \cup {w}]
  PROVE  /\ calls' \in Seq(Call) /\ Len(calls') = Len(calls) /\ Views' = Views \cup {w}
         /\ \A k \in Nat : k < Len(calls) => Outer(k)' = Outer(k)
<1> DEFINE n == Len(calls)
           c == [calls[n] EXCEPT !.view = @ \cup {w}]
<1>1. n \in Nat /\ n > 0 /\ DOMAIN calls = 1..n
  BY LenProperties, EmptySeq
<1>2. calls[n] \in Call
  BY <1>1, ElementOfSeq
<1>3. c \in Call /\ c.view = calls[n].view \cup {w}
  BY <1>2 DEF Call
<1>4. calls' = [calls EXCEPT ![n] = c]
  OBVIOUS
<1> HIDE DEF c
<1>5. /\ calls' \in Seq(Call) /\ Len(calls') = n
      /\ \A i \in 1..n : calls'[i] = IF i = n THEN c ELSE calls[i]
  <2> HIDE DEF n
  <2>1. c \in Call /\ n \in 1..Len(calls)
    BY <1>1, <1>3 DEF n
  <2>2. n = Len(calls)
    BY DEF n
  <2>3. /\ [calls EXCEPT ![n] = c] \in Seq(Call) /\ Len([calls EXCEPT ![n] = c]) = n
        /\ \A i \in 1..n : [calls EXCEPT ![n] = c][i] = IF i = n THEN c ELSE calls[i]
    BY <2>1, <2>2, SeqUpdate
  <2> QED BY <1>4, <2>3, Zenon
<1>6. DOMAIN calls' = 1..n
  BY <1>5, LenProperties
<1> HIDE DEF n
<1>7. Views' = Views \cup {w}
  <2>1. ASSUME NEW v, v \in Views' PROVE v \in Views \cup {w}
    <3>1. PICK i \in 1..n : v \in calls'[i].view
      BY <1>6, <2>1 DEF Views
    <3> QED BY <1>1, <1>3, <1>5, <3>1 DEF Views
  <2>2. ASSUME NEW v, v \in Views \cup {w} PROVE v \in Views'
    <3>1. n \in 1..n /\ calls'[n].view = calls[n].view \cup {w}
      BY <1>1, <1>3, <1>5
    <3>2. CASE v = w
      BY <1>6, <3>1, <3>2 DEF Views
    <3>3. CASE v # w
      <4>1. PICK i \in 1..n : v \in calls[i].view
        BY <1>1, <2>2, <3>3 DEF Views
      <4>2. v \in calls'[i].view
        BY <1>5, <3>1, <4>1
      <4> QED BY <1>6, <4>1, <4>2 DEF Views
    <3> QED BY <3>2, <3>3
  <2> QED BY <2>1, <2>2
<1>8. ASSUME NEW k \in Nat, k < n PROVE Outer(k)' = Outer(k)
  BY <1>1, <1>5, <1>6, <1>8 DEF Outer
<1> QED BY <1>5, <1>7, <1>8 DEF n

\* A statement of the running closure that fails.
LEMMA CallErrs ==
  ASSUME calls \in Seq(Call), calls # <<>>, calls' = [calls EXCEPT ![Len(calls)].failed = TRUE]
  PROVE  /\ calls' \in Seq(Call) /\ Len(calls') = Len(calls) /\ Views' = Views
         /\ \A k \in Nat : Outer(k)' = Outer(k)
         /\ ~ Idle' /\ Top'.failed
<1> DEFINE n == Len(calls)
           c == [calls[n] EXCEPT !.failed = TRUE]
<1>1. n \in Nat /\ n > 0 /\ DOMAIN calls = 1..n
  BY LenProperties, EmptySeq
<1>2. calls[n] \in Call
  BY <1>1, ElementOfSeq
<1>3. c \in Call /\ c.view = calls[n].view /\ c.failed
  BY <1>2 DEF Call
<1>4. calls' = [calls EXCEPT ![n] = c]
  OBVIOUS
<1> HIDE DEF c
<1>5. /\ calls' \in Seq(Call) /\ Len(calls') = n
      /\ \A i \in 1..n : calls'[i] = IF i = n THEN c ELSE calls[i]
  <2> HIDE DEF n
  <2>1. c \in Call /\ n \in 1..Len(calls)
    BY <1>1, <1>3 DEF n
  <2>2. n = Len(calls)
    BY DEF n
  <2>3. /\ [calls EXCEPT ![n] = c] \in Seq(Call) /\ Len([calls EXCEPT ![n] = c]) = n
        /\ \A i \in 1..n : [calls EXCEPT ![n] = c][i] = IF i = n THEN c ELSE calls[i]
    BY <2>1, <2>2, SeqUpdate
  <2> QED BY <1>4, <2>3, Zenon
<1>6. DOMAIN calls' = 1..n /\ \A i \in 1..n : calls'[i].view = calls[i].view
  BY <1>3, <1>5, LenProperties
<1> HIDE DEF n
<1>7. Views' = Views
  BY <1>1, <1>6 DEF Views
<1>8. ASSUME NEW k \in Nat PROVE Outer(k)' = Outer(k)
  BY <1>1, <1>6, <1>8 DEF Outer
<1>9. ~ Idle' /\ Top'.failed
  BY <1>1, <1>3, <1>5, EmptySeq DEF Idle, Top
<1> QED BY <1>5, <1>7, <1>8, <1>9 DEF n

----------------------------------------------------------------------------
(* One lemma per action.                                                   *)

\* Nothing is held, nothing runs and nothing is durable.
LEMMA InitSafe == Init => Safe
<1> SUFFICES ASSUME Init PROVE Safe
  OBVIOUS
<1>1. TypeOK
  <2>1. /\ <<>> \in Seq(Mark) /\ <<>> \in Seq(Call) /\ holder = NoHolder /\ calls = <<>>
        /\ conn = [open |-> FALSE, broken |-> FALSE, aborted |-> FALSE, readOnly |-> FALSE,
                   marks |-> <<>>, writes |-> {}]
    BY EmptySeq DEF Init, NoConn
  <2>2. conn \in Conn
    BY <2>1 DEF Conn
  <2>3. holder \in Holder /\ calls \in Seq(Call)
    BY <2>1 DEF Holder
  <2>4. runs \in 0..MaxRuns /\ faults \in 0..MaxFaults
    BY TxnAssumption DEF TxnAssumption, Init
  <2>5. /\ provider \in Provider /\ kept \in BOOLEAN /\ swallowed \in BOOLEAN /\ abandoned \in BOOLEAN
        /\ durable \subseteq Write /\ promised \subseteq Write /\ unknown \subseteq Write
    BY DEF Init
  <2> QED BY <2>2, <2>3, <2>4, <2>5 DEF TypeOK, Holder, Conn, Call, Mark
<1>2. Len(<<>>) = 0
  OBVIOUS
<1>3. HolderShape /\ Counted /\ MarksOrdered /\ MarksHoldViews
  BY <1>2 DEF Init, HolderShape, Counted, Exact, MarksOrdered, MarksHoldViews, NoHolder, NoConn
<1> QED BY <1>1, <1>3 DEF Init, Safe, NothingUnpromised, KeepsPromises

\* The first level: an empty session for the only closure.
LEMMA BeginTxnSafe == ASSUME Safe, NEW ro \in BOOLEAN, BeginTxn(ro) PROVE Safe'
<1>1. /\ holder' = NewHolder /\ conn' = NewConn(ro) /\ ~ holder.held
      /\ calls' = Append(calls, NewCall(ro))
      /\ UNCHANGED <<provider, kept, abandoned, durable, promised, unknown, swallowed, faults>>
  BY DEF BeginTxn
<1>2. /\ conn'.open /\ ~ conn'.broken /\ ~ conn'.aborted /\ conn'.marks = <<>> /\ conn'.writes = {}
      /\ conn' \in Conn
  <2> DEFINE r == ro /\ provider = "postgres"
  <2>1. conn' = [open |-> TRUE, broken |-> FALSE, aborted |-> FALSE, readOnly |-> r,
                 marks |-> <<>>, writes |-> {}]
    BY <1>1 DEF NewConn, NoConn
  <2>2. r \in BOOLEAN /\ <<>> \in Seq(Mark)
    BY EmptySeq
  <2> HIDE DEF r
  <2> QED BY <2>1, <2>2 DEF Conn
<1>3. holder' \in Holder /\ holder'.held /\ holder'.counter = 1 /\ holder'.names = <<>>
  BY <1>1 DEF NewHolder, Holder
<1>4. Len(calls) = 0 /\ calls = <<>>
  BY <1>1, Shape DEF Idle
<1>5. /\ calls' \in Seq(Call) /\ Len(calls') = 1 /\ calls' # <<>> /\ Views' = Views
  <2>1. /\ calls' \in Seq(Call) /\ Len(calls') = Len(calls) + 1 /\ calls' # <<>> /\ Views' = Views
    BY <1>1, Shape, CallStarts
  <2> QED BY <1>4, <2>1
<1>6. Views = {}
  BY <1>4, Shape DEF Views
<1>7. TypeOK'
  <2>1. TypeOK /\ runs' \in 0..MaxRuns
    BY Counts DEF Safe, BeginTxn
  <2> QED BY <1>1, <1>2, <1>3, <1>5, <2>1, TypeFrom DEF TypeOK
<1>8. HolderShape'
  BY <1>2, <1>3, <1>5 DEF HolderShape
<1>9. Counted'
  BY <1>2, <1>3, <1>5 DEF Counted, Exact
<1>10. MarksOrdered' /\ MarksHoldViews'
  <2>1. DOMAIN conn'.marks = {}
    BY <1>2
  <2>2. Ordered(conn'.marks) /\ Below(conn'.marks, holder'.counter)
    BY <2>1 DEF Ordered, Below
  <2>3. 1..(holder'.counter - 1) = {}
    BY <1>3
  <2> QED BY <1>2, <1>5, <1>6, <2>2, <2>3 DEF MarksOrdered, MarksHoldViews
<1>11. NothingUnpromised' /\ KeepsPromises'
  BY <1>1 DEF Safe, NothingUnpromised, KeepsPromises
<1> QED BY <1>7, <1>8, <1>9, <1>10, <1>11 DEF Safe

\* A SAVEPOINT: the new last mark has the rows of all closures so far.
LEMMA BeginNestedSafe == ASSUME Safe, NEW ro \in BOOLEAN, BeginNested(ro) PROVE Safe'
<1> DEFINE m == [name |-> holder.counter, writes |-> conn.writes]
<1>1. /\ holder' = Inc(holder) /\ holder.held /\ Works(conn) /\ Proceeds
      /\ conn' = [conn EXCEPT !.marks = Append(@, m)]
      /\ calls' = Append(calls, NewCall(ro))
      /\ UNCHANGED <<provider, kept, abandoned, durable, promised, unknown, faults>>
  BY DEF BeginNested
<1>2. /\ holder' \in Holder /\ holder'.held /\ holder'.counter = holder.counter + 1
      /\ Len(holder'.names) = holder'.counter - 1
      /\ \A i \in DOMAIN holder'.names : holder'.names[i] = i
  BY <1>1, IncShape
<1>3. /\ calls' \in Seq(Call) /\ Len(calls') = Len(calls) + 1 /\ calls' # <<>> /\ Views' = Views
      /\ \A k \in Nat : k <= Len(calls) => Outer(k)' = Outer(k)
      /\ \A k \in Nat : k = Len(calls) => Outer(k)' = Views
  BY <1>1, Shape, CallStarts
<1>4. /\ conn'.marks = Append(conn.marks, m) /\ conn'.open = conn.open /\ conn'.broken = conn.broken
      /\ conn'.aborted = conn.aborted /\ conn'.writes = conn.writes
  BY <1>1, Shape DEF Conn
<1>5. /\ conn'.marks \in Seq(Mark)
      /\ Ordered(conn.marks) /\ Below(conn.marks, holder.counter) =>
           Ordered(conn'.marks) /\ Below(conn'.marks, holder.counter + 1)
      /\ IsLast(conn'.marks, Len(conn.marks) + 1, holder.counter)
      /\ Len(conn.marks) + 1 \in DOMAIN conn'.marks
      /\ conn'.marks[Len(conn.marks) + 1].writes = conn.writes
      /\ \A k \in Nat : \A i \in DOMAIN conn.marks :
           k < holder.counter /\ IsLast(conn.marks, i, k) =>
             IsLast(conn'.marks, i, k) /\ conn'.marks[i] = conn.marks[i] /\ i \in DOMAIN conn'.marks
  <2>1. /\ conn.marks \in Seq(Mark) /\ holder.counter \in Nat /\ conn.writes \in SUBSET Write
        /\ conn'.marks = Append(conn.marks, [name |-> holder.counter, writes |-> conn.writes])
    BY <1>4, Shape
  <2> HIDE DEF m
  <2>2. /\ conn'.marks \in Seq(Mark)
        /\ IsLast(conn'.marks, Len(conn.marks) + 1, holder.counter)
        /\ Len(conn.marks) + 1 \in DOMAIN conn'.marks
        /\ conn'.marks[Len(conn.marks) + 1].writes = conn.writes
    <3>1. IsLast(conn'.marks, Len(conn.marks) + 1, holder.counter)
      BY <2>1, MarkAdded
    <3>2. /\ conn'.marks \in Seq(Mark)
          /\ conn'.marks[Len(conn.marks) + 1].writes = conn.writes
          /\ Len(conn.marks) + 1 \in DOMAIN conn'.marks
      BY <2>1, MarkAdded
    <3> QED BY <3>1, <3>2
  <2>3. Ordered(conn.marks) /\ Below(conn.marks, holder.counter) =>
          Ordered(conn'.marks) /\ Below(conn'.marks, holder.counter + 1)
    BY <2>1, MarkAddedOnTop
  <2>4. \A k \in Nat : \A i \in DOMAIN conn.marks :
           k < holder.counter /\ IsLast(conn.marks, i, k) =>
             IsLast(conn'.marks, i, k) /\ conn'.marks[i] = conn.marks[i] /\ i \in DOMAIN conn'.marks
    BY <2>1, MarkAddedBesides
  <2> QED BY <2>2, <2>3, <2>4
<1> HIDE DEF m
<1>6. conn' \in Conn
  BY <1>1, <1>4, <1>5, Shape DEF Conn
<1>7. holder.counter \in Nat /\ Len(calls) \in Nat
  BY Shape
<1>8. TypeOK'
  <2>1. TypeOK /\ runs' \in 0..MaxRuns /\ swallowed' \in BOOLEAN
    BY Counts DEF Safe, BeginNested
  <2> QED BY <1>1, <1>2, <1>3, <1>6, <2>1, TypeFrom DEF TypeOK
<1>9. HolderShape'
  <2>1. conn'.open /\ holder'.held
    BY <1>1, <1>2, <1>4 DEF Works
  <2>2. Len(calls') <= holder'.counter /\ (conn'.aborted => provider' = "postgres")
    BY <1>1, <1>2, <1>3, <1>4, <1>7 DEF Safe, HolderShape
  <2> QED BY <1>2, <2>1, <2>2 DEF HolderShape
<1>10. ~ conn.aborted /\ ~ conn.broken /\ (swallowed => swallowed')
  BY <1>1, Counts DEF Safe, Works
<1>11. Exact <=> Exact'
  BY <1>2, <1>3, <1>7 DEF Exact
<1>12. Counted'
  BY <1>1, <1>4, <1>10, <1>11 DEF Safe, Counted
<1>13. MarksOrdered'
  BY <1>1, <1>2, <1>4, <1>5, <1>10, <1>11 DEF Safe, MarksOrdered
<1>14. ASSUME Exact
       PROVE  /\ conn'.writes = Views'
              /\ \A k \in 1..(holder'.counter - 1) : \E i \in DOMAIN conn'.marks :
                   IsLast(conn'.marks, i, k) /\ conn'.marks[i].writes = Outer(k)'
  <2>1. /\ conn.writes = Views
        /\ \A k \in 1..(holder.counter - 1) : \E i \in DOMAIN conn.marks :
             IsLast(conn.marks, i, k) /\ conn.marks[i].writes = Outer(k)
    BY <1>1, <1>10, <1>14 DEF Safe, MarksHoldViews
  <2>2. holder.counter = Len(calls)
    BY <1>14 DEF Exact
  <2>3. ASSUME NEW k \in 1..(holder'.counter - 1)
        PROVE  \E i \in DOMAIN conn'.marks :
                 IsLast(conn'.marks, i, k) /\ conn'.marks[i].writes = Outer(k)'
    <3>1. CASE k = holder.counter
      <4>1. Outer(k)' = Views
        BY <1>3, <1>7, <2>2, <3>1
      <4> QED BY <1>5, <2>1, <3>1, <4>1
    <3>2. CASE k # holder.counter
      <4>1. k \in 1..(holder.counter - 1) /\ k < holder.counter /\ k <= Len(calls) /\ k \in Nat
        BY <1>2, <1>7, <2>2, <3>2
      <4>2. PICK i \in DOMAIN conn.marks : IsLast(conn.marks, i, k) /\ conn.marks[i].writes = Outer(k)
        BY <2>1, <4>1
      <4>3. Outer(k)' = Outer(k)
        BY <1>3, <4>1
      <4> QED BY <1>5, <4>1, <4>2, <4>3
    <3> QED BY <3>1, <3>2
  <2> QED BY <1>3, <1>4, <2>1, <2>3
<1>15. MarksHoldViews'
  BY <1>11, <1>14 DEF MarksHoldViews
<1>16. NothingUnpromised' /\ KeepsPromises'
  BY <1>1, <1>10 DEF Safe, NothingUnpromised, KeepsPromises
<1> QED BY <1>8, <1>9, <1>12, <1>13, <1>15, <1>16 DEF Safe

\* A SAVEPOINT that fails: the holder is one ahead from now on.
LEMMA BeginFailsSafe == ASSUME Safe, BeginFails PROVE Safe'
<1>1. /\ holder' = Inc(holder) /\ holder.held /\ ~ Works(conn) /\ Proceeds
      /\ UNCHANGED <<provider, kept, abandoned, conn, calls, durable, promised, unknown, faults>>
  BY DEF BeginFails
<1>2. /\ holder' \in Holder /\ holder'.held /\ holder'.counter = holder.counter + 1
      /\ Len(holder'.names) = holder'.counter - 1
      /\ \A i \in DOMAIN holder'.names : holder'.names[i] = i
  BY <1>1, IncShape
<1>3. Len(calls) \in Nat /\ holder.counter \in Nat /\ Len(calls) <= holder.counter
  BY Shape
<1>4. ~ Exact'
  BY <1>1, <1>2, <1>3 DEF Exact
<1>5. TypeOK'
  <2>1. TypeOK /\ runs' \in 0..MaxRuns /\ swallowed' \in BOOLEAN
    BY Counts DEF Safe, BeginFails
  <2> QED BY <1>1, <1>2, <2>1, Shape, TypeFrom DEF TypeOK
<1>6. HolderShape'
  BY <1>1, <1>2, <1>3 DEF Safe, HolderShape
<1>7. abandoned \/ conn.broken \/ (provider = "postgres" /\ swallowed')
  <2>1. SUFFICES ASSUME ~ abandoned, ~ conn.broken PROVE provider = "postgres" /\ swallowed'
    OBVIOUS
  <2>2. conn.aborted
    BY <1>1, <2>1 DEF Safe, HolderShape, Works
  <2>3. swallowed \/ (~ Idle /\ Top.failed)
    BY <2>1, <2>2 DEF Safe, Counted
  <2>4. provider = "postgres"
    BY <2>2 DEF Safe, HolderShape
  <2>5. swallowed'
    BY <1>1, <2>3 DEF Proceeds
  <2> QED BY <2>4, <2>5
<1>8. Counted'
  BY <1>1, <1>7 DEF Safe, Counted, Proceeds
<1>9. MarksOrdered' /\ MarksHoldViews'
  BY <1>4 DEF MarksOrdered, MarksHoldViews
<1>10. NothingUnpromised' /\ KeepsPromises'
  <2>1. swallowed => swallowed'
    BY <1>1, Counts DEF Safe
  <2> QED BY <1>1, <2>1 DEF Safe, NothingUnpromised, KeepsPromises
<1> QED BY <1>5, <1>6, <1>8, <1>9, <1>10 DEF Safe

\* A statement: the session and the running closure get the same row.
LEMMA ExecuteSafe == ASSUME Safe, NEW w \in Write, Execute(w) PROVE Safe'
<1>1. /\ ~ Idle /\ Works(conn) /\ Proceeds
      /\ conn' = [conn EXCEPT !.writes = @ \cup {w}]
      /\ calls' = [calls EXCEPT ![Len(calls)].view = @ \cup {w}]
      /\ UNCHANGED <<provider, kept, abandoned, holder, durable, promised, unknown, runs, faults>>
  BY DEF Execute
<1>2. /\ calls' \in Seq(Call) /\ Len(calls') = Len(calls) /\ Views' = Views \cup {w}
      /\ \A k \in Nat : k < Len(calls) => Outer(k)' = Outer(k)
  BY <1>1, Shape, CallWrites DEF Idle
<1>3. /\ conn' \in Conn /\ conn'.marks = conn.marks /\ conn'.open = conn.open
      /\ conn'.broken = conn.broken /\ conn'.aborted = conn.aborted /\ conn'.writes = conn.writes \cup {w}
  BY <1>1, Shape DEF Conn
<1>4. ~ conn.aborted /\ ~ conn.broken /\ (swallowed => swallowed') /\ swallowed' \in BOOLEAN
  BY <1>1, Counts DEF Safe, Works
<1>5. Exact' <=> Exact
  BY <1>1, <1>2 DEF Exact
<1>6. TypeOK'
  BY <1>1, <1>2, <1>3, <1>4, Shape, TypeFrom DEF Safe, TypeOK
<1>7. HolderShape'
  <2>1. conn.open /\ holder.held
    BY <1>1 DEF Works, Safe, HolderShape
  <2>2. conn'.open /\ holder'.held /\ Len(calls') <= holder'.counter /\ ~ conn'.aborted
    BY <1>1, <1>2, <1>3, <1>4, <2>1 DEF Safe, HolderShape
  <2>3. Len(holder.names) = holder.counter - 1 /\ \A i \in DOMAIN holder.names : holder.names[i] = i
    BY <2>1 DEF Safe, HolderShape
  <2> QED BY <1>1, <2>2, <2>3 DEF HolderShape
<1>8. Counted'
  BY <1>1, <1>3, <1>4, <1>5 DEF Safe, Counted
<1>9. MarksOrdered'
  BY <1>1, <1>3, <1>4, <1>5 DEF Safe, MarksOrdered
<1>10. MarksHoldViews'
  <2> SUFFICES ASSUME holder.held, Exact
               PROVE  /\ \A k \in 1..(holder.counter - 1) : \E i \in DOMAIN conn.marks :
                           IsLast(conn.marks, i, k) /\ conn.marks[i].writes = Outer(k)'
                      /\ conn'.writes = Views'
    BY <1>1, <1>3, <1>5 DEF MarksHoldViews
  <2>1. /\ \A k \in 1..(holder.counter - 1) : \E i \in DOMAIN conn.marks :
             IsLast(conn.marks, i, k) /\ conn.marks[i].writes = Outer(k)
        /\ conn.writes = Views
    BY <1>4 DEF Safe, MarksHoldViews
  <2>2. \A k \in 1..(holder.counter - 1) : k \in Nat /\ k < Len(calls)
    BY Shape DEF Exact
  <2>3. \A k \in 1..(holder.counter - 1) : Outer(k)' = Outer(k)
    BY <1>2, <2>2
  <2> QED BY <1>2, <1>3, <2>1, <2>3
<1>11. NothingUnpromised' /\ KeepsPromises'
  BY <1>1, <1>4 DEF Safe, NothingUnpromised, KeepsPromises
<1> QED BY <1>6, <1>7, <1>8, <1>9, <1>10, <1>11 DEF Safe

\* What Failing does to a session.
LEMMA FailingShape ==
  ASSUME Safe, conn' = Failing(conn)
  PROVE  /\ conn' \in Conn /\ conn'.marks = conn.marks /\ conn'.open = conn.open
         /\ conn'.broken = conn.broken /\ conn'.writes = conn.writes
         /\ (conn'.aborted <=> conn.aborted \/ provider = "postgres")
<1> DEFINE a == conn.aborted \/ provider = "postgres"
<1>1. conn' = [conn EXCEPT !.aborted = a] /\ conn \in Conn
  BY Shape DEF Failing
<1>2. a \in BOOLEAN
  OBVIOUS
<1> HIDE DEF a
<1>3. /\ conn' \in Conn /\ conn'.marks = conn.marks /\ conn'.open = conn.open
      /\ conn'.broken = conn.broken /\ conn'.writes = conn.writes /\ conn'.aborted = a
  BY <1>1, <1>2 DEF Conn
<1> QED BY <1>3 DEF a

\* A statement that fails.
LEMMA ExecuteFailsSafe == ASSUME Safe, ExecuteFails PROVE Safe'
<1>1. /\ ~ Idle /\ conn' = Failing(conn)
      /\ calls' = [calls EXCEPT ![Len(calls)].failed = TRUE]
      /\ UNCHANGED <<provider, kept, abandoned, holder, durable, promised, unknown, swallowed, runs>>
  BY DEF ExecuteFails
<1>2. /\ calls' \in Seq(Call) /\ Len(calls') = Len(calls) /\ Views' = Views
      /\ \A k \in Nat : Outer(k)' = Outer(k)
      /\ ~ Idle' /\ Top'.failed
  BY <1>1, Shape, CallErrs DEF Idle
<1>3. /\ conn' \in Conn /\ conn'.marks = conn.marks /\ conn'.open = conn.open
      /\ conn'.broken = conn.broken /\ conn'.writes = conn.writes
      /\ (conn'.aborted <=> conn.aborted \/ provider = "postgres")
  BY <1>1, FailingShape
<1>4. Exact' <=> Exact
  BY <1>1, <1>2 DEF Exact
<1>5. TypeOK'
  <2>1. TypeOK /\ faults' \in 0..MaxFaults
    BY Counts DEF Safe, TypeOK, ExecuteFails
  <2> QED BY <1>1, <1>2, <1>3, <2>1, Shape, TypeFrom DEF TypeOK
<1>6. HolderShape'
  <2>1. holder.held /\ conn.open
    BY <1>1, Shape DEF Safe, HolderShape
  <2> QED BY <1>1, <1>2, <1>3, <2>1 DEF Safe, HolderShape
<1>7. Counted'
  BY <1>1, <1>2, <1>3, <1>4 DEF Safe, Counted
<1>8. MarksOrdered'
  BY <1>1, <1>3, <1>4 DEF Safe, MarksOrdered
<1>9. MarksHoldViews'
  <2>1. \A k \in 1..(holder.counter - 1) : Outer(k)' = Outer(k)
    BY <1>2, Shape
  <2> QED BY <1>1, <1>2, <1>3, <1>4, <2>1 DEF Safe, MarksHoldViews
<1>10. NothingUnpromised' /\ KeepsPromises'
  BY <1>1 DEF Safe, NothingUnpromised, KeepsPromises
<1> QED BY <1>5, <1>6, <1>7, <1>8, <1>9, <1>10 DEF Safe

\* A statement outside of a closure: the transaction that may still be held is one that
\* lost count, or the row commits by itself.
LEMMA ExecuteOutsideSafe == ASSUME Safe, NEW w \in Write, ExecuteOutside(w) PROVE Safe'
<1>1. /\ Idle /\ promised' = promised \cup {w}
      /\ UNCHANGED <<provider, kept, abandoned, holder, calls, unknown, swallowed, runs, faults>>
  BY DEF ExecuteOutside
<1>2. CASE holder.held
  <2>1. /\ Works(conn) /\ durable' = durable /\ conn' = [conn EXCEPT !.writes = @ \cup {w}]
    BY <1>2 DEF ExecuteOutside
  <2>2. /\ conn' \in Conn /\ conn'.marks = conn.marks /\ conn'.open = conn.open
        /\ conn'.broken = conn.broken /\ conn'.aborted = conn.aborted
    BY <2>1, Shape DEF Conn
  <2>3. ~ conn.broken /\ ~ conn.aborted
    BY <2>1 DEF Works
  <2>4. ~ Exact /\ ~ Exact'
    BY <1>1, <1>2, Shape DEF Exact
  <2>5. abandoned \/ (provider = "postgres" /\ swallowed)
    BY <2>3, <2>4 DEF Safe, Counted
  <2>6. TypeOK'
    BY <1>1, <2>1, <2>2, Shape, TypeFrom DEF Safe, TypeOK
  <2>7. HolderShape'
    BY <1>1, <1>2, <2>2 DEF Safe, HolderShape
  <2>8. Counted'
    BY <1>1, <2>2, <2>3, <2>5 DEF Counted
  <2>9. MarksOrdered' /\ MarksHoldViews'
    BY <2>4 DEF MarksOrdered, MarksHoldViews
  <2>10. NothingUnpromised' /\ KeepsPromises'
    BY <1>1, <2>1, <2>5 DEF Safe, NothingUnpromised, KeepsPromises
  <2> QED BY <2>6, <2>7, <2>8, <2>9, <2>10 DEF Safe
<1>3. CASE ~ holder.held
  <2>1. durable' = durable \cup {w} /\ conn' = conn
    BY <1>3 DEF ExecuteOutside
  <2>2. TypeOK'
    BY <1>1, <2>1, Shape, TypeFrom DEF Safe, TypeOK
  <2>3. HolderShape'
    BY <1>1, <1>3, <2>1 DEF Safe, HolderShape
  <2>4. Counted'
    BY <1>1, <2>1 DEF Safe, Counted, Exact, Idle, Top
  <2>5. MarksOrdered' /\ MarksHoldViews'
    BY <1>1, <1>3 DEF MarksOrdered, MarksHoldViews
  <2>6. NothingUnpromised' /\ KeepsPromises'
    BY <1>1, <2>1 DEF Safe, NothingUnpromised, KeepsPromises
  <2> QED BY <2>2, <2>3, <2>4, <2>5, <2>6 DEF Safe
<1> QED BY <1>2, <1>3

\* At the last level exactly one closure runs, and nothing is held afterwards.
LEMMA LastLevel ==
  ASSUME Safe, ~ Idle, holder.counter = 1
  PROVE  /\ Len(calls) = 1 /\ Exact /\ holder.held /\ Views = Top.view
         /\ (Settled(NoHolder, NoConn) => holder' = NoHolder /\ conn' = NoConn)
         /\ (GivesErr => calls' = <<>> /\ promised' = promised)
         /\ (GivesOk => calls' = <<>> /\ promised' = promised \cup Top.view)
<1>1. Len(calls) = 1 /\ Exact /\ holder.held
  BY Shape DEF Exact
<1>2. Views = Top.view
  BY <1>1, Shape DEF Views, Top
<1>3. Settled(NoHolder, NoConn) => holder' = NoHolder /\ conn' = NoConn
  BY Zenon DEF Settled
<1>4. GivesErr => calls' = <<>> /\ promised' = promised
  <2>1. SubSeq(calls, 1, Len(calls) - 1) = <<>>
    BY <1>1, SubSeqEmpty
  <2> QED BY <2>1, Zenon DEF GivesErr
<1>5. GivesOk => calls' = <<>> /\ promised' = promised \cup Top.view
  BY <1>1, Zenon DEF GivesOk
<1> QED BY <1>1, <1>2, <1>3, <1>4, <1>5

\* The types after nothing is held.
LEMMA EmptyHasType == NoHolder \in Holder /\ NoConn \in Conn /\ <<>> \in Seq(Call)
<1>1. <<>> \in Seq(Call) /\ <<>> \in Seq(Mark)
  BY EmptySeq
<1>2. NoConn \in Conn
  BY <1>1 DEF NoConn, Conn
<1> QED BY <1>1, <1>2 DEF Holder

\* COMMIT: the rows of the session are those of the closure, which were promised now.
LEMMA CommitOutermostSafe == ASSUME Safe, CommitOutermost PROVE Safe'
<1>1. /\ ~ Idle /\ holder.counter = 1 /\ ~ conn.broken /\ Proceeds
      /\ Settled(NoHolder, NoConn) /\ GivesOk
      /\ durable' = IF conn.aborted THEN durable ELSE durable \cup conn.writes
      /\ UNCHANGED <<provider, kept, abandoned, unknown, runs, faults>>
  BY DEF CommitOutermost
<1>2. /\ Len(calls) = 1 /\ Exact /\ holder.held /\ Views = Top.view
      /\ holder' = NoHolder /\ conn' = NoConn /\ calls' = <<>>
      /\ promised' = promised \cup Top.view
  BY <1>1, LastLevel
<1>3. (swallowed => swallowed') /\ swallowed' \in BOOLEAN
  BY <1>1, Counts DEF Safe
<1>4. ~ conn.aborted => conn.writes = Top.view
  BY <1>1, <1>2 DEF Safe, MarksHoldViews
<1>5. Top.view \subseteq Write
  <2>1. calls \in Seq(Call) /\ 1 \in 1..Len(calls) /\ Top = calls[1]
    BY <1>2, Shape DEF Top
  <2>2. Top \in Call
    BY <2>1, ElementOfSeq
  <2> QED BY <2>2 DEF Call
<1>6. TypeOK'
  <2>1. durable' \subseteq Write /\ promised' \subseteq Write
    BY <1>1, <1>2, <1>5, Shape DEF Safe, TypeOK
  <2> QED BY <1>1, <1>2, <1>3, <2>1, EmptyHasType, TypeFrom DEF Safe, TypeOK
<1>7. HolderShape' /\ Counted' /\ MarksOrdered' /\ MarksHoldViews'
  BY <1>2, EmptyIsSafe
<1>8. NothingUnpromised'
  BY <1>1, <1>2, <1>4 DEF Safe, NothingUnpromised
<1>9. KeepsPromises'
  <2>1. CASE conn.aborted
    <3>1. provider = "postgres" /\ (abandoned \/ swallowed \/ (~ Idle /\ Top.failed))
      BY <1>1, <2>1 DEF Safe, HolderShape, Counted
    <3>2. abandoned' \/ swallowed'
      BY <1>1, <3>1 DEF Proceeds
    <3> QED BY <1>1, <3>1, <3>2 DEF KeepsPromises
  <2>2. CASE ~ conn.aborted
    BY <1>1, <1>2, <1>3, <1>4, <2>2 DEF Safe, KeepsPromises
  <2> QED BY <2>1, <2>2
<1> QED BY <1>6, <1>7, <1>8, <1>9 DEF Safe

\* COMMIT without an answer: what may be durable is unknown.
LEMMA CommitUnansweredSafe == ASSUME Safe, CommitUnanswered PROVE Safe'
<1>1. /\ ~ Idle /\ holder.counter = 1 /\ Proceeds /\ Settled(NoHolder, NoConn) /\ GivesErr
      /\ UNCHANGED <<provider, kept, abandoned, runs>>
  BY DEF CommitUnanswered
<1>2. holder' = NoHolder /\ conn' = NoConn /\ calls' = <<>> /\ promised' = promised
  BY <1>1, LastLevel
<1>3. (swallowed => swallowed') /\ swallowed' \in BOOLEAN
  BY <1>1, Counts DEF Safe
<1>4. \/ UNCHANGED <<durable, unknown, faults>>
      \/ /\ Fault /\ unknown' = unknown \cup conn.writes
         /\ durable' = durable \/ durable' = durable \cup conn.writes
  BY DEF CommitUnanswered
<1>5. /\ durable' \subseteq Write /\ unknown' \subseteq Write /\ faults' \in 0..MaxFaults
      /\ durable \subseteq durable' /\ NothingUnpromised'
  <2>1. TypeOK /\ conn.writes \subseteq Write /\ (Fault => faults' \in 0..MaxFaults)
    BY Shape, Counts DEF Safe
  <2>2. durable \subseteq promised \cup unknown
    BY DEF Safe, NothingUnpromised
  <2> QED BY <1>2, <1>4, <2>1, <2>2 DEF TypeOK, NothingUnpromised
<1>6. TypeOK'
  BY <1>1, <1>2, <1>3, <1>5, EmptyHasType, TypeFrom DEF Safe, TypeOK
<1>7. HolderShape' /\ Counted' /\ MarksOrdered' /\ MarksHoldViews'
  BY <1>2, EmptyIsSafe
<1>8. KeepsPromises'
  BY <1>1, <1>2, <1>3, <1>5 DEF Safe, KeepsPromises
<1> QED BY <1>5, <1>6, <1>7, <1>8 DEF Safe

\* ROLLBACK: nothing is durable that was not, and nothing is promised.
LEMMA RollbackOutermostSafe == ASSUME Safe, RollbackOutermost PROVE Safe'
<1>1. /\ ~ Idle /\ holder.counter = 1 /\ Settled(NoHolder, NoConn) /\ GivesErr
      /\ UNCHANGED <<provider, kept, abandoned, durable, unknown, swallowed, runs, faults>>
  BY DEF RollbackOutermost
<1>2. holder' = NoHolder /\ conn' = NoConn /\ calls' = <<>> /\ promised' = promised
  BY <1>1, LastLevel
<1>3. TypeOK'
  BY <1>1, <1>2, EmptyHasType, TypeFrom DEF Safe, TypeOK
<1>4. HolderShape' /\ Counted' /\ MarksOrdered' /\ MarksHoldViews'
  BY <1>2, EmptyIsSafe
<1> QED BY <1>1, <1>2, <1>3, <1>4 DEF Safe, NothingUnpromised, KeepsPromises

\* The connection dies.
LEMMA DisconnectSafe == ASSUME Safe, Disconnect PROVE Safe'
<1>1. /\ Fault /\ conn' = [conn EXCEPT !.broken = TRUE]
      /\ UNCHANGED <<provider, kept, abandoned, holder, calls, durable, promised, unknown, swallowed, runs>>
  BY DEF Disconnect
<1>2. /\ conn' \in Conn /\ conn'.open = conn.open /\ conn'.broken /\ conn'.aborted = conn.aborted
  BY <1>1, Shape DEF Conn
<1>3. TypeOK'
  <2>1. TypeOK /\ faults' \in 0..MaxFaults
    BY <1>1, Counts DEF Safe
  <2> QED BY <1>1, <1>2, <2>1, Shape, TypeFrom DEF TypeOK
<1>4. HolderShape'
  <2>1. holder.held
    BY DEF Disconnect, Safe, HolderShape
  <2> QED BY <1>1, <1>2, <2>1 DEF Safe, HolderShape
<1>5. Counted' /\ MarksOrdered' /\ MarksHoldViews'
  BY <1>2 DEF Counted, MarksOrdered, MarksHoldViews
<1>6. NothingUnpromised' /\ KeepsPromises'
  BY <1>1 DEF Safe, NothingUnpromised, KeepsPromises
<1> QED BY <1>3, <1>4, <1>5, <1>6 DEF Safe

\* A nested level that ends within a kept transaction: how the shape goes on, whatever
\* became of the session.
LEMMA NestedEnds ==
  ASSUME Safe, ~ Idle, holder.counter > 1, holder' = Dec(holder), conn' \in Conn,
         conn'.open = conn.open, conn'.aborted => provider = "postgres", provider' = provider,
         calls' \in Seq(Call), Len(calls') = Len(calls) - 1
  PROVE  HolderShape' /\ (Exact' <=> Exact) /\ holder'.held /\ holder.held
<1>1. /\ holder'.held /\ holder'.counter = holder.counter - 1 /\ holder.held
      /\ Len(holder'.names) = holder'.counter - 1
      /\ \A i \in DOMAIN holder'.names : holder'.names[i] = i
  BY DecShape
<1>2. Len(calls) \in Nat /\ holder.counter \in Nat /\ Len(calls) <= holder.counter
  BY Shape
<1>3. Exact' <=> Exact
  BY <1>1, <1>2 DEF Exact
<1>4. conn.open
  BY <1>1 DEF Safe, HolderShape
<1>5. HolderShape'
  BY <1>1, <1>2, <1>4 DEF HolderShape
<1> QED BY <1>1, <1>3, <1>5

\* The savepoint of the level that ends is there, unless the count was lost.
LEMMA LevelHasMark ==
  ASSUME Safe, holder.counter > 1, ~ conn.broken, Exact
  PROVE  \E i \in DOMAIN conn.marks :
           /\ IsLast(conn.marks, i, LastName(holder)) /\ conn.marks[i].writes = Outer(holder.counter - 1)
           /\ LastMark(conn, LastName(holder)) = i /\ Marked(conn, LastName(holder)) # {}
<1> DEFINE k == holder.counter - 1
<1>1. k \in 1..(holder.counter - 1) /\ k \in Nat /\ holder.held
  BY Shape
<1>2. LastName(holder) = k
  BY <1>1, HeldShape DEF LastName
<1>3. PICK i \in DOMAIN conn.marks : IsLast(conn.marks, i, k) /\ conn.marks[i].writes = Outer(k)
  BY <1>1 DEF Safe, MarksHoldViews
<1>4. i \in Nat /\ conn.marks \in Seq(Mark)
  BY Shape
<1>5. Marked(conn, k) # {} /\ LastMark(conn, k) = i
  <2> HIDE DEF k
  <2> QED BY <1>1, <1>3, <1>4, LastMarkIs
<1> QED BY <1>2, <1>3, <1>5

\* When a name is among the savepoints, LastMark is one of them.
LEMMA LastMarkIn ==
  ASSUME Safe, NEW name, Marked(conn, name) # {}
  PROVE  LastMark(conn, name) \in 1..Len(conn.marks)
<1>1. Marked(conn, name) \in SUBSET (1..Len(conn.marks)) /\ Len(conn.marks) \in Nat
  BY Shape DEF Marked
<1>2. \E i \in Marked(conn, name) : \A j \in Marked(conn, name) : j <= i
  BY <1>1, GreatestOf
<1>3. LastMark(conn, name) \in Marked(conn, name)
  BY <1>2 DEF LastMark
<1> QED BY <1>1, <1>3

\* The session that a release leaves.
LEMMA ReleasedShape ==
  ASSUME Safe, holder.counter > 1, CanRelease(conn, LastName(holder)),
         conn' = Released(conn, LastName(holder))
  PROVE  /\ conn' \in Conn /\ conn'.open = conn.open /\ ~ conn'.broken /\ ~ conn'.aborted
         /\ ~ conn.broken /\ ~ conn.aborted /\ conn'.writes = conn.writes
         /\ conn'.marks = SubSeq(conn.marks, 1, LastMark(conn, LastName(holder)) - 1)
<1> DEFINE i == LastMark(conn, LastName(holder))
           t == SubSeq(conn.marks, 1, i - 1)
<1>1. i \in 1..Len(conn.marks) /\ Works(conn)
  BY LastMarkIn DEF CanRelease
<1>2. conn.marks \in Seq(Mark) /\ i - 1 \in 0..Len(conn.marks) /\ conn \in Conn
  BY <1>1, Shape
<1> HIDE DEF i
<1>3. t \in Seq(Mark)
  BY <1>2, Prefix
<1>4. conn' = [conn EXCEPT !.marks = t]
  BY DEF Released, i
<1> HIDE DEF t
<1>5. conn' \in Conn
  BY <1>2, <1>3, <1>4 DEF Conn
<1>6. /\ conn'.open = conn.open /\ conn'.broken = conn.broken /\ conn'.aborted = conn.aborted
      /\ conn'.writes = conn.writes /\ conn'.marks = t
  BY <1>2, <1>4 DEF Conn
<1>7. ~ conn.broken /\ ~ conn.aborted
  BY <1>1 DEF Works
<1> QED BY <1>5, <1>6, <1>7 DEF t, i

\* The session that a return to a savepoint leaves.
LEMMA ReturnedShape ==
  ASSUME Safe, holder.counter > 1, CanReturn(conn, LastName(holder)),
         conn' = Returned(conn, LastName(holder))
  PROVE  /\ conn' \in Conn /\ conn'.open = conn.open /\ ~ conn'.broken /\ ~ conn'.aborted
         /\ ~ conn.broken
         /\ conn'.writes = conn.marks[LastMark(conn, LastName(holder))].writes
         /\ conn'.marks = SubSeq(conn.marks, 1, LastMark(conn, LastName(holder)))
<1> DEFINE i == LastMark(conn, LastName(holder))
           t == SubSeq(conn.marks, 1, i)
           W == conn.marks[i].writes
<1>1. i \in 1..Len(conn.marks) /\ ~ conn.broken
  BY LastMarkIn DEF CanReturn
<1>2. conn.marks \in Seq(Mark) /\ i \in 0..Len(conn.marks) /\ conn \in Conn
  BY <1>1, Shape
<1> HIDE DEF i
<1>3. t \in Seq(Mark)
  BY <1>2, Prefix
<1>4. W \in SUBSET Write
  <2>1. conn.marks[i] \in Mark
    BY <1>1, <1>2, ElementOfSeq
  <2> QED BY <2>1 DEF Mark
<1>5. conn' = [conn EXCEPT !.marks = t, !.writes = W, !.aborted = FALSE]
  BY DEF Returned, i
<1> HIDE DEF t, W
<1>6. conn' \in Conn
  BY <1>2, <1>3, <1>4, <1>5 DEF Conn
<1>7. /\ conn'.open = conn.open /\ conn'.broken = conn.broken /\ ~ conn'.aborted
      /\ conn'.writes = W /\ conn'.marks = t
  BY <1>2, <1>5 DEF Conn
<1> QED BY <1>1, <1>6, <1>7 DEF t, W, i

\* A drop of the handle by the outermost run leaves nothing.
LEMMA DropIsSafe ==
  ASSUME Safe, ~ Idle, Len(calls) = 1, ~ kept, NEW h, NEW c, Settled(h, c), GivesOk \/ GivesErr
  PROVE  /\ holder' = NoHolder /\ conn' = NoConn /\ calls' = <<>>
         /\ HolderShape' /\ Counted' /\ MarksOrdered' /\ MarksHoldViews'
<1>1. holder' = NoHolder /\ conn' = NoConn
  BY Zenon DEF Settled
<1>2. calls' = <<>>
  <2>1. SubSeq(calls, 1, Len(calls) - 1) = <<>>
    BY SubSeqEmpty
  <2>2. CASE GivesOk
    BY <2>2, Zenon DEF GivesOk
  <2>3. CASE GivesErr
    BY <2>1, <2>3, Zenon DEF GivesErr
  <2> QED BY <2>2, <2>3
<1> QED BY <1>1, <1>2, EmptyIsSafe

\* A nested level that releases its savepoint.
LEMMA ReleaseSafe ==
  ASSUME Safe, ~ Idle, holder.counter > 1, CanRelease(conn, LastName(holder)),
         Settled(Dec(holder), Released(conn, LastName(holder))), GivesOk, Proceeds,
         UNCHANGED <<provider, kept, abandoned, durable, unknown, runs, faults>>
  PROVE  Safe'
<1>1. (swallowed => swallowed') /\ swallowed' \in BOOLEAN
  BY Counts DEF Safe
<1>2. ~ conn.broken /\ ~ conn.aborted
  BY DEF CanRelease, Works
<1>3. /\ Len(calls) \in Nat /\ Len(calls) > 0 /\ holder.counter \in Nat /\ calls \in Seq(Call)
      /\ Len(calls) = 1 \/ Len(calls) > 1
  BY Shape
<1>4. /\ promised' \subseteq Write /\ promised \subseteq promised'
      /\ (promised' = promised \/ abandoned \/ (provider = "postgres" /\ swallowed))
  <2>1. CASE Len(calls) = 1
    <3>1. promised' = promised \cup Top.view
      BY <2>1, Zenon DEF GivesOk
    <3>2. Top \in Call
      <4>1. 1 \in 1..Len(calls) /\ Top = calls[1]
        BY <2>1 DEF Top
      <4> QED BY <1>3, <4>1, ElementOfSeq
    <3>3. ~ Exact
      BY <2>1 DEF Exact
    <3>4. abandoned \/ (provider = "postgres" /\ swallowed)
      BY <1>2, <3>3 DEF Safe, Counted
    <3>5. Top.view \subseteq Write
      BY <3>2 DEF Call
    <3> QED BY <3>1, <3>4, <3>5 DEF Safe, TypeOK
  <2>2. CASE Len(calls) # 1
    <3>1. promised' = promised
      BY <2>2, Zenon DEF GivesOk
    <3> QED BY <3>1 DEF Safe, TypeOK
  <2> QED BY <2>1, <2>2
<1>5. NothingUnpromised' /\ KeepsPromises'
  BY <1>1, <1>4 DEF Safe, NothingUnpromised, KeepsPromises
<1>6. CASE Len(calls) = 1 /\ ~ kept
  <2>1. /\ holder' = NoHolder /\ conn' = NoConn /\ calls' = <<>>
        /\ HolderShape' /\ Counted' /\ MarksOrdered' /\ MarksHoldViews'
    BY <1>6, DropIsSafe
  <2>2. TypeOK'
    BY <1>1, <1>4, <2>1, EmptyHasType, TypeFrom DEF Safe, TypeOK
  <2> QED BY <1>5, <2>1, <2>2 DEF Safe
<1>7. CASE ~ (Len(calls) = 1 /\ ~ kept)
  <2>1. holder' = Dec(holder) /\ conn' = Released(conn, LastName(holder))
    BY <1>7, Zenon DEF Settled
  <2>2. /\ conn' \in Conn /\ conn'.open = conn.open /\ ~ conn'.broken /\ ~ conn'.aborted
        /\ conn'.writes = conn.writes
        /\ conn'.marks = SubSeq(conn.marks, 1, LastMark(conn, LastName(holder)) - 1)
    BY <2>1, ReleasedShape
  <2>3. calls' \in Seq(Call) /\ Len(calls') = Len(calls) - 1
    <3>1. CASE Len(calls) = 1
      <4>1. calls' = <<>>
        BY <3>1, Zenon DEF GivesOk
      <4> QED BY <3>1, <4>1, EmptySeq
    <3>2. CASE Len(calls) # 1
      BY <1>3, <3>2, CallSucceeds
    <3> QED BY <3>1, <3>2
  <2>4. HolderShape' /\ (Exact' <=> Exact) /\ holder'.held /\ holder.held
    BY <2>1, <2>2, <2>3, NestedEnds
  <2>5. holder' \in Holder /\ holder'.counter = holder.counter - 1 /\ LastName(holder) = holder.counter - 1
    BY <2>1, DecShape
  <2>6. TypeOK'
    BY <1>1, <1>4, <2>2, <2>3, <2>5, TypeFrom DEF Safe, TypeOK
  <2>7. Counted'
    BY <1>1, <1>2, <2>2, <2>4 DEF Safe, Counted
  <2>8. ASSUME Exact
        PROVE  /\ Ordered(conn'.marks) /\ Below(conn'.marks, holder.counter - 1)
               /\ \A k \in 1..(holder.counter - 2) : \E i \in DOMAIN conn'.marks :
                    IsLast(conn'.marks, i, k) /\ conn'.marks[i].writes = Outer(k)'
               /\ conn'.writes = Views'
    <3> DEFINE c == holder.counter - 1
    <3>1. PICK i \in DOMAIN conn.marks : IsLast(conn.marks, i, c) /\ LastMark(conn, LastName(holder)) = i
      BY <1>2, <2>5, <2>8, LevelHasMark
    <3>2. /\ Ordered(conn.marks) /\ conn.writes = Views
          /\ \A k \in 1..(holder.counter - 1) : \E j \in DOMAIN conn.marks :
               IsLast(conn.marks, j, k) /\ conn.marks[j].writes = Outer(k)
      BY <1>2, <2>4, <2>8 DEF Safe, MarksOrdered, MarksHoldViews
    <3>3. c \in Nat /\ conn.marks \in Seq(Mark) /\ conn'.marks = SubSeq(conn.marks, 1, i - 1) /\ c = Len(calls) - 1
      BY <1>3, <2>2, <2>8, <3>1, Shape DEF Exact
    <3>4. /\ Ordered(conn'.marks) /\ Below(conn'.marks, c)
          /\ \A k \in Nat : \A j \in DOMAIN conn.marks :
               IsLast(conn.marks, j, k) /\ k < c =>
                 IsLast(conn'.marks, j, k) /\ conn'.marks[j] = conn.marks[j] /\ j \in DOMAIN conn'.marks
      <4> HIDE DEF c
      <4>1. Cut(conn.marks, i, c, i - 1)
        BY <3>1, <3>2 DEF Cut
      <4>2. Ordered(SubSeq(conn.marks, 1, i - 1)) /\ Below(SubSeq(conn.marks, 1, i - 1), c)
        BY <3>3, <4>1, MarksCut
      <4>3. ASSUME NEW k \in Nat, NEW j \in DOMAIN conn.marks, IsLast(conn.marks, j, k), k < c
            PROVE  /\ IsLast(SubSeq(conn.marks, 1, i - 1), j, k)
                   /\ SubSeq(conn.marks, 1, i - 1)[j] = conn.marks[j]
                   /\ j \in DOMAIN SubSeq(conn.marks, 1, i - 1)
        BY <3>3, <4>1, <4>3, LastIsLeft
      <4> QED BY <3>3, <4>2, <4>3
    <3>5. /\ Views' = Views /\ \A k \in Nat : k < Len(calls) - 1 => Outer(k)' = Outer(k)
      BY <1>3, <3>3, CallSucceeds
    <3>6. ASSUME NEW k \in 1..(holder.counter - 2)
          PROVE  \E j \in DOMAIN conn'.marks :
                   IsLast(conn'.marks, j, k) /\ conn'.marks[j].writes = Outer(k)'
      <4>1. k \in Nat /\ k < c /\ k < Len(calls) - 1 /\ k \in 1..(holder.counter - 1)
        BY <1>3, <3>3
      <4>2. PICK j \in DOMAIN conn.marks : IsLast(conn.marks, j, k) /\ conn.marks[j].writes = Outer(k)
        BY <3>2, <4>1
      <4>3. IsLast(conn'.marks, j, k) /\ conn'.marks[j] = conn.marks[j] /\ j \in DOMAIN conn'.marks
        BY <3>4, <4>1, <4>2
      <4> QED BY <3>5, <4>1, <4>2, <4>3
    <3> QED BY <2>2, <3>2, <3>4, <3>5, <3>6
  <2>9. MarksOrdered' /\ MarksHoldViews'
    <3>1. 1..(holder'.counter - 1) = 1..(holder.counter - 2)
      BY <1>3, <2>5
    <3> QED BY <2>2, <2>4, <2>5, <2>8, <3>1 DEF MarksOrdered, MarksHoldViews
  <2> QED BY <1>5, <2>4, <2>6, <2>7, <2>9 DEF Safe
<1> QED BY <1>6, <1>7

\* What a nested level leaves that ends with an error.
LEMMA NestedErrs ==
  ASSUME Safe, ~ Idle, holder.counter > 1, NEW c, Settled(Dec(holder), c), GivesErr,
         UNCHANGED <<provider, kept, abandoned, durable, unknown, runs, faults>>,
         swallowed' \in BOOLEAN, swallowed => swallowed'
  PROVE  /\ promised' = promised /\ NothingUnpromised' /\ KeepsPromises'
         /\ (Len(calls) = 1 /\ ~ kept) => Safe'
         /\ ~ (Len(calls) = 1 /\ ~ kept) =>
              /\ holder' = Dec(holder) /\ conn' = c
              /\ (c \in Conn => TypeOK')
<1>1. promised' = promised
  BY DEF GivesErr
<1>2. NothingUnpromised' /\ KeepsPromises'
  BY <1>1 DEF Safe, NothingUnpromised, KeepsPromises
<1>3. ASSUME Len(calls) = 1, ~ kept PROVE Safe'
  <2>1. /\ holder' = NoHolder /\ conn' = NoConn /\ calls' = <<>>
        /\ HolderShape' /\ Counted' /\ MarksOrdered' /\ MarksHoldViews'
    BY <1>3, DropIsSafe
  <2>2. TypeOK'
    BY <1>1, <2>1, EmptyHasType, TypeFrom DEF Safe, TypeOK
  <2> QED BY <1>2, <2>1, <2>2 DEF Safe
<1>4. ASSUME ~ (Len(calls) = 1 /\ ~ kept)
      PROVE  holder' = Dec(holder) /\ conn' = c /\ (c \in Conn => TypeOK')
  <2>1. holder' = Dec(holder) /\ conn' = c
    BY <1>4, Zenon DEF Settled
  <2>2. holder' \in Holder
    BY <2>1, DecShape
  <2>3. calls' \in Seq(Call)
    BY Shape, CallFails DEF Idle
  <2> QED BY <1>1, <2>1, <2>2, <2>3, TypeFrom DEF Safe, TypeOK
<1> QED BY <1>1, <1>2, <1>3, <1>4

\* A nested level whose RELEASE or ROLLBACK TO fails: the session is dead or aborted, or
\* the count was lost before.
LEMMA NestedLost ==
  ASSUME Safe, ~ Idle, holder.counter > 1, Settled(Dec(holder), Failing(conn)), GivesErr,
         UNCHANGED <<provider, kept, abandoned, durable, unknown, runs, faults>>,
         swallowed' \in BOOLEAN, swallowed => swallowed',
         conn.broken \/ (conn.aborted /\ (abandoned \/ swallowed')) \/ ~ Exact
  PROVE  Safe'
<1>1. /\ NothingUnpromised' /\ KeepsPromises'
      /\ (Len(calls) = 1 /\ ~ kept) => Safe'
  BY NestedErrs
<1>2. SUFFICES ASSUME ~ (Len(calls) = 1 /\ ~ kept) PROVE Safe'
  BY <1>1
<1>3. holder' = Dec(holder) /\ conn' = Failing(conn)
  BY <1>2, NestedErrs
<1>4. /\ conn' \in Conn /\ conn'.marks = conn.marks /\ conn'.open = conn.open
      /\ conn'.broken = conn.broken /\ conn'.writes = conn.writes
      /\ (conn'.aborted <=> conn.aborted \/ provider = "postgres")
  BY <1>3, FailingShape
<1>5. TypeOK'
  <2>1. Failing(conn) \in Conn
    BY <1>3, <1>4
  <2> QED BY <1>2, <2>1, NestedErrs
<1>6. /\ calls' \in Seq(Call) /\ Len(calls') = Len(calls) - 1
      /\ \A k \in Nat : k <= Len(calls) - 1 => Outer(k)' = Outer(k)
  BY Shape, CallFails DEF Idle
<1>7. conn'.aborted => provider = "postgres"
  BY <1>4 DEF Safe, HolderShape
<1>8. HolderShape' /\ (Exact' <=> Exact) /\ holder'.held /\ holder.held
  BY <1>3, <1>4, <1>6, <1>7, NestedEnds
<1>9. holder'.counter = holder.counter - 1 /\ holder.counter \in Nat
  BY <1>3, DecShape, Shape
<1>10. Counted'
  <2>1. abandoned \/ conn.broken \/ (provider = "postgres" /\ swallowed') \/ Exact
    BY DEF Safe, Counted
  <2>2. ~ abandoned /\ conn'.aborted /\ ~ conn.broken => swallowed'
    BY <2>1, <1>4
  <2> QED BY <1>4, <1>8, <2>1, <2>2 DEF Counted
<1>11. MarksOrdered' /\ MarksHoldViews'
  <2> SUFFICES ASSUME ~ conn.broken, Exact
               PROVE  /\ Ordered(conn.marks) /\ conn'.aborted
                      /\ \A k \in 1..(holder'.counter - 1) : \E i \in DOMAIN conn.marks :
                           IsLast(conn.marks, i, k) /\ conn.marks[i].writes = Outer(k)'
    BY <1>4, <1>8 DEF MarksOrdered, MarksHoldViews
  <2>1. /\ Ordered(conn.marks)
        /\ \A k \in 1..(holder.counter - 1) : \E i \in DOMAIN conn.marks :
             IsLast(conn.marks, i, k) /\ conn.marks[i].writes = Outer(k)
    BY <1>8 DEF Safe, MarksOrdered, MarksHoldViews
  <2>2. conn'.aborted
    BY <1>4
  <2>3. \A k \in 1..(holder'.counter - 1) :
          k \in Nat /\ k \in 1..(holder.counter - 1) /\ k <= Len(calls) - 1
    BY <1>9 DEF Exact
  <2>4. \A k \in 1..(holder'.counter - 1) : Outer(k)' = Outer(k)
    BY <1>6, <2>3
  <2> QED BY <2>1, <2>2, <2>3, <2>4
<1> QED BY <1>1, <1>5, <1>8, <1>10, <1>11 DEF Safe

\* A nested level that ends with Ok: its savepoint is released, or the session is dead or
\* aborted, or the count was lost before.
LEMMA CommitNestedSafe == ASSUME Safe, CommitNested PROVE Safe'
<1>1. ~ Idle /\ holder.counter > 1 /\ Proceeds /\ UNCHANGED <<provider, kept, abandoned, durable, unknown, runs, faults>>
  BY DEF CommitNested
<1>2. (swallowed => swallowed') /\ swallowed' \in BOOLEAN
  BY <1>1, Counts DEF Safe
<1>3. CASE CanRelease(conn, LastName(holder))
  <2>1. Settled(Dec(holder), Released(conn, LastName(holder))) /\ GivesOk
    BY <1>3 DEF CommitNested
  <2> QED BY <1>1, <1>3, <2>1, ReleaseSafe
<1>4. CASE ~ CanRelease(conn, LastName(holder))
  <2>1. Settled(Dec(holder), Failing(conn)) /\ GivesErr
    BY <1>4 DEF CommitNested
  <2>2. conn.broken \/ (conn.aborted /\ (abandoned \/ swallowed')) \/ ~ Exact
    <3> SUFFICES ASSUME ~ conn.broken, Exact PROVE conn.aborted /\ (abandoned \/ swallowed')
      OBVIOUS
    <3>1. Marked(conn, LastName(holder)) # {}
      BY <1>1, LevelHasMark
    <3>2. conn.open
      BY <1>1, Shape DEF Safe, HolderShape
    <3>3. conn.aborted
      BY <1>4, <3>1, <3>2 DEF CanRelease, Works
    <3>4. abandoned \/ swallowed \/ (~ Idle /\ Top.failed)
      BY <3>3 DEF Safe, Counted
    <3> QED BY <1>1, <3>3, <3>4 DEF Proceeds
  <2> QED BY <1>1, <1>2, <2>1, <2>2, NestedLost
<1> QED BY <1>3, <1>4

\* ROLLBACK TO: the session has again the rows of the closures outside of the level.
LEMMA ReturnSafe ==
  ASSUME Safe, ~ Idle, holder.counter > 1, CanReturn(conn, LastName(holder)),
         Settled(Dec(holder), Returned(conn, LastName(holder))), GivesErr,
         UNCHANGED <<provider, kept, abandoned, durable, unknown, swallowed, runs, faults>>
  PROVE  Safe'
<1>1. swallowed' \in BOOLEAN /\ (swallowed => swallowed')
  BY DEF Safe, TypeOK
<1>2. /\ NothingUnpromised' /\ KeepsPromises'
      /\ (Len(calls) = 1 /\ ~ kept) => Safe'
  BY <1>1, NestedErrs
<1>3. SUFFICES ASSUME ~ (Len(calls) = 1 /\ ~ kept) PROVE Safe'
  BY <1>2
<1>4. holder' = Dec(holder) /\ conn' = Returned(conn, LastName(holder))
  BY <1>1, <1>3, NestedErrs
<1>5. /\ conn' \in Conn /\ conn'.open = conn.open /\ ~ conn'.broken /\ ~ conn'.aborted
      /\ ~ conn.broken
      /\ conn'.writes = conn.marks[LastMark(conn, LastName(holder))].writes
      /\ conn'.marks = SubSeq(conn.marks, 1, LastMark(conn, LastName(holder)))
  BY <1>4, ReturnedShape
<1>6. TypeOK'
  <2>1. Returned(conn, LastName(holder)) \in Conn
    BY <1>4, <1>5
  <2> QED BY <1>1, <1>3, <2>1, NestedErrs
<1>7. /\ calls' \in Seq(Call) /\ Len(calls') = Len(calls) - 1
      /\ Views' = Outer(Len(calls) - 1)
      /\ \A k \in Nat : k <= Len(calls) - 1 => Outer(k)' = Outer(k)
  BY Shape, CallFails DEF Idle
<1>8. HolderShape' /\ (Exact' <=> Exact) /\ holder'.held /\ holder.held
  BY <1>4, <1>5, <1>7, NestedEnds
<1>9. /\ holder'.counter = holder.counter - 1 /\ holder.counter \in Nat
      /\ LastName(holder) = holder.counter - 1
  BY <1>4, DecShape, Shape
<1>10. Counted'
  BY <1>1, <1>5, <1>8 DEF Safe, Counted
<1>11. ASSUME Exact
       PROVE  /\ Ordered(conn'.marks) /\ Below(conn'.marks, holder.counter - 1)
              /\ \A k \in 1..(holder.counter - 2) : \E i \in DOMAIN conn'.marks :
                   IsLast(conn'.marks, i, k) /\ conn'.marks[i].writes = Outer(k)'
              /\ conn'.writes = Views'
  <2> DEFINE c == holder.counter - 1
  <2>1. PICK i \in DOMAIN conn.marks :
          /\ IsLast(conn.marks, i, c) /\ LastMark(conn, LastName(holder)) = i
          /\ conn.marks[i].writes = Outer(c)
    BY <1>5, <1>9, <1>11, LevelHasMark
  <2>2. /\ Ordered(conn.marks)
        /\ \A k \in 1..(holder.counter - 1) : \E j \in DOMAIN conn.marks :
             IsLast(conn.marks, j, k) /\ conn.marks[j].writes = Outer(k)
    BY <1>5, <1>8, <1>11 DEF Safe, MarksOrdered, MarksHoldViews
  <2>3. c \in Nat /\ conn.marks \in Seq(Mark) /\ conn'.marks = SubSeq(conn.marks, 1, i) /\ c = Len(calls) - 1
    BY <1>5, <1>11, <2>1, Shape DEF Exact
  <2>4. conn'.writes = Views'
    BY <1>5, <1>7, <2>1, <2>3
  <2>5. Cut(conn.marks, i, c, i)
    BY <2>1, <2>2 DEF Cut
  <2>6. Ordered(conn'.marks) /\ Below(conn'.marks, c)
    <3> HIDE DEF c
    <3>1. Ordered(SubSeq(conn.marks, 1, i)) /\ Below(SubSeq(conn.marks, 1, i), c)
      BY <2>3, <2>5, MarksCut
    <3> QED BY <2>3, <3>1
  <2>7. ASSUME NEW k \in 1..(holder.counter - 2)
        PROVE  \E j \in DOMAIN conn'.marks :
                 IsLast(conn'.marks, j, k) /\ conn'.marks[j].writes = Outer(k)'
    <3>1. k \in Nat /\ k < c /\ k <= Len(calls) - 1 /\ k \in 1..(holder.counter - 1)
      BY <1>9, <2>3
    <3>2. PICK j \in DOMAIN conn.marks : IsLast(conn.marks, j, k) /\ conn.marks[j].writes = Outer(k)
      BY <2>2, <3>1
    <3> HIDE DEF c
    <3>3. /\ IsLast(SubSeq(conn.marks, 1, i), j, k)
          /\ SubSeq(conn.marks, 1, i)[j] = conn.marks[j]
          /\ j \in DOMAIN SubSeq(conn.marks, 1, i)
      BY <2>3, <2>5, <3>1, <3>2, LastIsLeft
    <3> QED BY <1>7, <2>3, <3>1, <3>2, <3>3
  <2> QED BY <2>4, <2>6, <2>7
<1>12. MarksOrdered' /\ MarksHoldViews'
  <2>1. 1..(holder'.counter - 1) = 1..(holder.counter - 2)
    BY <1>9
  <2> QED BY <1>5, <1>8, <1>9, <1>11, <2>1 DEF MarksOrdered, MarksHoldViews
<1> QED BY <1>2, <1>6, <1>8, <1>10, <1>12 DEF Safe

\* A nested level that ends with an error.
LEMMA RollbackNestedSafe == ASSUME Safe, RollbackNested PROVE Safe'
<1>1. /\ ~ Idle /\ holder.counter > 1 /\ GivesErr
      /\ UNCHANGED <<provider, kept, abandoned, durable, unknown, swallowed, runs, faults>>
  BY DEF RollbackNested
<1>2. CASE CanReturn(conn, LastName(holder))
  <2>1. Settled(Dec(holder), Returned(conn, LastName(holder)))
    BY <1>2 DEF RollbackNested
  <2> QED BY <1>1, <1>2, <2>1, ReturnSafe
<1>3. CASE ~ CanReturn(conn, LastName(holder))
  <2>1. Settled(Dec(holder), Failing(conn))
    BY <1>3 DEF RollbackNested
  <2>2. conn.broken \/ ~ Exact
    BY <1>1, <1>3, LevelHasMark DEF CanReturn
  <2>3. swallowed' \in BOOLEAN /\ (swallowed => swallowed')
    BY <1>1 DEF Safe, TypeOK
  <2> QED BY <1>1, <2>1, <2>2, <2>3, NestedLost
<1> QED BY <1>2, <1>3

\* A run that is abandoned: with its handle goes the session, or a level stays counted.
LEMMA AbandonSafe == ASSUME Safe, Abandon PROVE Safe'
<1>1. /\ ~ Idle /\ Fault /\ Settled(holder, conn) /\ GivesErr
      /\ abandoned' = (abandoned \/ kept \/ Len(calls) > 1)
      /\ swallowed' = (swallowed \/ ((kept \/ Len(calls) > 1) /\ Top.failed))
      /\ UNCHANGED <<provider, kept, durable, unknown, runs>>
  BY Zenon DEF Abandon
<1>2. Len(calls) \in Nat /\ Len(calls) > 0 /\ TypeOK /\ faults' \in 0..MaxFaults
  BY <1>1, Shape, Counts DEF Safe
<1>3. abandoned' \in BOOLEAN /\ swallowed' \in BOOLEAN
  BY <1>1, Zenon
<1>4. (abandoned => abandoned') /\ (swallowed => swallowed') /\ promised' = promised
  BY <1>1 DEF GivesErr
<1>5. NothingUnpromised' /\ KeepsPromises'
  BY <1>1, <1>4 DEF Safe, NothingUnpromised, KeepsPromises
<1>6. CASE Len(calls) = 1 /\ ~ kept
  <2>1. /\ holder' = NoHolder /\ conn' = NoConn /\ calls' = <<>>
        /\ HolderShape' /\ Counted' /\ MarksOrdered' /\ MarksHoldViews'
    BY <1>1, <1>6, DropIsSafe
  <2>2. TypeOK'
    BY <1>1, <1>2, <1>3, <1>4, <2>1, EmptyHasType, TypeFrom DEF TypeOK
  <2> QED BY <1>5, <2>1, <2>2 DEF Safe
<1>7. CASE ~ (Len(calls) = 1 /\ ~ kept)
  <2>1. holder' = holder /\ conn' = conn
    BY <1>1, <1>7, Zenon DEF Settled
  <2>2. kept \/ Len(calls) > 1
    BY <1>2, <1>7
  <2>3. abandoned' /\ (Top.failed => swallowed')
    BY <1>1, <2>2
  <2>4. calls' \in Seq(Call) /\ Len(calls') = Len(calls) - 1
    BY <1>1, Shape, CallFails DEF Idle
  <2>5. ~ Exact'
    BY <1>2, <2>1, <2>4, Shape DEF Exact
  <2>6. TypeOK'
    BY <1>1, <1>2, <1>3, <1>4, <2>1, <2>4, Shape, TypeFrom DEF TypeOK
  <2>7. HolderShape'
    <3>1. Len(calls') <= holder'.counter
      BY <1>2, <2>1, <2>4, Shape
    <3> QED BY <1>1, <2>1, <3>1 DEF Safe, HolderShape
  <2>8. Counted'
    BY <2>3 DEF Counted
  <2>9. MarksOrdered' /\ MarksHoldViews'
    BY <2>5 DEF MarksOrdered, MarksHoldViews
  <2> QED BY <1>5, <2>6, <2>7, <2>8, <2>9 DEF Safe
<1> QED BY <1>6, <1>7

\* A step that changes nothing keeps the invariant.
LEMMA StutterSafe == ASSUME Safe, UNCHANGED vars PROVE Safe'
<1> USE DEF vars
<1>1. TypeOK'
  BY DEF Safe, TypeOK
<1>2. HolderShape' /\ Counted'
  BY DEF Safe, HolderShape, Counted, Exact, Idle, Top
<1>3. MarksOrdered' /\ MarksHoldViews'
  BY DEF Safe, MarksOrdered, MarksHoldViews, Exact, Outer, Views
<1> QED BY <1>1, <1>2, <1>3 DEF Safe, NothingUnpromised, KeepsPromises

----------------------------------------------------------------------------
(* The theorems.                                                           *)

\* Safe is inductive.
THEOREM SafeIsInvariant == Spec => []Safe
<1>1. ASSUME Safe, [Next]_vars PROVE Safe'
  <2>1. ASSUME NEW ro \in BOOLEAN, BeginTxn(ro) PROVE Safe'
    BY <1>1, <2>1, BeginTxnSafe
  <2>2. ASSUME NEW ro \in BOOLEAN, BeginNested(ro) PROVE Safe'
    BY <1>1, <2>2, BeginNestedSafe
  <2>3. CASE BeginFails
    BY <1>1, <2>3, BeginFailsSafe
  <2>4. ASSUME NEW w \in Write, Execute(w) PROVE Safe'
    BY <1>1, <2>4, ExecuteSafe
  <2>5. ASSUME NEW w \in Write, ExecuteOutside(w) PROVE Safe'
    BY <1>1, <2>5, ExecuteOutsideSafe
  <2>6. CASE ExecuteFails
    BY <1>1, <2>6, ExecuteFailsSafe
  <2>7. CASE CommitOutermost
    BY <1>1, <2>7, CommitOutermostSafe
  <2>8. CASE CommitUnanswered
    BY <1>1, <2>8, CommitUnansweredSafe
  <2>9. CASE CommitNested
    BY <1>1, <2>9, CommitNestedSafe
  <2>10. CASE RollbackOutermost
    BY <1>1, <2>10, RollbackOutermostSafe
  <2>11. CASE RollbackNested
    BY <1>1, <2>11, RollbackNestedSafe
  <2>12. CASE Disconnect
    BY <1>1, <2>12, DisconnectSafe
  <2>13. CASE Abandon
    BY <1>1, <2>13, AbandonSafe
  <2>14. CASE UNCHANGED vars
    BY <1>1, <2>14, StutterSafe
  <2> QED
    BY <1>1, <2>1, <2>2, <2>3, <2>4, <2>5, <2>6, <2>7, <2>8, <2>9, <2>10, <2>11, <2>12, <2>13, <2>14
    DEF Next
<1> QED BY <1>1, InitSafe, PTL DEF Spec

\* The state keeps its type.
THEOREM TypeIsInvariant == Spec => []TypeOK
<1>1. Safe => TypeOK
  BY DEF Safe
<1> QED BY <1>1, SafeIsInvariant, PTL

\* The depth the holder counts is the number of running closures, unless a SAVEPOINT could
\* fail or a run was abandoned: DepthMatches, for any rows, depth, runs and faults.
THEOREM DepthIsCounted == Spec => []DepthMatches
<1>1. Safe => DepthMatches
  BY Shape DEF Safe, Counted, Exact, DepthMatches
<1> QED BY <1>1, SafeIsInvariant, PTL

\* Until a run is abandoned or a failure swallowed, a working session holds the rows of the
\* running closures, no more and no fewer, although ROLLBACK TO leaves its savepoint and the
\* holder gives the name out again: ViewIsWritten.
THEOREM SessionHoldsViews == Spec => []ViewIsWritten
<1>1. Safe => ViewIsWritten
  BY DEF Safe, HolderShape, Counted, MarksHoldViews, ViewIsWritten, Works
<1> QED BY <1>1, SafeIsInvariant, PTL

\* What is durable was promised, or its COMMIT got no answer, whatever statements failed and
\* whoever went on: NothingUnpromised.
THEOREM FailureLeavesNothing == Spec => []NothingUnpromised
<1>1. Safe => NothingUnpromised
  BY DEF Safe
<1> QED BY <1>1, SafeIsInvariant, PTL

\* Ok of the outermost run means committed, unless a run was abandoned, or on PostgreSQL a
\* closure went on after a failed statement: KeepsPromises.
THEOREM OkIsCommitted == Spec => []KeepsPromises
<1>1. Safe => KeepsPromises
  BY DEF Safe
<1> QED BY <1>1, SafeIsInvariant, PTL

============================================================================
