------------------------ MODULE QueueMachine_proofs ------------------------
(***************************************************************************)
(* The array heap of queue/queue.c keeps its order and implements          *)
(* PriorityBag, for every capacity, set of processes and priorities.       *)
(*                                                                         *)
(* bubble_up and bubble_down are recursive functions of the index at which *)
(* the moving process stands.  What they compute is proved by induction on *)
(* that index, upwards and downwards; the induction is over a set of       *)
(* natural numbers, which has a least element outside if any.              *)
(***************************************************************************)
EXTENDS QueueMachine, FiniteSetTheorems, NaturalsInduction, TLAPS

-----------------------------------------------------------------------------
(* Induction.                                                               *)

\* A set that contains each number whose predecessors it contains contains all.
LEMMA StrongInduction ==
    ASSUME NEW S, \A n \in Nat : (\A m \in 0 .. n - 1 : m \in S) => n \in S
    PROVE  Nat \subseteq S
<1> SUFFICES ASSUME Nat \ S # {} PROVE FALSE
  OBVIOUS
<1>1. IsWellFoundedOn({ss \in Nat \X Nat : ss[1] < ss[2]}, Nat)
  BY NatLessThanWellFounded, Zenon DEF OpToRel
<1>2. PICK R : R = {ss \in Nat \X Nat : ss[1] < ss[2]}
  OBVIOUS
<1>3. \A x, y \in Nat : <<y, x>> \in R <=> y < x
  BY <1>2
<1>4. IsWellFoundedOn(R, Nat)
  BY <1>1, <1>2, Zenon
<1>5. PICK x \in Nat \ S : \A y \in Nat \ S : ~ (<<y, x>> \in R)
  <2>1. Nat \ S \subseteq Nat
    OBVIOUS
  <2> QED BY <1>4, <2>1, WFMin
<1>6. \A m \in 0 .. x - 1 : m \in Nat /\ m < x
  OBVIOUS
<1>7. \A m \in 0 .. x - 1 : m \in S
  BY <1>3, <1>5, <1>6
<1> QED BY <1>5, <1>7

\* A set that contains 0 and with each number the next contains all.
LEMMA StepInduction ==
    ASSUME NEW S, 0 \in S, \A n \in Nat : n \in S => n + 1 \in S
    PROVE  Nat \subseteq S
<1>1. ASSUME NEW n \in Nat, \A m \in 0 .. n - 1 : m \in S
      PROVE  n \in S
  <2>1. CASE n = 0
    BY <2>1
  <2>2. CASE n # 0
    <3>1. n - 1 \in Nat /\ n - 1 \in 0 .. n - 1 /\ (n - 1) + 1 = n
      BY <2>2
    <3> QED BY <1>1, <3>1
  <2> QED BY <2>1, <2>2
<1> QED BY <1>1, StrongInduction

-----------------------------------------------------------------------------
(* The two recursive functions exist.                                       *)

UpBody(data, x, priority, up, j) ==
    IF Rises(data, x, j, priority)
    THEN [up[Parent(j)] EXCEPT ![j] = data[Parent(j)]]
    ELSE [data EXCEPT ![j] = x]

IsUp(up, data, x, priority, n) ==
    up = [j \in 0 .. n - 1 |-> UpBody(data, x, priority, up, j)]

DownBody(data, size, x, priority, down, j) ==
    LET k == Largest(data, size, x, j, priority)
    IN  IF k = j THEN [data EXCEPT ![j] = x]
                 ELSE [down[k] EXCEPT ![j] = data[k]]

\* The parent comes earlier.
LEMMA ParentBelow ==
    ASSUME NEW i \in Nat, i > 0
    PROVE  /\ Parent(i) \in Nat /\ Parent(i) < i
           /\ i = 2 * Parent(i) + 1 \/ i = 2 * Parent(i) + 2
BY DEF Parent

LEMMA ChildParent ==
    ASSUME NEW i \in Nat
    PROVE  Parent(2 * i + 1) = i /\ Parent(2 * i + 2) = i
BY DEF Parent

LEMMA UpPrefix ==
    ASSUME NEW data, NEW x, NEW priority, NEW n \in Nat
    PROVE  \E up : IsUp(up, data, x, priority, n)
<1> DEFINE F(up, m) == IsUp(up, data, x, priority, m)
           S == {m \in Nat : \E up : F(up, m)}
<1>1. 0 \in S
  <2>1. F([j \in 0 .. 0 - 1 |-> 0], 0)
    BY DEF IsUp
  <2> QED BY <2>1
<1>2. ASSUME NEW m \in Nat, m \in S
      PROVE  m + 1 \in S
  <2>1. PICK up : F(up, m)
    BY <1>2
  <2>2. \A j \in 0 .. m - 1 : up[j] = UpBody(data, x, priority, up, j)
    BY <2>1 DEF IsUp
  <2> DEFINE g == [j \in 0 .. m |-> IF j < m THEN up[j]
                                    ELSE UpBody(data, x, priority, up, m)]
  <2>3. \A j \in 0 .. m - 1 : g[j] = up[j] /\ j < m
    OBVIOUS
  <2>4. g[m] = UpBody(data, x, priority, up, m) /\ DOMAIN g = 0 .. m
    OBVIOUS
  <2> HIDE DEF g
  <2>5. ASSUME NEW j \in 0 .. m
        PROVE  UpBody(data, x, priority, g, j) = UpBody(data, x, priority, up, j)
    <3>1. CASE Rises(data, x, j, priority)
      <4>1. Parent(j) \in 0 .. m - 1
        BY <3>1, ParentBelow DEF Rises
      <4>2. g[Parent(j)] = up[Parent(j)]
        BY <2>3, <4>1
      <4> QED BY <4>2 DEF UpBody
    <3>2. CASE ~Rises(data, x, j, priority)
      BY <3>2 DEF UpBody
    <3> QED BY <3>1, <3>2
  <2>6. \A j \in 0 .. m : g[j] = UpBody(data, x, priority, g, j)
    <3> SUFFICES ASSUME NEW j \in 0 .. m
                 PROVE  g[j] = UpBody(data, x, priority, g, j)
      OBVIOUS
    <3>1. CASE j = m
      BY <2>4, <2>5, <3>1
    <3>2. CASE j # m
      <4>1. j \in 0 .. m - 1
        BY <3>2
      <4> QED BY <2>2, <2>3, <2>5, <4>1
    <3> QED BY <3>1, <3>2
  <2>7. g = [j \in 0 .. m |-> UpBody(data, x, priority, g, j)]
    <3>1. g = [j \in 0 .. m |-> g[j]]
      BY DEF g
    <3> QED BY <2>6, <3>1
  <2>8. (m + 1) - 1 = m
    OBVIOUS
  <2>9. F(g, m + 1)
    BY <2>7, <2>8 DEF IsUp
  <2> QED BY <2>9
<1> HIDE DEF S
<1>3. Nat \subseteq S
  BY <1>1, <1>2, StepInduction
<1> QED BY <1>3 DEF S

\* What bubble_up is.
LEMMA BubbleUp ==
    ASSUME NEW data, NEW i, NEW priority
    PROVE  \E up : /\ up = [j \in Cells |-> UpBody(data, data[i], priority, up, j)]
                   /\ bubble_up(data, i, priority) =
                        IF Rises(data, data[i], i, priority) THEN up[i] ELSE data
<1> DEFINE x == data[i]
           up == CHOOSE up : up = [j \in Cells |->
                    IF Rises(data, x, j, priority)
                    THEN [up[Parent(j)] EXCEPT ![j] = data[Parent(j)]]
                    ELSE [data EXCEPT ![j] = x]]
<1>1. MAX_PROCESSES \in Nat
  BY CapacityAssumption
<1>2. \E f : IsUp(f, data, data[i], priority, MAX_PROCESSES)
  BY <1>1, UpPrefix
<1>3. up = [j \in Cells |-> UpBody(data, x, priority, up, j)]
  BY <1>2 DEF UpBody, IsUp, Cells
<1>4. bubble_up(data, i, priority) =
        IF Rises(data, data[i], i, priority) THEN up[i] ELSE data
  BY Zenon DEF bubble_up
<1> HIDE DEF up
<1> QED BY <1>3, <1>4

\* Where the moving process may go.
LEMMA LargestPlace ==
    ASSUME NEW data, NEW size \in Nat, NEW x, NEW j \in Nat, NEW priority
    PROVE  LET k == Largest(data, size, x, j, priority)
           IN  k = j \/ (k \in {2 * j + 1, 2 * j + 2} /\ k < size)
BY DEF Largest

IsDown(down, data, size, x, priority, n) ==
    down = [j \in n .. MAX_PROCESSES - 1 |->
              DownBody(data, size, x, priority, down, j)]

LEMMA DownSuffix ==
    ASSUME NEW data, NEW size \in 0 .. MAX_PROCESSES, NEW x, NEW priority
    PROVE  \E down : IsDown(down, data, size, x, priority, 0)
<1> DEFINE F(down, m) == IsDown(down, data, size, x, priority, MAX_PROCESSES - m)
           S == {m \in Nat : m <= MAX_PROCESSES => \E down : F(down, m)}
<1>0. MAX_PROCESSES \in Nat /\ size \in Nat /\ size <= MAX_PROCESSES
  BY CapacityAssumption
<1>1. 0 \in S
  <2>1. MAX_PROCESSES - 0 = MAX_PROCESSES
    BY <1>0
  <2>2. IsDown([j \in MAX_PROCESSES .. MAX_PROCESSES - 1 |-> 0],
               data, size, x, priority, MAX_PROCESSES)
    BY <1>0 DEF IsDown
  <2> QED BY <2>1, <2>2
<1>2. ASSUME NEW m \in Nat, m \in S
      PROVE  m + 1 \in S
  <2> SUFFICES ASSUME m + 1 <= MAX_PROCESSES PROVE \E down : F(down, m + 1)
    OBVIOUS
  <2>1. PICK n \in Nat : n = MAX_PROCESSES - (m + 1)
    BY <1>0
  <2>2. n + 1 = MAX_PROCESSES - m /\ m <= MAX_PROCESSES /\ n < MAX_PROCESSES
    BY <1>0, <2>1
  <2>3. PICK down : IsDown(down, data, size, x, priority, n + 1)
    BY <1>2, <2>2
  <2>4. \A j \in n + 1 .. MAX_PROCESSES - 1 :
          down[j] = DownBody(data, size, x, priority, down, j)
    BY <2>3 DEF IsDown
  <2> DEFINE g == [j \in n .. MAX_PROCESSES - 1 |->
                     IF n < j THEN down[j]
                     ELSE DownBody(data, size, x, priority, down, n)]
  <2>5. \A j \in n + 1 .. MAX_PROCESSES - 1 : g[j] = down[j]
    BY <1>0
  <2>6. g[n] = DownBody(data, size, x, priority, down, n)
    BY <1>0, <2>2
  <2>7. g = [j \in n .. MAX_PROCESSES - 1 |-> g[j]]
    OBVIOUS
  <2> HIDE DEF g
  <2>8. ASSUME NEW j \in n .. MAX_PROCESSES - 1
        PROVE  DownBody(data, size, x, priority, g, j) =
                 DownBody(data, size, x, priority, down, j)
    <3>1. PICK k : k = Largest(data, size, x, j, priority)
      OBVIOUS
    <3>2. CASE k = j
      BY <3>1, <3>2 DEF DownBody
    <3>3. CASE k # j
      <4>0. j \in Nat
        BY <1>0
      <4>1. k \in {2 * j + 1, 2 * j + 2} /\ k < size
        BY <1>0, <3>1, <3>3, <4>0, LargestPlace
      <4>2. k \in n + 1 .. MAX_PROCESSES - 1
        BY <1>0, <4>0, <4>1
      <4>3. g[k] = down[k]
        BY <2>5, <4>2
      <4> QED BY <3>1, <4>3 DEF DownBody
    <3> QED BY <3>2, <3>3
  <2>9. \A j \in n .. MAX_PROCESSES - 1 :
          g[j] = DownBody(data, size, x, priority, g, j)
    <3> SUFFICES ASSUME NEW j \in n .. MAX_PROCESSES - 1
                 PROVE  g[j] = DownBody(data, size, x, priority, g, j)
      OBVIOUS
    <3>1. CASE j = n
      BY <2>6, <2>8, <3>1
    <3>2. CASE j # n
      <4>1. j \in n + 1 .. MAX_PROCESSES - 1
        BY <1>0, <3>2
      <4> QED BY <2>4, <2>5, <2>8, <4>1
    <3> QED BY <3>1, <3>2
  <2>10. IsDown(g, data, size, x, priority, n)
    BY <2>7, <2>9 DEF IsDown
  <2> QED BY <2>1, <2>10
<1> HIDE DEF S
<1>3. MAX_PROCESSES \in S
  BY <1>0, <1>1, <1>2, StepInduction
<1>4. MAX_PROCESSES - MAX_PROCESSES = 0
  BY <1>0
<1> QED BY <1>0, <1>3, <1>4 DEF S

\* What bubble_down is.
LEMMA BubbleDown ==
    ASSUME NEW data, NEW size \in 0 .. MAX_PROCESSES, NEW i, NEW priority
    PROVE  \E down :
             /\ down = [j \in Cells |-> DownBody(data, size, data[i], priority, down, j)]
             /\ bubble_down(data, size, i, priority) =
                  IF Largest(data, size, data[i], i, priority) = i THEN data ELSE down[i]
<1> DEFINE x == data[i]
           down == CHOOSE down : down = [j \in Cells |->
                      LET k == Largest(data, size, x, j, priority)
                      IN  IF k = j THEN [data EXCEPT ![j] = x]
                                   ELSE [down[k] EXCEPT ![j] = data[k]]]
<1>1. \E f : IsDown(f, data, size, data[i], priority, 0)
  BY DownSuffix
<1>2. down = [j \in Cells |-> DownBody(data, size, x, priority, down, j)]
  BY <1>1 DEF DownBody, IsDown, Cells
<1>3. bubble_down(data, size, i, priority) =
        IF Largest(data, size, data[i], i, priority) = i THEN data ELSE down[i]
  BY Zenon DEF bubble_down
<1> HIDE DEF down
<1> QED BY <1>2, <1>3

-----------------------------------------------------------------------------
(* Counting.                                                                *)

Full(d, n) ==
    d \in [Cells -> Procs \cup {NULL}] /\ \A c \in 0 .. n - 1 : d[c] \in Procs

Holds(d, n, p) == \E c \in 0 .. n - 1 : d[c] = p

Count(d, n, p) == Cardinality({c \in 0 .. n - 1 : d[c] = p})

One(v, p) == IF v = p THEN 1 ELSE 0

LEMMA CountNat ==
    ASSUME NEW n \in Nat, NEW d, NEW p
    PROVE  /\ Count(d, n, p) \in Nat
           /\ Count(d, n, p) = 0 <=> ~Holds(d, n, p)
           /\ IsFiniteSet({c \in 0 .. n - 1 : d[c] = p})
<1>1. IsFiniteSet(0 .. n - 1)
  BY FS_Interval
<1>2. IsFiniteSet({c \in 0 .. n - 1 : d[c] = p})
  BY <1>1, FS_Subset
<1>3. Count(d, n, p) \in Nat
  BY <1>2, FS_CardinalityType DEF Count
<1>4. Count(d, n, p) = 0 <=> {c \in 0 .. n - 1 : d[c] = p} = {}
  BY <1>2, FS_EmptySet DEF Count
<1> QED BY <1>2, <1>3, <1>4 DEF Holds

\* The first n cells of d and e agree but for cell j.
SameBut(e, d, n, j) == \A c \in 0 .. n - 1 : c # j => e[c] = d[c]

\* A cell that changes takes one from its old content and adds one to the new.
LEMMA CountChange ==
    ASSUME NEW n \in Nat, NEW d, NEW e, NEW j \in 0 .. n - 1, NEW p, SameBut(e, d, n, j)
    PROVE  Count(e, n, p) = Count(d, n, p) - One(d[j], p) + One(e[j], p)
<1> DEFINE A == {c \in 0 .. n - 1 : d[c] = p}
           B == {c \in 0 .. n - 1 : e[c] = p}
<1>1. IsFiniteSet(A) /\ IsFiniteSet(B) /\ Cardinality(A) \in Nat
  BY CountNat, FS_CardinalityType
<1>2. B = IF e[j] = p THEN A \cup {j} ELSE A \ {j}
  BY DEF SameBut
<1>3. j \in A <=> d[j] = p
  OBVIOUS
<1> HIDE DEF A, B
<1>4. Cardinality(B) = IF e[j] = p
                       THEN IF j \in A THEN Cardinality(A) ELSE Cardinality(A) + 1
                       ELSE IF j \in A THEN Cardinality(A) - 1 ELSE Cardinality(A)
  BY <1>1, <1>2, FS_AddElement, FS_RemoveElement
<1>5. Cardinality(B) = Cardinality(A) - One(d[j], p) + One(e[j], p)
  BY <1>1, <1>3, <1>4 DEF One
<1> QED BY <1>5 DEF Count, A, B

\* One cell more.
LEMMA CountNext ==
    ASSUME NEW n \in Nat, NEW d, NEW p
    PROVE  Count(d, n + 1, p) = Count(d, n, p) + One(d[n], p)
<1> DEFINE A == {c \in 0 .. n - 1 : d[c] = p}
           B == {c \in 0 .. (n + 1) - 1 : d[c] = p}
<1>1. B = IF d[n] = p THEN A \cup {n} ELSE A
  OBVIOUS
<1>2. n \notin A
  OBVIOUS
<1>3. IsFiniteSet(A) /\ Cardinality(A) \in Nat
  BY CountNat, FS_CardinalityType
<1> HIDE DEF A, B
<1>4. Cardinality(A \cup {n}) = Cardinality(A) + 1
  BY <1>2, <1>3, FS_AddElement
<1>5. Cardinality(B) = Cardinality(A) + One(d[n], p)
  BY <1>1, <1>3, <1>4 DEF One
<1> QED BY <1>5 DEF Count, A, B

-----------------------------------------------------------------------------
(* A push.                                                                  *)

\* The priority of the process in a cell.
Key(d, c) == Priority[d[c]]

\* The order of a heap between each cell below n, from the first on, and its
\* parent.
Heap(d, n) == \A c \in 1 .. n - 1 : Key(d, c) <= Key(d, Parent(c))

LEMMA KeyNat ==
    ASSUME NEW n \in Nat, NEW d, Full(d, n), NEW c \in 0 .. n - 1
    PROVE  Key(d, c) \in Nat
BY PriorityAssumption DEF Full, Key

\* What bubble_up leaves when it started at cell n and has come to cell j.
RaisedTo(f, data, x, n, j) ==
    /\ Full(f, n + 1)
    /\ \A c \in Cells : c > j => f[c] = data[c]
    /\ \A p : Count(f, n + 1, p) = Count(data, n + 1, p) - One(data[j], p) + One(x, p)
    /\ j < n /\ Priority[x] > Key(data, j) => Heap(f, n) /\ Key(f, j) >= Key(data, j)

LEMMA RaisedHere ==
    ASSUME NEW n \in Nat, n < MAX_PROCESSES, NEW data, Full(data, n + 1), Heap(data, n),
           NEW x \in Procs, NEW j \in 0 .. n,
           ~Rises(data, x, j, Priority)
    PROVE  RaisedTo([data EXCEPT ![j] = x], data, x, n, j)
<1>f. PICK f : f = [data EXCEPT ![j] = x]
  OBVIOUS
<1>0. /\ n + 1 \in Nat /\ n + 1 <= MAX_PROCESSES /\ j \in 0 .. (n + 1) - 1 /\ j \in Nat
      /\ 0 .. n \subseteq Cells /\ DOMAIN data = Cells
  BY CapacityAssumption DEF Cells, Full
<1>1. Full(f, n + 1) /\ f[j] = x /\ \A c \in Cells : c # j => f[c] = data[c]
  BY <1>0, <1>f DEF Full
<1>2. \A p : Count(f, n + 1, p) = Count(data, n + 1, p) - One(data[j], p) + One(x, p)
  <2> TAKE p
  <2>1. SameBut(f, data, n + 1, j)
    BY <1>0, <1>1 DEF SameBut
  <2>2. Count(f, n + 1, p) = Count(data, n + 1, p) - One(data[j], p) + One(f[j], p)
    BY <1>0, <2>1, CountChange
  <2> QED BY <1>1, <2>2
<1>3. ASSUME j < n, Priority[x] > Key(data, j)
      PROVE  Heap(f, n) /\ Key(f, j) >= Key(data, j)
  <2>1. Key(f, j) = Priority[x] /\ \A c \in 0 .. n : c # j => Key(f, c) = Key(data, c)
    BY <1>0, <1>1 DEF Key
  <2>2. Priority[x] \in Nat /\ \A c \in 0 .. n : Key(data, c) \in Nat
    BY <1>0, KeyNat, PriorityAssumption
  <2>3. ASSUME NEW c \in 1 .. n - 1
        PROVE  Key(f, c) <= Key(f, Parent(c))
    <3>1. Parent(c) \in 0 .. n - 1 /\ Parent(c) < c /\ c \in 0 .. n
      BY ParentBelow
    <3>2. Key(data, c) <= Key(data, Parent(c))
      BY DEF Heap
    <3>3. CASE c = j
      <4>1. Priority[x] <= Key(data, Parent(j))
        BY <2>2, <3>1, <3>3 DEF Rises, Key
      <4> QED BY <2>1, <3>1, <3>3, <4>1
    <3>4. CASE c # j /\ Parent(c) = j
      BY <1>3, <2>1, <2>2, <3>1, <3>2, <3>4
    <3>5. CASE c # j /\ Parent(c) # j
      BY <2>1, <3>1, <3>2, <3>5
    <3> QED BY <3>3, <3>4, <3>5
  <2> QED BY <1>3, <2>1, <2>2, <2>3 DEF Heap
<1>4. \A c \in Cells : c > j => f[c] = data[c]
  BY <1>0, <1>1 DEF Cells
<1> QED BY <1>1, <1>2, <1>3, <1>4, <1>f DEF RaisedTo

LEMMA RaisedOn ==
    ASSUME NEW n \in Nat, n < MAX_PROCESSES, NEW data, Full(data, n + 1), Heap(data, n),
           NEW x \in Procs, NEW j \in 0 .. n,
           Rises(data, x, j, Priority),
           NEW g, RaisedTo(g, data, x, n, Parent(j))
    PROVE  RaisedTo([g EXCEPT ![j] = data[Parent(j)]], data, x, n, j)
<1>f. PICK f : f = [g EXCEPT ![j] = data[Parent(j)]]
  OBVIOUS
<1>0. /\ n + 1 \in Nat /\ n + 1 <= MAX_PROCESSES /\ j \in 0 .. (n + 1) - 1 /\ j \in Nat
      /\ 0 .. n \subseteq Cells /\ Full(g, n + 1) /\ DOMAIN g = Cells
  BY CapacityAssumption DEF Cells, Full, RaisedTo
<1>1. j > 0 /\ Parent(j) \in 0 .. n - 1 /\ Parent(j) < j /\ Priority[x] > Key(data, Parent(j))
  BY ParentBelow DEF Rises, Key
<1>2. data[Parent(j)] \in Procs
  BY <1>1 DEF Full
<1>3. Full(f, n + 1) /\ f[j] = data[Parent(j)] /\ \A c \in Cells : c # j => f[c] = g[c]
  BY <1>0, <1>2, <1>f DEF Full
<1>4. \A p : Count(f, n + 1, p) = Count(g, n + 1, p) - One(g[j], p) + One(data[Parent(j)], p)
  <2> TAKE p
  <2>1. SameBut(f, g, n + 1, j)
    BY <1>0, <1>3 DEF SameBut
  <2> QED BY <1>0, <1>3, <2>1, CountChange
<1>5. \A c \in Cells : c > Parent(j) => g[c] = data[c]
  BY DEF RaisedTo
<1>6. g[j] = data[j]
  BY <1>0, <1>1, <1>5
<1>7. \A p : Count(f, n + 1, p) = Count(data, n + 1, p) - One(data[j], p) + One(x, p)
  <2> TAKE p
  <2>1. Count(g, n + 1, p) = Count(data, n + 1, p) - One(data[Parent(j)], p) + One(x, p)
    BY DEF RaisedTo
  <2>2. Count(data, n + 1, p) \in Nat
    BY <1>0, CountNat
  <2>3. /\ One(data[Parent(j)], p) \in Nat
        /\ One(x, p) \in Nat
        /\ One(data[j], p) \in Nat
    BY DEF One
  <2>4. Count(f, n + 1, p) = Count(g, n + 1, p) - One(data[j], p) + One(data[Parent(j)], p)
    BY <1>4, <1>6
  <2> QED BY <2>1, <2>2, <2>3, <2>4
<1>8. \A c \in Cells : c > j => f[c] = data[c]
  BY <1>0, <1>1, <1>3, <1>5 DEF Cells
<1>9. Heap(g, n) /\ Key(g, Parent(j)) >= Key(data, Parent(j))
  BY <1>1 DEF RaisedTo
<1>10. ASSUME j < n
       PROVE  Heap(f, n) /\ Key(f, j) >= Key(data, j)
  <2>1. Key(f, j) = Key(data, Parent(j)) /\ \A c \in 0 .. n : c # j => Key(f, c) = Key(g, c)
    BY <1>0, <1>3 DEF Key
  <2>2. \A c \in 0 .. n : Key(data, c) \in Nat /\ Key(g, c) \in Nat
    BY <1>0, KeyNat
  <2>3. j \in 1 .. n - 1
    BY <1>1, <1>10
  <2>4. Key(data, j) <= Key(data, Parent(j))
    BY <2>3 DEF Heap
  <2>5. ASSUME NEW c \in 1 .. n - 1
        PROVE  Key(f, c) <= Key(f, Parent(c))
    <3>1. Parent(c) \in 0 .. n - 1 /\ Parent(c) < c /\ c \in 0 .. n
      BY ParentBelow
    <3>2. Key(g, c) <= Key(g, Parent(c)) /\ Key(data, c) <= Key(data, Parent(c))
      BY <1>9 DEF Heap
    <3>3. CASE c = j
      BY <1>9, <2>1, <3>1, <3>3
    <3>4. CASE c # j /\ Parent(c) = j
      <4>1. c > Parent(j) /\ c \in Cells
        BY <1>0, <1>1, <3>1, <3>4
      <4>2. Key(g, c) = Key(data, c)
        BY <1>5, <4>1 DEF Key
      <4>3. Parent(j) \in 0 .. n /\ j \in 0 .. n
        BY <1>1
      <4>4. Key(f, c) = Key(data, c) /\ Key(f, Parent(c)) = Key(data, Parent(j))
        BY <2>1, <3>1, <3>4, <4>2
      <4>5. Key(data, c) <= Key(data, j)
        BY <3>2, <3>4
      <4> QED BY <2>2, <2>4, <3>1, <4>3, <4>4, <4>5
    <3>5. CASE c # j /\ Parent(c) # j
      BY <2>1, <3>1, <3>2, <3>5
    <3> QED BY <3>3, <3>4, <3>5
  <2> QED BY <2>1, <2>4, <2>5 DEF Heap
<1> QED BY <1>3, <1>7, <1>8, <1>10, <1>f DEF RaisedTo

\* bubble_up on a heap of n cells followed by one more.
LEMMA BubbleUpResult ==
    ASSUME NEW n \in Nat, n < MAX_PROCESSES, NEW data, Full(data, n + 1), Heap(data, n)
    PROVE  LET f == bubble_up(data, n, Priority)
           IN  /\ Full(f, n + 1)
               /\ Heap(f, n + 1)
               /\ \A p : Count(f, n + 1, p) = Count(data, n + 1, p)
<1>1. PICK up : /\ up = [j \in Cells |-> UpBody(data, data[n], Priority, up, j)]
                /\ bubble_up(data, n, Priority) =
                     IF Rises(data, data[n], n, Priority) THEN up[n] ELSE data
  BY BubbleUp
<1>2. PICK x \in Procs : x = data[n]
  BY DEF Full
<1>3. \A j \in Cells : up[j] = UpBody(data, x, Priority, up, j)
  BY <1>1, <1>2
<1>4. 0 .. n \subseteq Cells
  BY CapacityAssumption DEF Cells
<1> DEFINE S == {j \in Nat : j <= n => RaisedTo(up[j], data, x, n, j)}
<1>5. ASSUME NEW j \in Nat, \A m \in 0 .. j - 1 : m \in S
      PROVE  j \in S
  <2> SUFFICES ASSUME j <= n PROVE RaisedTo(up[j], data, x, n, j)
    OBVIOUS
  <2>1. j \in 0 .. n /\ j \in Cells
    BY <1>4
  <2>2. CASE ~Rises(data, x, j, Priority)
    <3>1. up[j] = [data EXCEPT ![j] = x]
      BY <1>3, <2>1, <2>2 DEF UpBody
    <3> QED BY <2>1, <2>2, <3>1, RaisedHere
  <2>3. CASE Rises(data, x, j, Priority)
    <3>1. up[j] = [up[Parent(j)] EXCEPT ![j] = data[Parent(j)]]
      BY <1>3, <2>1, <2>3 DEF UpBody
    <3>2. Parent(j) \in 0 .. j - 1 /\ Parent(j) <= n
      BY <2>1, <2>3, ParentBelow DEF Rises
    <3>3. RaisedTo(up[Parent(j)], data, x, n, Parent(j))
      BY <1>5, <3>2
    <3> QED BY <2>1, <2>3, <3>1, <3>3, RaisedOn
  <2> QED BY <2>2, <2>3
<1> HIDE DEF S
<1>6. Nat \subseteq S
  BY <1>5, StrongInduction
<1>7. \A c \in 0 .. n : Key(data, c) \in Nat
  BY KeyNat
<1>8. CASE ~Rises(data, x, n, Priority)
  <2>1. bubble_up(data, n, Priority) = data
    BY <1>1, <1>2, <1>8
  <2>2. Heap(data, n + 1)
    <3> SUFFICES ASSUME NEW c \in 1 .. (n + 1) - 1
                 PROVE  Key(data, c) <= Key(data, Parent(c))
      BY DEF Heap
    <3>1. CASE c = n
      <4>1. Parent(n) \in 0 .. n
        BY <3>1, ParentBelow
      <4> QED BY <1>2, <1>7, <1>8, <3>1, <4>1 DEF Rises, Key
    <3>2. CASE c # n
      <4>1. c \in 1 .. n - 1
        BY <3>2
      <4> QED BY <4>1 DEF Heap
    <3> QED BY <3>1, <3>2
  <2> QED BY <2>1, <2>2
<1>9. CASE Rises(data, x, n, Priority)
  <2>1. n > 0 /\ Parent(n) \in 0 .. n - 1 /\ Priority[x] > Key(data, Parent(n))
    BY <1>9, ParentBelow DEF Rises, Key
  <2>2. PICK g : g = up[Parent(n)]
    OBVIOUS
  <2>3. RaisedTo(g, data, x, n, Parent(n))
    BY <1>6, <2>1, <2>2 DEF S
  <2>4. up[n] = [g EXCEPT ![n] = data[Parent(n)]]
    <3>1. n \in Cells
      BY <1>4
    <3> QED BY <1>3, <1>9, <2>2, <3>1 DEF UpBody
  <2>5. PICK f : f = up[n]
    OBVIOUS
  <2>6. bubble_up(data, n, Priority) = f
    BY <1>1, <1>2, <1>9, <2>5
  <2>7. RaisedTo(f, data, x, n, n)
    BY <1>6, <2>5 DEF S
  <2>8. Heap(g, n) /\ Key(g, Parent(n)) >= Key(data, Parent(n)) /\ Full(g, n + 1)
    BY <2>1, <2>3 DEF RaisedTo
  <2>9. /\ f[n] = data[Parent(n)]
        /\ \A c \in Cells : c # n => f[c] = g[c]
    BY <1>4, <2>4, <2>5, <2>8 DEF Full
  <2>10. Heap(f, n + 1)
    <3> SUFFICES ASSUME NEW c \in 1 .. (n + 1) - 1
                 PROVE  Key(f, c) <= Key(f, Parent(c))
      BY DEF Heap
    <3>0. Parent(c) \in 0 .. n - 1 /\ c \in 0 .. n
      BY ParentBelow
    <3>1. Key(f, Parent(c)) = Key(g, Parent(c))
      BY <1>4, <2>9, <3>0 DEF Key
    <3>2. CASE c = n
      <4>1. Key(f, n) = Key(data, Parent(n))
        BY <2>9 DEF Key
      <4>2. Key(g, Parent(n)) \in Nat /\ Key(data, Parent(n)) \in Nat
        BY <2>1, <2>8, KeyNat
      <4> QED BY <2>8, <3>1, <3>2, <4>1, <4>2
    <3>3. CASE c # n
      <4>1. c \in 1 .. n - 1
        BY <3>3
      <4>2. Key(g, c) <= Key(g, Parent(c))
        BY <2>8, <4>1 DEF Heap
      <4>3. Key(f, c) = Key(g, c)
        BY <1>4, <2>9, <3>0, <3>3 DEF Key
      <4> QED BY <3>1, <4>2, <4>3
    <3> QED BY <3>2, <3>3
  <2>11. ASSUME NEW p
         PROVE  Count(f, n + 1, p) = Count(data, n + 1, p)
    <3>1. Count(f, n + 1, p) = Count(data, n + 1, p) - One(x, p) + One(x, p)
      BY <1>2, <2>7 DEF RaisedTo
    <3>2. n + 1 \in Nat /\ One(x, p) \in Nat
      BY DEF One
    <3>3. Count(data, n + 1, p) \in Nat
      BY <3>2, CountNat
    <3> QED BY <3>1, <3>2, <3>3
  <2> QED BY <2>6, <2>7, <2>10, <2>11 DEF RaisedTo
<1> QED BY <1>8, <1>9

-----------------------------------------------------------------------------
(* A pop.                                                                   *)

\* The order of a heap everywhere but between the root and its children.
HeapBelow(d, n) ==
    \A c \in 1 .. n - 1 : Parent(c) > 0 => Key(d, c) <= Key(d, Parent(c))

\* Largest picks the place of x so that no child is above it.
LEMMA LargestOrder ==
    ASSUME NEW n \in Nat, NEW data, Full(data, n), NEW x \in Procs, NEW j \in 0 .. n - 1,
           NEW k, k = Largest(data, n, x, j, Priority)
    PROVE  /\ k = j => \A c \in {2 * j + 1, 2 * j + 2} : c < n => Key(data, c) <= Priority[x]
           /\ k # j => /\ k \in {2 * j + 1, 2 * j + 2} /\ k < n
                       /\ Key(data, k) > Priority[x]
                       /\ \A c \in {2 * j + 1, 2 * j + 2} : c < n => Key(data, c) <= Key(data, k)
<1>0. j \in Nat /\ Priority[x] \in Nat
  BY PriorityAssumption
<1>1. /\ 2 * j + 1 < n => Key(data, 2 * j + 1) \in Nat
      /\ 2 * j + 2 < n => Key(data, 2 * j + 2) \in Nat
  BY <1>0, KeyNat
<1>2. PICK a \in Nat, b \in Nat : a = 2 * j + 1 /\ b = 2 * j + 2 /\ a # b /\ a # j /\ b # j
  BY <1>0
<1>3. PICK l : l = IF a < n /\ Key(data, a) > Priority[x] THEN a ELSE j
  OBVIOUS
<1>4. k = IF b < n /\ Key(data, b) > (IF l = j THEN Priority[x] ELSE Key(data, l))
          THEN b ELSE l
  <2>1. k = IF b < n /\ Priority[data[b]] > Priority[IF l = j THEN x ELSE data[l]]
            THEN b ELSE l
    BY <1>2, <1>3 DEF Largest, Key
  <2> QED BY <2>1 DEF Key
<1>5. CASE l = j
  BY <1>0, <1>1, <1>2, <1>3, <1>4, <1>5
<1>6. CASE l # j
  BY <1>0, <1>1, <1>2, <1>3, <1>4, <1>6
<1> QED BY <1>5, <1>6

\* What bubble_down leaves when the process it moves has come to cell j.
SunkTo(f, data, x, n, j) ==
    /\ Full(f, n)
    /\ \A c \in Cells : c # j /\ c < 2 * j + 1 => f[c] = data[c]
    /\ \A p : Count(f, n, p) = Count(data, n, p) - One(data[j], p) + One(x, p)
    /\ j > 0 /\ Priority[x] < Key(data, j) => HeapBelow(f, n) /\ Key(f, j) <= Key(data, j)

LEMMA SunkHere ==
    ASSUME NEW n \in Nat, n <= MAX_PROCESSES, NEW data, Full(data, n), HeapBelow(data, n),
           NEW x \in Procs, NEW j \in 0 .. n - 1,
           Largest(data, n, x, j, Priority) = j
    PROVE  SunkTo([data EXCEPT ![j] = x], data, x, n, j)
<1>f. PICK f : f = [data EXCEPT ![j] = x]
  OBVIOUS
<1>0. j \in Nat /\ 0 .. n - 1 \subseteq Cells
  BY CapacityAssumption DEF Cells
<1>1. Full(f, n) /\ f[j] = x /\ \A c \in Cells : c # j => f[c] = data[c]
  BY <1>0, <1>f DEF Full
<1>2. \A p : Count(f, n, p) = Count(data, n, p) - One(data[j], p) + One(x, p)
  <2> TAKE p
  <2>1. SameBut(f, data, n, j)
    BY <1>0, <1>1 DEF SameBut
  <2>2. Count(f, n, p) = Count(data, n, p) - One(data[j], p) + One(f[j], p)
    BY <2>1, CountChange
  <2> QED BY <1>1, <2>2
<1>3. ASSUME j > 0, Priority[x] < Key(data, j)
      PROVE  HeapBelow(f, n) /\ Key(f, j) <= Key(data, j)
  <2>1. Key(f, j) = Priority[x] /\ \A c \in 0 .. n - 1 : c # j => Key(f, c) = Key(data, c)
    BY <1>0, <1>1 DEF Key
  <2>2. Priority[x] \in Nat /\ \A c \in 0 .. n - 1 : Key(data, c) \in Nat
    BY KeyNat, PriorityAssumption
  <2>3. \A c \in {2 * j + 1, 2 * j + 2} : c < n => Key(data, c) <= Priority[x]
    BY LargestOrder
  <2>4. ASSUME NEW c \in 1 .. n - 1, Parent(c) > 0
        PROVE  Key(f, c) <= Key(f, Parent(c))
    <3>1. /\ Parent(c) \in 0 .. n - 1 /\ Parent(c) < c /\ c \in 0 .. n - 1
          /\ c = 2 * Parent(c) + 1 \/ c = 2 * Parent(c) + 2
      BY ParentBelow
    <3>2. Key(data, c) <= Key(data, Parent(c))
      BY <2>4 DEF HeapBelow
    <3>3. CASE c = j
      BY <1>3, <2>1, <2>2, <3>1, <3>2, <3>3
    <3>4. CASE c # j /\ Parent(c) = j
      <4>1. c \in {2 * j + 1, 2 * j + 2} /\ c < n
        BY <3>1, <3>4
      <4>2. Key(data, c) <= Priority[x]
        BY <2>3, <4>1
      <4> QED BY <2>1, <3>1, <3>4, <4>2
    <3>5. CASE c # j /\ Parent(c) # j
      BY <2>1, <3>1, <3>2, <3>5
    <3> QED BY <3>3, <3>4, <3>5
  <2> QED BY <1>3, <2>1, <2>2, <2>4 DEF HeapBelow
<1> QED BY <1>1, <1>2, <1>3, <1>f DEF SunkTo

LEMMA SunkOn ==
    ASSUME NEW n \in Nat, n <= MAX_PROCESSES, NEW data, Full(data, n), HeapBelow(data, n),
           NEW x \in Procs, NEW j \in 0 .. n - 1,
           NEW k, k = Largest(data, n, x, j, Priority), k # j,
           NEW g, SunkTo(g, data, x, n, k)
    PROVE  /\ SunkTo([g EXCEPT ![j] = data[k]], data, x, n, j)
           /\ j = 0 => Heap([g EXCEPT ![j] = data[k]], n)
<1>f. PICK f : f = [g EXCEPT ![j] = data[k]]
  OBVIOUS
<1>0. j \in Nat /\ 0 .. n - 1 \subseteq Cells /\ Full(g, n)
  BY CapacityAssumption DEF Cells, SunkTo
<1>1. /\ k \in {2 * j + 1, 2 * j + 2} /\ k < n /\ Key(data, k) > Priority[x]
      /\ \A c \in {2 * j + 1, 2 * j + 2} : c < n => Key(data, c) <= Key(data, k)
  BY LargestOrder
<1>2. k \in 1 .. n - 1 /\ k \in 0 .. n - 1 /\ Parent(k) = j /\ k > j /\ k > 0
  BY <1>0, <1>1, ChildParent
<1>3. data[k] \in Procs
  BY <1>2 DEF Full
<1>4. Full(f, n) /\ f[j] = data[k] /\ \A c \in Cells : c # j => f[c] = g[c]
  BY <1>0, <1>3, <1>f DEF Full
<1>5. \A c \in Cells : c # k /\ c < 2 * k + 1 => g[c] = data[c]
  BY DEF SunkTo
<1>6. g[j] = data[j]
  BY <1>0, <1>2, <1>5
<1>7. ASSUME NEW p
      PROVE  Count(f, n, p) = Count(data, n, p) - One(data[j], p) + One(x, p)
  <2>1. SameBut(f, g, n, j)
    BY <1>0, <1>4 DEF SameBut
  <2>2. Count(f, n, p) = Count(g, n, p) - One(g[j], p) + One(f[j], p)
    BY <2>1, CountChange
  <2>3. Count(g, n, p) = Count(data, n, p) - One(data[k], p) + One(x, p)
    BY DEF SunkTo
  <2>4. Count(data, n, p) \in Nat
    BY CountNat
  <2>5. One(data[k], p) \in Nat /\ One(x, p) \in Nat /\ One(data[j], p) \in Nat
    BY DEF One
  <2>6. Count(f, n, p) = Count(g, n, p) - One(data[j], p) + One(data[k], p)
    BY <1>4, <1>6, <2>2
  <2> QED BY <2>3, <2>4, <2>5, <2>6
<1>8. \A c \in Cells : c # j /\ c < 2 * j + 1 => f[c] = data[c]
  <2> SUFFICES ASSUME NEW c \in Cells, c # j, c < 2 * j + 1 PROVE f[c] = data[c]
    OBVIOUS
  <2>1. c \in Nat /\ c # k /\ c < 2 * k + 1
    BY <1>0, <1>1, <1>2, CapacityAssumption DEF Cells
  <2> QED BY <1>4, <1>5, <2>1
<1>9. HeapBelow(g, n) /\ Key(g, k) <= Key(data, k)
  BY <1>1, <1>2 DEF SunkTo
<1>10. Key(f, j) = Key(data, k) /\ \A c \in 0 .. n - 1 : c # j => Key(f, c) = Key(g, c)
  BY <1>0, <1>4 DEF Key
<1>11. \A c \in 0 .. n - 1 : Key(data, c) \in Nat /\ Key(g, c) \in Nat
  BY <1>0, KeyNat
<1>12. j > 0 => Key(data, k) <= Key(data, j)
  BY <1>2 DEF HeapBelow
<1>13. ASSUME NEW c \in 1 .. n - 1, Parent(c) > 0 \/ j = 0
       PROVE  Key(f, c) <= Key(f, Parent(c))
  <2>1. /\ Parent(c) \in 0 .. n - 1 /\ Parent(c) < c /\ c \in 0 .. n - 1 /\ c \in Nat
        /\ c = 2 * Parent(c) + 1 \/ c = 2 * Parent(c) + 2
    BY ParentBelow
  <2>2. CASE Parent(c) = j
    <3>1. c \in {2 * j + 1, 2 * j + 2} /\ c # j
      BY <2>1, <2>2
    <3>2. Key(data, c) <= Key(data, k)
      BY <1>1, <3>1
    <3>3. CASE c = k
      BY <1>9, <1>10, <2>1, <2>2, <3>1, <3>3
    <3>4. CASE c # k
      <4>1. c < 2 * k + 1 /\ c \in Cells
        BY <1>0, <1>1, <2>1, <3>1
      <4>2. Key(g, c) = Key(data, c)
        BY <1>5, <3>4, <4>1 DEF Key
      <4> QED BY <1>10, <2>1, <2>2, <3>1, <3>2, <4>2
    <3> QED BY <3>3, <3>4
  <2>3. CASE Parent(c) # j /\ c = j
    <3>0. j > 0 /\ Parent(j) > 0
      BY <1>13, <2>3
    <3>1. Key(data, j) <= Key(data, Parent(j))
      BY <2>3, <3>0 DEF HeapBelow
    <3>2. Parent(j) \in Cells /\ Parent(j) # k /\ Parent(j) < 2 * k + 1
      BY <1>0, <1>2, <2>1, <2>3
    <3>3. Key(g, Parent(j)) = Key(data, Parent(j))
      BY <1>5, <3>2 DEF Key
    <3>4. Key(f, Parent(j)) = Key(g, Parent(j))
      BY <1>10, <2>1, <2>3
    <3> QED BY <1>2, <1>10, <1>11, <1>12, <2>1, <2>3, <3>0, <3>1, <3>3, <3>4
  <2>4. CASE Parent(c) # j /\ c # j
    <3>1. Parent(c) > 0
      BY <1>13, <2>1, <2>4
    <3>2. Key(g, c) <= Key(g, Parent(c))
      BY <1>9, <3>1 DEF HeapBelow
    <3> QED BY <1>10, <2>1, <2>4, <3>2
  <2> QED BY <2>2, <2>3, <2>4
<1>14. j > 0 => HeapBelow(f, n) /\ Key(f, j) <= Key(data, j)
  BY <1>10, <1>12, <1>13 DEF HeapBelow
<1>15. j = 0 => Heap(f, n)
  BY <1>13 DEF Heap
<1>16. SunkTo(f, data, x, n, j)
  BY <1>4, <1>7, <1>8, <1>14 DEF SunkTo
<1> QED BY <1>15, <1>16, <1>f

\* bubble_down from the root of n cells that are a heap below it.
LEMMA BubbleDownResult ==
    ASSUME NEW n \in Nat, n <= MAX_PROCESSES, n > 0,
           NEW data, Full(data, n), HeapBelow(data, n)
    PROVE  LET f == bubble_down(data, n, 0, Priority)
           IN  /\ Full(f, n)
               /\ Heap(f, n)
               /\ \A p : Count(f, n, p) = Count(data, n, p)
<1>0. MAX_PROCESSES \in Nat /\ n \in 0 .. MAX_PROCESSES /\ 0 \in 0 .. n - 1
  BY CapacityAssumption
<1>1. PICK down : /\ down = [j \in Cells |-> DownBody(data, n, data[0], Priority, down, j)]
                  /\ bubble_down(data, n, 0, Priority) =
                       IF Largest(data, n, data[0], 0, Priority) = 0 THEN data ELSE down[0]
  BY <1>0, BubbleDown
<1>2. PICK x \in Procs : x = data[0]
  BY <1>0 DEF Full
<1>3. \A j \in Cells : down[j] = DownBody(data, n, x, Priority, down, j)
  BY <1>1, <1>2
<1>4. 0 .. n - 1 \subseteq Cells
  BY <1>0 DEF Cells
<1> DEFINE S == {m \in Nat : m < n => SunkTo(down[n - 1 - m], data, x, n, n - 1 - m)}
<1>5. ASSUME NEW m \in Nat, \A i \in 0 .. m - 1 : i \in S
      PROVE  m \in S
  <2> SUFFICES ASSUME m < n PROVE SunkTo(down[n - 1 - m], data, x, n, n - 1 - m)
    OBVIOUS
  <2>1. PICK j \in 0 .. n - 1 : j = n - 1 - m
    OBVIOUS
  <2>2. PICK k : k = Largest(data, n, x, j, Priority)
    OBVIOUS
  <2>3. j \in Cells /\ j \in Nat
    BY <1>4
  <2>4. CASE k = j
    <3>1. down[j] = [data EXCEPT ![j] = x]
      BY <1>3, <2>2, <2>3, <2>4 DEF DownBody
    <3> QED BY <2>1, <2>2, <2>4, <3>1, SunkHere
  <2>5. CASE k # j
    <3>1. down[j] = [down[k] EXCEPT ![j] = data[k]]
      BY <1>3, <2>2, <2>3, <2>5 DEF DownBody
    <3>2. k \in {2 * j + 1, 2 * j + 2} /\ k < n
      BY <2>2, <2>3, <2>5, LargestPlace
    <3>3. PICK i \in 0 .. m - 1 : k = n - 1 - i /\ i < n
      <4>1. n - 1 - k \in 0 .. m - 1 /\ k = n - 1 - (n - 1 - k) /\ n - 1 - k < n
        BY <2>1, <2>3, <3>2
      <4> QED BY <4>1
    <3>4. SunkTo(down[k], data, x, n, k)
      BY <1>5, <3>3
    <3>5. SunkTo(down[j], data, x, n, j)
      BY <2>2, <2>5, <3>1, <3>4, SunkOn
    <3> QED BY <2>1, <3>5
  <2> QED BY <2>4, <2>5
<1> HIDE DEF S
<1>6. Nat \subseteq S
  BY <1>5, StrongInduction
<1>7. ASSUME NEW j \in 0 .. n - 1
      PROVE  SunkTo(down[j], data, x, n, j)
  <2>1. n - 1 - j \in Nat /\ n - 1 - j < n /\ n - 1 - (n - 1 - j) = j
    OBVIOUS
  <2> QED BY <1>6, <2>1 DEF S
<1>8. PICK k : k = Largest(data, n, x, 0, Priority)
  OBVIOUS
<1>9. CASE k = 0
  <2>1. bubble_down(data, n, 0, Priority) = data
    BY <1>1, <1>2, <1>8, <1>9
  <2>2. \A c \in {1, 2} : c < n => Key(data, c) <= Priority[x]
    BY <1>0, <1>8, <1>9, LargestOrder
  <2>3. Heap(data, n)
    <3> SUFFICES ASSUME NEW c \in 1 .. n - 1
                 PROVE  Key(data, c) <= Key(data, Parent(c))
      BY DEF Heap
    <3>1. Parent(c) \in Nat /\ (c = 2 * Parent(c) + 1 \/ c = 2 * Parent(c) + 2)
      BY ParentBelow
    <3>2. CASE Parent(c) = 0
      <4>1. c \in {1, 2} /\ c < n
        BY <3>1, <3>2
      <4>2. Key(data, c) <= Priority[x]
        BY <2>2, <4>1
      <4> QED BY <1>2, <3>2, <4>2 DEF Key
    <3>3. CASE Parent(c) # 0
      BY <3>1, <3>3 DEF HeapBelow
    <3> QED BY <3>2, <3>3
  <2> QED BY <2>1, <2>3
<1>10. CASE k # 0
  <2>1. 0 \in Cells /\ 0 \in Nat
    BY <1>0, <1>4
  <2>2. down[0] = [down[k] EXCEPT ![0] = data[k]]
    BY <1>3, <1>8, <1>10, <2>1 DEF DownBody
  <2>3. k \in 0 .. n - 1
    BY <1>8, <1>10, LargestPlace
  <2>4. SunkTo(down[k], data, x, n, k)
    BY <1>7, <2>3
  <2>5. SunkTo(down[0], data, x, n, 0) /\ Heap(down[0], n)
    BY <1>0, <1>8, <1>10, <2>2, <2>4, SunkOn
  <2>6. bubble_down(data, n, 0, Priority) = down[0]
    BY <1>1, <1>2, <1>8, <1>10
  <2>7. ASSUME NEW p
        PROVE  Count(down[0], n, p) = Count(data, n, p)
    <3>1. Count(down[0], n, p) = Count(data, n, p) - One(x, p) + One(x, p)
      BY <1>2, <2>5 DEF SunkTo
    <3>2. Count(data, n, p) \in Nat /\ One(x, p) \in Nat
      BY CountNat DEF One
    <3> QED BY <3>1, <3>2
  <2> QED BY <2>5, <2>6, <2>7 DEF SunkTo
<1> QED BY <1>9, <1>10

-----------------------------------------------------------------------------
(* The size of the bag.                                                     *)

\* The cells whose process is in S.
Where(d, n, S) == {i \in 0 .. n - 1 : d[i] \in S}

SumBody(B, s, S) ==
    IF S = {} THEN 0
    ELSE B[CHOOSE e \in S : TRUE] + s[S \ {CHOOSE e \in S : TRUE}]

LEMMA WhereSplit ==
    ASSUME NEW n \in Nat, NEW d, NEW S, NEW e \in S
    PROVE  /\ Cardinality(Where(d, n, S)) \in Nat
           /\ Cardinality(Where(d, n, S \ {e})) \in Nat
           /\ Cardinality(Where(d, n, S)) = Count(d, n, e) + Cardinality(Where(d, n, S \ {e}))
<1> DEFINE A == {i \in 0 .. n - 1 : d[i] = e}
           W == Where(d, n, S)
           V == Where(d, n, S \ {e})
<1>1. IsFiniteSet(0 .. n - 1)
  BY FS_Interval
<1>2. A \subseteq 0 .. n - 1 /\ W \subseteq 0 .. n - 1 /\ V \subseteq 0 .. n - 1
  BY DEF Where
<1>3. W = A \cup V /\ A \cap V = {}
  BY DEF Where
<1> HIDE DEF A, W, V
<1>4. IsFiniteSet(A) /\ IsFiniteSet(W) /\ IsFiniteSet(V)
  BY <1>1, <1>2, FS_Subset
<1>5. Cardinality(A) \in Nat /\ Cardinality(W) \in Nat /\ Cardinality(V) \in Nat
  BY <1>4, FS_CardinalityType
<1>6. Cardinality(W) = Cardinality(A) + Cardinality(V) - Cardinality(A \cap V)
  BY <1>3, <1>4, FS_Union
<1>7. Cardinality(A \cap V) = 0
  BY <1>3, FS_EmptySet
<1>8. Cardinality(W) = Cardinality(A) + Cardinality(V)
  BY <1>5, <1>6, <1>7
<1> QED BY <1>5, <1>8 DEF A, W, V, Count

\* The bag of the processes in n cells counts n.
LEMMA BagSize ==
    ASSUME NEW n \in Nat, NEW d, NEW B,
           B = [p \in {d[i] : i \in 0 .. n - 1} |-> Count(d, n, p)]
    PROVE  Bag!BagCardinality(B) = n
<1> DEFINE D == DOMAIN B
           F == [S \in SUBSET D |-> Cardinality(Where(d, n, S))]
           s == CHOOSE s : s = [S \in SUBSET D |-> SumBody(B, s, S)]
<1>0. /\ D = {d[i] : i \in 0 .. n - 1}
      /\ \A p \in D : B[p] = Count(d, n, p)
  OBVIOUS
<1> HIDE DEF D
<1>1. ASSUME NEW S \in SUBSET D, S # {}
      PROVE  LET e == CHOOSE e \in S : TRUE
             IN  e \in S /\ e \in D /\ S \ {e} \in SUBSET D /\ B[e] = Count(d, n, e)
  <2>1. PICK e : e = CHOOSE x \in S : TRUE
    OBVIOUS
  <2>2. e \in S
    BY <1>1, <2>1
  <2> QED BY <1>0, <2>1, <2>2
<1>2. \A S \in SUBSET D : F[S] = SumBody(B, F, S)
  <2> SUFFICES ASSUME NEW S \in SUBSET D PROVE F[S] = SumBody(B, F, S)
    OBVIOUS
  <2>1. CASE S = {}
    <3>1. Where(d, n, S) = {}
      BY <2>1 DEF Where
    <3> QED BY <2>1, <3>1, FS_EmptySet DEF SumBody
  <2>2. CASE S # {}
    <3>1. PICK e : e = CHOOSE x \in S : TRUE
      OBVIOUS
    <3>2. e \in S /\ S \ {e} \in SUBSET D /\ B[e] = Count(d, n, e)
      BY <1>1, <2>2, <3>1
    <3>3. F[S] = B[e] + F[S \ {e}]
      BY <3>2, WhereSplit
    <3> QED BY <2>2, <3>1, <3>3 DEF SumBody
  <2> QED BY <2>1, <2>2
<1>3. F = [S \in SUBSET D |-> SumBody(B, F, S)]
  <2>1. F = [S \in SUBSET D |-> F[S]]
    OBVIOUS
  <2> HIDE DEF F
  <2> QED BY <1>2, <2>1
<1>4. s = [S \in SUBSET D |-> SumBody(B, s, S)]
  <2> HIDE DEF F
  <2> QED BY <1>3
<1>5. \A S \in SUBSET D : F[S] = Cardinality(Where(d, n, S))
  OBVIOUS
<1>6. Bag!BagCardinality(B) = s[D]
  BY Zenon DEF Bag!BagCardinality, SumBody, D
<1> HIDE DEF s, F
<1>7. \A S \in SUBSET D : s[S] = SumBody(B, s, S)
  BY <1>4
<1> DEFINE M == {m \in Nat : \A S \in SUBSET D : Cardinality(Where(d, n, S)) = m => s[S] = m}
<1>8. ASSUME NEW m \in Nat, \A i \in 0 .. m - 1 : i \in M
      PROVE  m \in M
  <2> SUFFICES ASSUME NEW S \in SUBSET D, Cardinality(Where(d, n, S)) = m
               PROVE  s[S] = m
    OBVIOUS
  <2>1. CASE S = {}
    <3>1. Where(d, n, S) = {}
      BY <2>1 DEF Where
    <3>2. m = 0
      BY <3>1, FS_EmptySet
    <3>3. s[S] = 0
      BY <1>7, <2>1 DEF SumBody
    <3> QED BY <3>2, <3>3
  <2>2. CASE S # {}
    <3>1. PICK e : e = CHOOSE x \in S : TRUE
      OBVIOUS
    <3>2. e \in S /\ e \in D /\ S \ {e} \in SUBSET D /\ B[e] = Count(d, n, e)
      BY <1>1, <2>2, <3>1
    <3>3. s[S] = B[e] + s[S \ {e}]
      BY <1>7, <2>2, <3>1 DEF SumBody
    <3>4. PICK m1 : m1 = Cardinality(Where(d, n, S \ {e}))
      OBVIOUS
    <3>5. m1 \in Nat /\ m = B[e] + m1
      BY <3>2, <3>4, WhereSplit
    <3>6. B[e] \in Nat /\ B[e] # 0
      <4>1. Holds(d, n, e)
        BY <1>0, <3>2 DEF Holds
      <4>2. Count(d, n, e) \in Nat /\ Count(d, n, e) # 0
        BY <4>1, CountNat
      <4> QED BY <3>2, <4>2
    <3>7. m1 \in 0 .. m - 1
      BY <3>5, <3>6
    <3>8. s[S \ {e}] = m1
      BY <1>8, <3>2, <3>4, <3>7
    <3> QED BY <3>3, <3>5, <3>8
  <2> QED BY <2>1, <2>2
<1> HIDE DEF M
<1>9. Nat \subseteq M
  BY <1>8, StrongInduction
<1>10. Where(d, n, D) = 0 .. n - 1
  BY <1>0 DEF Where
<1>11. Cardinality(Where(d, n, D)) = n
  BY <1>10, FS_Interval
<1>12. s[D] = n
  BY <1>9, <1>11 DEF M
<1> QED BY <1>6, <1>12

-----------------------------------------------------------------------------
(* The machine.                                                             *)

\* The inductive invariant: the processes queued are processes, in the order
\* of a heap.
HeapInv ==
    /\ TypeOK
    /\ Full(q.data, q.size)
    /\ Heap(q.data, q.size)

\* The root of a heap has greatest priority.
LEMMA RootLargest ==
    ASSUME NEW n \in Nat, NEW d, Full(d, n), Heap(d, n), NEW c \in 0 .. n - 1
    PROVE  Key(d, c) <= Key(d, 0)
<1> DEFINE S == {i \in Nat : i < n => Key(d, i) <= Key(d, 0)}
<1>1. ASSUME NEW i \in Nat, \A m \in 0 .. i - 1 : m \in S
      PROVE  i \in S
  <2> SUFFICES ASSUME i < n PROVE Key(d, i) <= Key(d, 0)
    OBVIOUS
  <2>1. Key(d, i) \in Nat /\ Key(d, 0) \in Nat
    BY KeyNat
  <2>2. CASE i = 0
    BY <2>1, <2>2
  <2>3. CASE i # 0
    <3>1. Parent(i) \in 0 .. i - 1 /\ Parent(i) < n /\ Parent(i) \in 0 .. n - 1
      BY <2>3, ParentBelow
    <3>2. Key(d, i) <= Key(d, Parent(i))
      BY <2>3 DEF Heap
    <3>3. Key(d, Parent(i)) <= Key(d, 0) /\ Key(d, Parent(i)) \in Nat
      BY <1>1, <3>1, KeyNat
    <3> QED BY <2>1, <3>2, <3>3
  <2> QED BY <2>2, <2>3
<1> HIDE DEF S
<1>2. Nat \subseteq S
  BY <1>1, StrongInduction
<1> QED BY <1>2 DEF S

\* A push below capacity.
LEMMA PushResult ==
    ASSUME HeapInv, NEW p \in Procs, q.size < MAX_PROCESSES
    PROVE  LET r == pq_push(q, p, Priority)
           IN  /\ r \in [data : [Cells -> Procs \cup {NULL}], size : 0 .. MAX_PROCESSES]
               /\ r.size = q.size + 1
               /\ Full(r.data, r.size)
               /\ Heap(r.data, r.size)
               /\ \A e : Count(r.data, r.size, e) = Count(q.data, q.size, e) + One(p, e)
<1>1. PICK n \in Nat : n = q.size
  BY CapacityAssumption DEF HeapInv, TypeOK
<1>2. PICK data : data = [q.data EXCEPT ![q.size] = p]
  OBVIOUS
<1>3. PICK f : f = bubble_up(data, n, Priority)
  OBVIOUS
<1>4. 0 .. n \subseteq Cells /\ n < MAX_PROCESSES /\ MAX_PROCESSES \in Nat
  BY <1>1, CapacityAssumption DEF Cells
<1>5. /\ q.data \in [Cells -> Procs \cup {NULL}] /\ Full(q.data, n) /\ Heap(q.data, n)
  BY <1>1 DEF HeapInv, TypeOK
<1>6. data[n] = p /\ \A c \in Cells : c # n => data[c] = q.data[c]
  BY <1>1, <1>2, <1>4, <1>5
<1>7. Full(data, n + 1)
  BY <1>1, <1>2, <1>4, <1>5, <1>6 DEF Full
<1>8. Heap(data, n)
  <2> SUFFICES ASSUME NEW c \in 1 .. n - 1
               PROVE  Key(data, c) <= Key(data, Parent(c))
    BY DEF Heap
  <2>1. Parent(c) \in 0 .. n - 1 /\ c \in 0 .. n - 1
    BY ParentBelow
  <2>2. Key(data, c) = Key(q.data, c) /\ Key(data, Parent(c)) = Key(q.data, Parent(c))
    BY <1>4, <1>6, <2>1 DEF Key
  <2> QED BY <1>5, <2>2 DEF Heap
<1>9. Full(f, n + 1) /\ Heap(f, n + 1) /\ \A e : Count(f, n + 1, e) = Count(data, n + 1, e)
  BY <1>3, <1>4, <1>7, <1>8, BubbleUpResult
<1>10. pq_push(q, p, Priority) = [data |-> f, size |-> n + 1]
  BY <1>1, <1>2, <1>3, <1>4 DEF pq_push
<1>11. ASSUME NEW e
       PROVE  Count(f, n + 1, e) = Count(q.data, n, e) + One(p, e)
  <2>1. Count(data, n + 1, e) = Count(data, n, e) + One(data[n], e)
    BY CountNext
  <2>2. {c \in 0 .. n - 1 : data[c] = e} = {c \in 0 .. n - 1 : q.data[c] = e}
    BY <1>4, <1>6
  <2>3. Count(data, n, e) = Count(q.data, n, e)
    BY <2>2 DEF Count
  <2> QED BY <1>6, <1>9, <2>1, <2>3
<1>12. f \in [Cells -> Procs \cup {NULL}] /\ n + 1 \in 0 .. MAX_PROCESSES
  BY <1>4, <1>9 DEF Full
<1> QED BY <1>1, <1>9, <1>10, <1>11, <1>12

\* A pop from a queue that is not empty.
LEMMA PopResult ==
    ASSUME HeapInv, q.size # 0
    PROVE  LET r == pq_pop(q, Priority)
           IN  /\ r \in [data : [Cells -> Procs \cup {NULL}], size : 0 .. MAX_PROCESSES]
               /\ r.size = q.size - 1
               /\ Full(r.data, r.size)
               /\ Heap(r.data, r.size)
               /\ \A e : Count(q.data, q.size, e) = Count(r.data, r.size, e) + One(q.data[0], e)
<1>1. PICK n \in Nat : n + 1 = q.size /\ n = q.size - 1
  <2>1. q.size \in 0 .. MAX_PROCESSES /\ MAX_PROCESSES \in Nat
    BY CapacityAssumption DEF HeapInv, TypeOK
  <2>2. q.size - 1 \in Nat /\ (q.size - 1) + 1 = q.size
    BY <2>1
  <2> QED BY <2>2
<1>2. PICK data : data = [q.data EXCEPT ![0] = q.data[n]]
  OBVIOUS
<1>3. PICK f : f = bubble_down(data, n, 0, Priority)
  OBVIOUS
<1>4. 0 .. n \subseteq Cells /\ n < MAX_PROCESSES /\ MAX_PROCESSES \in Nat /\ 0 \in Cells
  BY <1>1, CapacityAssumption DEF Cells, HeapInv, TypeOK
<1>5. /\ q.data \in [Cells -> Procs \cup {NULL}]
      /\ Full(q.data, n + 1) /\ Heap(q.data, n + 1)
  BY <1>1 DEF HeapInv, TypeOK
<1>6. data[0] = q.data[n] /\ \A c \in Cells : c # 0 => data[c] = q.data[c]
  BY <1>2, <1>4, <1>5
<1>7. \A c \in 0 .. n : q.data[c] \in Procs
  BY <1>5 DEF Full
<1>8. data \in [Cells -> Procs \cup {NULL}]
  BY <1>2, <1>4, <1>5, <1>7
<1>9. Full(data, n)
  BY <1>4, <1>6, <1>7, <1>8 DEF Full
<1>10. HeapBelow(data, n)
  <2> SUFFICES ASSUME NEW c \in 1 .. n - 1, Parent(c) > 0
               PROVE  Key(data, c) <= Key(data, Parent(c))
    BY DEF HeapBelow
  <2>1. Parent(c) \in 1 .. n - 1 /\ c \in 1 .. (n + 1) - 1
    BY ParentBelow
  <2>2. Key(data, c) = Key(q.data, c) /\ Key(data, Parent(c)) = Key(q.data, Parent(c))
    BY <1>4, <1>6, <2>1 DEF Key
  <2> QED BY <1>5, <2>1, <2>2 DEF Heap
<1>11. pq_pop(q, Priority) = [data |-> f, size |-> n]
  BY <1>1, <1>2, <1>3 DEF pq_pop
<1>12. /\ Full(f, n) /\ Heap(f, n)
       /\ \A e : Count(f, n, e) = Count(data, n, e)
  <2>1. CASE n > 0
    BY <1>3, <1>4, <1>9, <1>10, <2>1, BubbleDownResult
  <2>2. CASE n = 0
    <3>1. Largest(data, 0, data[0], 0, Priority) = 0
      BY LargestPlace
    <3>2. f = data
      BY <1>3, <1>4, <2>2, <3>1, BubbleDown
    <3> QED BY <1>9, <2>2, <3>2 DEF Heap
  <2> QED BY <2>1, <2>2
<1>13. ASSUME NEW e
       PROVE  Count(q.data, n + 1, e) = Count(f, n, e) + One(q.data[0], e)
  <2>0. /\ Count(q.data, n, e) \in Nat
        /\ One(q.data[0], e) \in Nat /\ One(q.data[n], e) \in Nat
    BY CountNat DEF One
  <2>1. Count(q.data, n + 1, e) = Count(q.data, n, e) + One(q.data[n], e)
    BY CountNext
  <2>2. CASE n > 0
    <3>1. SameBut(data, q.data, n, 0) /\ 0 \in 0 .. n - 1
      BY <1>4, <1>6, <2>2 DEF SameBut
    <3>2. Count(data, n, e) = Count(q.data, n, e) - One(q.data[0], e) + One(data[0], e)
      BY <3>1, CountChange
    <3>3. Count(f, n, e) = Count(q.data, n, e) - One(q.data[0], e) + One(q.data[n], e)
      BY <1>6, <1>12, <3>2
    <3> QED BY <2>0, <2>1, <3>3
  <2>3. CASE n = 0
    <3>1. ~Holds(f, n, e) /\ ~Holds(q.data, n, e)
      BY <2>3 DEF Holds
    <3>2. Count(f, n, e) = 0 /\ Count(q.data, n, e) = 0
      BY <3>1, CountNat
    <3> QED BY <2>0, <2>1, <2>3, <3>2
  <2> QED BY <2>2, <2>3
<1>14. f \in [Cells -> Procs \cup {NULL}] /\ n \in 0 .. MAX_PROCESSES
  BY <1>4, <1>12 DEF Full
<1> QED BY <1>1, <1>11, <1>12, <1>13, <1>14

LEMMA HeapInvInit ==
    Init => HeapInv
<1> SUFFICES ASSUME Init PROVE HeapInv
  OBVIOUS
<1>1. /\ q = [data |-> [i \in Cells |-> NULL], size |-> 0]
      /\ popped = NULL
  BY DEF Init, pq_init
<1>2. q.data \in [Cells -> Procs \cup {NULL}] /\ q.size = 0 /\ 0 \in 0 .. MAX_PROCESSES
  BY <1>1, CapacityAssumption
<1>3. TypeOK
  BY <1>1, <1>2 DEF TypeOK
<1> QED BY <1>2, <1>3 DEF HeapInv, Full, Heap

LEMMA HeapInvNext ==
    HeapInv /\ [Next]_vars => HeapInv'
<1> SUFFICES ASSUME HeapInv, [Next]_vars PROVE HeapInv'
  OBVIOUS
<1>1. ASSUME NEW p \in Procs, Push(p) PROVE HeapInv'
  <2>0. q.size \in 0 .. MAX_PROCESSES /\ MAX_PROCESSES \in Nat
    BY CapacityAssumption DEF HeapInv, TypeOK
  <2>1. CASE q.size < MAX_PROCESSES
    <3>1. PICK r : r = pq_push(q, p, Priority)
      OBVIOUS
    <3>2. /\ r \in [data : [Cells -> Procs \cup {NULL}], size : 0 .. MAX_PROCESSES]
          /\ Full(r.data, r.size)
          /\ Heap(r.data, r.size)
      BY <2>1, <3>1, PushResult
    <3>3. q' = r /\ popped' = popped
      BY <1>1, <3>1 DEF Push
    <3> QED BY <3>2, <3>3 DEF HeapInv, TypeOK, Full, Heap, Key
  <2>2. CASE ~(q.size < MAX_PROCESSES)
    <3>1. q' = q /\ popped' = popped
      BY <1>1, <2>0, <2>2 DEF Push, pq_push
    <3> QED BY <3>1 DEF HeapInv, TypeOK, Full, Heap, Key
  <2> QED BY <2>1, <2>2
<1>2. CASE Pop
  <2>1. PICK r : r = pq_pop(q, Priority)
    OBVIOUS
  <2>2. q.size # 0
    BY <1>2 DEF Pop, pq_is_empty
  <2>3. /\ r \in [data : [Cells -> Procs \cup {NULL}], size : 0 .. MAX_PROCESSES]
        /\ Full(r.data, r.size)
        /\ Heap(r.data, r.size)
    BY <2>1, <2>2, PopResult
  <2>4. q' = r /\ popped' = q.data[0]
    BY <1>2, <2>1 DEF Pop, pq_peek
  <2>5. q.data[0] \in Procs
    BY <2>2, CapacityAssumption DEF HeapInv, TypeOK, Full
  <2> QED BY <2>3, <2>4, <2>5 DEF HeapInv, TypeOK, Full, Heap, Key
<1>3. CASE PopEmpty
  <2>1. q' = q /\ popped' = NULL
    BY <1>3 DEF PopEmpty
  <2> QED BY <2>1 DEF HeapInv, TypeOK, Full, Heap, Key
<1>4. CASE UNCHANGED vars
  <2>1. q' = q /\ popped' = popped
    BY <1>4 DEF vars
  <2> QED BY <2>1 DEF HeapInv, TypeOK, Full, Heap, Key
<1> QED BY <1>1, <1>2, <1>3, <1>4 DEF Next

LEMMA HeapInvAlways ==
    Spec => []HeapInv
BY HeapInvInit, HeapInvNext, PTL DEF Spec

\* The array stays in its bounds and the fill count never leaves 0 to
\* MAX_PROCESSES, whatever is pushed and popped.
THEOREM QueueTyped ==
    Spec => []TypeOK
<1>1. HeapInv => TypeOK
  BY DEF HeapInv
<1> QED BY <1>1, HeapInvAlways, PTL

\* bubble_up after every push and bubble_down after every pop keep the array a
\* max-heap, for every capacity and all priorities.
THEOREM HeapKept ==
    Spec => []HeapOrder
<1>1. HeapInv => HeapOrder
  BY DEF HeapInv, Heap, Key, HeapOrder
<1> QED BY <1>1, HeapInvAlways, PTL

-----------------------------------------------------------------------------
(* The bag implemented.                                                     *)

BagOf(d, n) == [p \in {d[i] : i \in 0 .. n - 1} |-> Count(d, n, p)]

LEMMA BagOfContent ==
    Content = BagOf(q.data, q.size)
BY DEF Content, Queued, BagOf, Count

LEMMA BagOfDomain ==
    ASSUME NEW n \in Nat, NEW d
    PROVE  DOMAIN BagOf(d, n) = {d[i] : i \in 0 .. n - 1}
BY DEF BagOf

LEMMA BagOfCount ==
    ASSUME NEW n \in Nat, NEW d
    PROVE  /\ BagOf(d, n) = [e \in DOMAIN BagOf(d, n) |-> BagOf(d, n)[e]]
           /\ \A e \in DOMAIN BagOf(d, n) : BagOf(d, n)[e] = Count(d, n, e)
BY DEF BagOf

LEMMA BagOfHas ==
    ASSUME NEW n \in Nat, NEW d, NEW e
    PROVE  e \in DOMAIN BagOf(d, n) <=> Count(d, n, e) # 0
<1>1. e \in DOMAIN BagOf(d, n) <=> Holds(d, n, e)
  BY DEF BagOf, Holds
<1> QED BY <1>1, CountNat

\* One process more in the cells is one more in the bag.
LEMMA BagOfAdd ==
    ASSUME NEW m \in Nat, NEW n \in Nat, NEW d, NEW f, NEW p,
           \A e : Count(f, m, e) = Count(d, n, e) + One(p, e)
    PROVE  BagOf(f, m) = Bag!BagAdd(BagOf(d, n), p)
<1>1. PICK B : B = BagOf(d, n)
  OBVIOUS
<1>2. PICK C : C = BagOf(f, m)
  OBVIOUS
<1>3. C = [e \in DOMAIN C |-> C[e]]
  BY <1>2, BagOfCount
<1>4. \A e : Count(d, n, e) \in Nat
  BY CountNat
<1>5. \A e : e \in DOMAIN B <=> Count(d, n, e) # 0
  BY <1>1, BagOfHas
<1>6. \A e \in DOMAIN B : B[e] = Count(d, n, e)
  BY <1>1, BagOfCount
<1>7. \A e : e \in DOMAIN C <=> Count(f, m, e) # 0
  BY <1>2, BagOfHas
<1>8. \A e \in DOMAIN C : C[e] = Count(f, m, e)
  BY <1>2, BagOfCount
<1>9. One(p, p) = 1 /\ \A e : e # p => One(p, e) = 0
  BY DEF One
<1>10. \A e : e \in DOMAIN C <=> e \in DOMAIN B \/ e = p
  BY <1>4, <1>5, <1>7, <1>9
<1>11. DOMAIN C = DOMAIN B \cup {p}
  BY <1>10
<1>12. CASE p \in DOMAIN B
  <2>1. DOMAIN C = DOMAIN B
    BY <1>11, <1>12
  <2>2. \A e \in DOMAIN B : C[e] = IF e = p THEN B[e] + 1 ELSE B[e]
    BY <1>4, <1>6, <1>8, <1>9, <2>1
  <2>3. C = [e \in DOMAIN B |-> IF e = p THEN B[e] + 1 ELSE B[e]]
    BY <1>3, <2>1, <2>2
  <2> QED BY <1>1, <1>2, <1>12, <2>3 DEF Bag!BagAdd
<1>13. CASE p \notin DOMAIN B
  <2>1. Count(d, n, p) = 0
    BY <1>5, <1>13
  <2>2. \A e \in DOMAIN C : C[e] = IF e = p THEN 1 ELSE B[e]
    BY <1>4, <1>6, <1>8, <1>9, <1>11, <2>1
  <2>3. C = [e \in DOMAIN B \cup {p} |-> IF e = p THEN 1 ELSE B[e]]
    BY <1>3, <1>11, <2>2
  <2> QED BY <1>1, <1>2, <1>13, <2>3 DEF Bag!BagAdd
<1> QED BY <1>12, <1>13

\* One process less in the cells is one less in the bag.
LEMMA BagOfRemove ==
    ASSUME NEW m \in Nat, NEW n \in Nat, NEW d, NEW f, NEW p,
           \A e : Count(d, n, e) = Count(f, m, e) + One(p, e)
    PROVE  /\ p \in DOMAIN BagOf(d, n)
           /\ BagOf(f, m) = Bag!BagRemove(BagOf(d, n), p)
<1>1. PICK B : B = BagOf(d, n)
  OBVIOUS
<1>2. PICK C : C = BagOf(f, m)
  OBVIOUS
<1>3. C = [e \in DOMAIN C |-> C[e]]
  BY <1>2, BagOfCount
<1>4. \A e : Count(f, m, e) \in Nat
  BY CountNat
<1>5. \A e : e \in DOMAIN B <=> Count(d, n, e) # 0
  BY <1>1, BagOfHas
<1>6. \A e \in DOMAIN B : B[e] = Count(d, n, e)
  BY <1>1, BagOfCount
<1>7. \A e : e \in DOMAIN C <=> Count(f, m, e) # 0
  BY <1>2, BagOfHas
<1>8. \A e \in DOMAIN C : C[e] = Count(f, m, e)
  BY <1>2, BagOfCount
<1>9. One(p, p) = 1 /\ \A e : e # p => One(p, e) = 0
  BY DEF One
<1>10. p \in DOMAIN B /\ B[p] = Count(f, m, p) + 1
  BY <1>4, <1>5, <1>6, <1>9
<1>11. \A e : e # p => (e \in DOMAIN C <=> e \in DOMAIN B)
  BY <1>4, <1>5, <1>7, <1>9
<1>12. CASE Count(f, m, p) = 0
  <2>1. B[p] = 1 /\ p \notin DOMAIN C
    BY <1>7, <1>10, <1>12
  <2>2. DOMAIN C = DOMAIN B \ {p}
    BY <1>11, <2>1
  <2>3. \A e \in DOMAIN C : C[e] = B[e]
    BY <1>4, <1>6, <1>8, <1>9, <2>2
  <2>4. C = [e \in DOMAIN B \ {p} |-> B[e]]
    BY <1>3, <2>2, <2>3
  <2> QED BY <1>1, <1>2, <1>10, <2>1, <2>4 DEF Bag!BagRemove
<1>13. CASE Count(f, m, p) # 0
  <2>1. B[p] # 1 /\ p \in DOMAIN C
    BY <1>4, <1>7, <1>10, <1>13
  <2>2. DOMAIN C = DOMAIN B
    BY <1>10, <1>11, <2>1
  <2>3. \A e \in DOMAIN B : C[e] = IF e = p THEN B[e] - 1 ELSE B[e]
    BY <1>4, <1>6, <1>8, <1>9, <2>2
  <2>4. C = [e \in DOMAIN B |-> IF e = p THEN B[e] - 1 ELSE B[e]]
    BY <1>3, <2>2, <2>3
  <2> QED BY <1>1, <1>2, <1>10, <2>1, <2>4 DEF Bag!BagRemove
<1> QED BY <1>12, <1>13

LEMMA BagEmpty ==
    ASSUME NEW n \in Nat, NEW d
    PROVE  BagOf(d, n) = Bag!EmptyBag <=> n = 0
<1>1. DOMAIN BagOf(d, n) = {d[i] : i \in 0 .. n - 1}
  BY BagOfDomain
<1>2. CASE n = 0
  <2>1. {d[i] : i \in 0 .. n - 1} = {}
    BY <1>2
  <2>2. BagOf(d, n) = [e \in {} |-> 1]
    BY <2>1 DEF BagOf
  <2> QED BY <1>2, <2>2 DEF Bag!EmptyBag, Bag!SetToBag
<1>3. CASE n # 0
  <2>1. 0 \in 0 .. n - 1
    BY <1>3
  <2>2. d[0] \in DOMAIN BagOf(d, n)
    BY <1>1, <2>1
  <2>3. DOMAIN Bag!EmptyBag = {}
    BY DEF Bag!EmptyBag, Bag!SetToBag
  <2> QED BY <1>3, <2>2, <2>3
<1> QED BY <1>2, <1>3

LEMMA BagInit ==
    Init => Bag!Init
<1> SUFFICES ASSUME Init PROVE Bag!Init
  OBVIOUS
<1>1. q.size = 0 /\ popped = NULL
  BY DEF Init, pq_init
<1>2. Content = Bag!EmptyBag
  BY <1>1, BagEmpty, BagOfContent
<1> QED BY <1>1, <1>2 DEF Bag!Init

\* The content after a step, from the queue it leaves.
LEMMA ContentNext ==
    ASSUME NEW r, q' = r
    PROVE  Content' = BagOf(r.data, r.size)
BY DEF Content, Queued, BagOf, Count

LEMMA BagNext ==
    HeapInv /\ [Next]_vars => [Bag!Next]_<<Content, popped>>
<1> SUFFICES ASSUME HeapInv, [Next]_vars
             PROVE  Bag!Next \/ (Content' = Content /\ popped' = popped)
  OBVIOUS
<1>0. PICK n \in Nat : n = q.size /\ n <= MAX_PROCESSES
  BY CapacityAssumption DEF HeapInv, TypeOK
<1>n. MAX_PROCESSES \in Nat
  BY CapacityAssumption
<1>c. Content = BagOf(q.data, n)
  BY <1>0, BagOfContent
<1>1. ASSUME NEW p \in Procs, Push(p)
      PROVE  Bag!Push(p)
  <2>1. Bag!BagCardinality(Content) = n
    BY <1>c, BagSize DEF BagOf
  <2>2. CASE n < MAX_PROCESSES
    <3>1. PICK r : r = pq_push(q, p, Priority)
      OBVIOUS
    <3>2. /\ r.size = n + 1
          /\ \A e : Count(r.data, r.size, e) = Count(q.data, n, e) + One(p, e)
      BY <1>0, <2>2, <3>1, PushResult
    <3>3. q' = r /\ popped' = popped
      BY <1>1, <3>1 DEF Push
    <3>4. Content' = BagOf(r.data, r.size)
      BY <3>3, ContentNext
    <3>5. r.size \in Nat
      BY <3>2
    <3>6. Content' = Bag!BagAdd(Content, p)
      BY <1>c, <3>2, <3>4, <3>5, BagOfAdd
    <3> QED BY <2>1, <2>2, <3>3, <3>6 DEF Bag!Push
  <2>3. CASE ~(n < MAX_PROCESSES)
    <3>1. q' = q /\ popped' = popped
      BY <1>0, <1>1, <1>n, <2>3 DEF Push, pq_push
    <3>2. Content' = Content
      BY <1>0, <1>c, <3>1, ContentNext
    <3> QED BY <2>1, <2>3, <3>1, <3>2 DEF Bag!Push
  <2> QED BY <2>2, <2>3
<1>2. CASE Pop
  <2>1. PICK r : r = pq_pop(q, Priority)
    OBVIOUS
  <2>2. q.size # 0 /\ n # 0
    BY <1>0, <1>2 DEF Pop, pq_is_empty
  <2>3. /\ r.size = n - 1
        /\ \A e : Count(q.data, n, e) = Count(r.data, r.size, e) + One(q.data[0], e)
    BY <1>0, <2>1, <2>2, PopResult
  <2>4. q' = r /\ popped' = q.data[0]
    BY <1>2, <2>1 DEF Pop, pq_peek
  <2>5. Content' = BagOf(r.data, r.size)
    BY <2>4, ContentNext
  <2>6. r.size \in Nat
    BY <2>2, <2>3
  <2>7. q.data[0] \in DOMAIN Content /\ Content' = Bag!BagRemove(Content, q.data[0])
    BY <1>c, <2>3, <2>5, <2>6, BagOfRemove
  <2>8. Content # Bag!EmptyBag
    BY <1>c, <2>2, BagEmpty
  <2>9. \A e \in DOMAIN Content : Priority[q.data[0]] >= Priority[e]
    <3> SUFFICES ASSUME NEW e \in DOMAIN Content
                 PROVE  Priority[q.data[0]] >= Priority[e]
      OBVIOUS
    <3>1. PICK i \in 0 .. n - 1 : e = q.data[i]
      BY <1>c DEF BagOf
    <3>2. Full(q.data, n) /\ Heap(q.data, n)
      BY <1>0 DEF HeapInv
    <3>3. Key(q.data, i) <= Key(q.data, 0)
      BY <3>2, RootLargest
    <3>4. Key(q.data, i) \in Nat /\ Key(q.data, 0) \in Nat
      BY <2>2, <3>2, KeyNat
    <3> QED BY <3>1, <3>3, <3>4 DEF Key
  <2>10. Bag!Pop
    BY <2>4, <2>7, <2>8, <2>9 DEF Bag!Pop, Bag!BagToSet
  <2> QED BY <2>10 DEF Bag!Next
<1>3. CASE PopEmpty
  <2>1. q' = q /\ popped' = NULL /\ n = 0
    BY <1>0, <1>3 DEF PopEmpty, pq_is_empty
  <2>2. Content' = Content
    BY <1>0, <1>c, <2>1, ContentNext
  <2>3. Content = Bag!EmptyBag
    BY <1>c, <2>1, BagEmpty
  <2>4. Bag!Pop
    BY <2>1, <2>2, <2>3 DEF Bag!Pop
  <2> QED BY <2>4 DEF Bag!Next
<1>4. CASE UNCHANGED vars
  <2>1. q' = q /\ popped' = popped
    BY <1>4 DEF vars
  <2>2. Content' = Content
    BY <1>0, <1>c, <2>1, ContentNext
  <2> QED BY <2>1, <2>2
<1>5. ASSUME NEW p \in Procs, Push(p) PROVE Bag!Next
  BY <1>1, <1>5 DEF Bag!Next
<1> QED BY <1>2, <1>3, <1>4, <1>5 DEF Next

\* The array heap implements the priority queue its callers rely on: no push
\* or pop loses, duplicates or invents a process, a push is dropped exactly at
\* capacity, and a pop answers a process of greatest priority.
THEOREM HeapImplementsBag ==
    Spec => ImplementsPriorityBag
<1>1. Init => Bag!Init
  BY BagInit
<1>2. HeapInv /\ [Next]_vars => [Bag!Next]_<<Content, popped>>
  BY BagNext
<1> QED BY <1>1, <1>2, HeapInvAlways, PTL DEF Spec, ImplementsPriorityBag, Bag!Spec
=============================================================================
