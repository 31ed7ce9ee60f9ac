---------------------------- MODULE FAT12_proofs ---------------------------
(***************************************************************************)
(* Theorems about the file system, for every size of table and directory,  *)
(* every set of names and sizes of files, and any number of saves,         *)
(* deletions, power failures and abandoned saves.                          *)
(*                                                                         *)
(* A file is followed by its chain, a function from 1 .. n to clusters     *)
(* that ascends, rather than by the links counted one by one.  The         *)
(* inductive invariant has four parts: Typed, the types with what the      *)
(* sequence of writes left to be made may contain; Sound, which relates    *)
(* the directory and the table in memory to those on the disk while the    *)
(* sectors of either are written one after the other and cut entries in    *)
(* two; Sized, that the entries that are not cut have chains of their      *)
(* length; and AllKept, where the content of every saved file is, that of  *)
(* the save under way included.                                            *)
(***************************************************************************)
EXTENDS FAT12, NatInduction, FiniteSetTheorems

\* Clusters, the end mark and the values for no cluster are all different.
LEMMA Constants ==
    /\ TOTAL_FAT12_ENTREIS \in Nat \ {0}
    /\ Clusters \subseteq Nat /\ END_OF_FILE \in Nat
    /\ END_OF_FILE \notin Clusters /\ NOWHERE \notin Clusters
    /\ UNSET \notin Clusters /\ NONE \notin Clusters /\ FREE_ENTRY = 0
    /\ \A c \in Clusters : c < TOTAL_FAT12_ENTREIS
<1>1. TOTAL_FAT12_ENTREIS \in Nat /\ TOTAL_FAT12_ENTREIS # 0 /\ TOTAL_FAT12_ENTREIS <= 4094
  BY FAT12Assumption
<1> QED BY <1>1 DEF Clusters, END_OF_FILE, NOWHERE, UNSET, NONE, FREE_ENTRY

\* Every file needs a cluster.
LEMMA NeededType == ASSUME NEW n \in Nat PROVE Needed(n) \in Nat \ {0} /\ n <= Needed(n)
  BY DEF Needed

-----------------------------------------------------------------------------
(* Chains.                                                                  *)

\* ch is the chain of n clusters that table t has from c: it ascends, as
\* fat12_allocate takes them, and ends.
IsChain(t, c, ch, n) ==
    /\ ch \in [1 .. n -> Clusters] /\ ch[1] = c
    /\ \A k \in 1 .. n - 1 : t[ch[k]] = ch[k + 1] /\ ch[k] < ch[k + 1]
    /\ t[ch[n]] = END_OF_FILE

Ascends(ch, n) == ch \in [1 .. n -> Clusters] /\ \A k \in 1 .. n - 1 : ch[k] < ch[k + 1]

\* What ascends never repeats.
LEMMA Ascending ==
    ASSUME NEW n \in Nat \ {0}, NEW ch, Ascends(ch, n)
    PROVE  \A k, l \in 1 .. n : k < l => ch[k] < ch[l]
<1> SUFFICES ASSUME NEW k \in 1 .. n PROVE \A l \in 1 .. n : k < l => ch[k] < ch[l]
  OBVIOUS
<1> DEFINE S == {m \in Nat : k + m + 1 <= n => ch[k] < ch[k + m + 1]}
<1>0. \A l \in 1 .. n : ch[l] \in Nat
  BY Constants DEF Ascends
<1>1. 0 \in S
  BY DEF Ascends
<1>2. ASSUME NEW m \in Nat, m \in S PROVE m + 1 \in S
  <2> SUFFICES ASSUME k + m + 2 <= n PROVE ch[k] < ch[k + m + 2]
    OBVIOUS
  <2>1. k + m + 1 \in 1 .. n - 1 /\ (k + m + 1) + 1 = k + m + 2 /\ k + m + 2 \in 1 .. n
    OBVIOUS
  <2>2. ch[k] < ch[k + m + 1]
    BY <1>2
  <2>3. ch[k + m + 1] < ch[k + m + 2]
    BY <2>1 DEF Ascends
  <2>4. ch[k] \in Nat /\ ch[k + m + 1] \in Nat /\ ch[k + m + 2] \in Nat
    BY <1>0, <2>1
  <2> QED BY <2>2, <2>3, <2>4
<1> HIDE DEF S
<1>3. Nat \subseteq S
  BY <1>1, <1>2, StepInduction
<1>4. ASSUME NEW l \in 1 .. n, k < l PROVE ch[k] < ch[l]
  <2>1. l - k - 1 \in S /\ k + (l - k - 1) + 1 = l
    BY <1>3, <1>4
  <2> QED BY <2>1 DEF S
<1> QED BY <1>4

LEMMA ChainAscends ==
    ASSUME NEW t, NEW c, NEW n \in Nat \ {0}, NEW ch, IsChain(t, c, ch, n)
    PROVE  \A k, l \in 1 .. n : k # l => ch[k] # ch[l]
<1>1. Ascends(ch, n)
  BY DEF IsChain, Ascends
<1>2. \A k, l \in 1 .. n : k < l => ch[k] < ch[l]
  BY <1>1, Ascending
<1>3. \A k \in 1 .. n : ch[k] \in Nat
  BY Constants DEF IsChain
<1> QED BY <1>2, <1>3

\* A chain is no longer than the table.
LEMMA ChainFits ==
    ASSUME NEW t, NEW c, NEW n \in Nat \ {0}, NEW ch, IsChain(t, c, ch, n)
    PROVE  n <= TOTAL_FAT12_ENTREIS
<1> DEFINE S == {m \in Nat : m + 1 <= n => m <= ch[m + 1]}
<1>0. \A l \in 1 .. n : ch[l] \in Nat /\ ch[l] < TOTAL_FAT12_ENTREIS
  BY Constants DEF IsChain
<1>1. 0 \in S
  BY <1>0
<1>2. ASSUME NEW m \in Nat, m \in S PROVE m + 1 \in S
  <2> SUFFICES ASSUME m + 2 <= n PROVE m + 1 <= ch[m + 2]
    OBVIOUS
  <2>1. m + 1 \in 1 .. n - 1 /\ (m + 1) + 1 = m + 2 /\ m + 2 \in 1 .. n
    OBVIOUS
  <2>2. m <= ch[m + 1]
    BY <1>2
  <2>3. ch[m + 1] < ch[m + 2]
    BY <2>1 DEF IsChain
  <2>4. ch[m + 1] \in Nat /\ ch[m + 2] \in Nat
    BY <1>0, <2>1
  <2> QED BY <2>2, <2>3, <2>4
<1> HIDE DEF S
<1>3. Nat \subseteq S
  BY <1>1, <1>2, StepInduction
<1>4. n - 1 \in S /\ (n - 1) + 1 = n
  BY <1>3
<1>5. n - 1 <= ch[n]
  BY <1>4 DEF S
<1>6. ch[n] \in Nat /\ ch[n] < TOTAL_FAT12_ENTREIS
  BY <1>0
<1> QED BY <1>5, <1>6, Constants

LinkBody(table, c, link, j) ==
    IF j = 0 THEN c
    ELSE IF link[j - 1] = END_OF_FILE THEN END_OF_FILE
    ELSE table[link[j - 1]]

IsLink(table, c, link, i) == link = [j \in 0 .. i |-> LinkBody(table, c, link, j)]

\* Where the links lead from c along a chain.
LEMMA LinkAlong ==
    ASSUME NEW t, NEW c, NEW n \in Nat \ {0}, NEW ch, IsChain(t, c, ch, n),
           NEW i \in Nat
    PROVE  Link(t, c, i) = IF i < n THEN ch[i + 1] ELSE END_OF_FILE
<1>1. PICK g : g = [j \in 0 .. i |-> IF j < n THEN ch[j + 1] ELSE END_OF_FILE]
  OBVIOUS
<1>c. \A l \in 1 .. n : ch[l] \in Clusters
  BY DEF IsChain
<1>2. ASSUME NEW j \in 0 .. i, j # 0 PROVE g[j] = LinkBody(t, c, g, j)
  <2>1. j - 1 \in 0 .. i
    BY <1>2
  <2>2. CASE j < n
    <3>1. j \in 1 .. n - 1 /\ (j - 1) + 1 = j
      BY <1>2, <2>2
    <3>2. g[j - 1] = ch[j] /\ g[j] = ch[j + 1]
      BY <1>1, <2>1, <3>1
    <3>3. t[ch[j]] = ch[j + 1]
      BY <3>1 DEF IsChain
    <3>4. ch[j] # END_OF_FILE
      BY <1>c, <3>1, Constants
    <3> QED BY <1>2, <3>2, <3>3, <3>4 DEF LinkBody
  <2>3. CASE j = n
    <3>1. g[j - 1] = ch[n] /\ g[j] = END_OF_FILE
      BY <1>1, <2>1, <2>3
    <3>3. t[ch[n]] = END_OF_FILE
      BY DEF IsChain
    <3> QED BY <1>2, <3>1, <3>3 DEF LinkBody
  <2>4. CASE j > n
    <3>1. g[j - 1] = END_OF_FILE /\ g[j] = END_OF_FILE
      BY <1>1, <2>1, <2>4
    <3> QED BY <1>2, <3>1 DEF LinkBody
  <2> QED BY <2>2, <2>3, <2>4
<1>3. g[0] = LinkBody(t, c, g, 0)
  BY <1>1 DEF LinkBody, IsChain
<1>4. IsLink(t, c, g, i)
  <2>1. \A j \in 0 .. i : g[j] = LinkBody(t, c, g, j)
    BY <1>2, <1>3
  <2>2. g = [j \in 0 .. i |-> g[j]]
    BY <1>1
  <2> QED BY <2>1, <2>2 DEF IsLink
<1> DEFINE link == CHOOSE link : link = [j \in 0 .. i |->
                     IF j = 0 THEN c
                     ELSE IF link[j - 1] = END_OF_FILE THEN END_OF_FILE
                     ELSE t[link[j - 1]]]
<1>5. IsLink(t, c, link, i)
  BY <1>4, Zenon DEF IsLink, LinkBody
<1>6. Link(t, c, i) = link[i]
  BY Zenon DEF Link
<1> HIDE DEF link
<1> DEFINE S == {m \in Nat : m <= i => link[m] = g[m]}
<1>7. \A j \in 0 .. i : link[j] = LinkBody(t, c, link, j) /\ g[j] = LinkBody(t, c, g, j)
  BY <1>4, <1>5 DEF IsLink
<1>8. 0 \in S
  BY <1>7 DEF LinkBody
<1>9. ASSUME NEW m \in Nat, m \in S PROVE m + 1 \in S
  <2> SUFFICES ASSUME m + 1 <= i PROVE link[m + 1] = g[m + 1]
    OBVIOUS
  <2>1. link[m] = g[m] /\ m + 1 \in 0 .. i /\ (m + 1) - 1 = m /\ m + 1 # 0
    BY <1>9
  <2>2. LinkBody(t, c, link, m + 1) = LinkBody(t, c, g, m + 1)
    BY <2>1 DEF LinkBody
  <2> QED BY <1>7, <2>1, <2>2
<1> HIDE DEF S
<1>10. Nat \subseteq S
  BY <1>8, <1>9, StepInduction
<1>11. link[i] = g[i]
  BY <1>10 DEF S
<1> QED BY <1>1, <1>6, <1>11

\* The loops that follow a chain come to its end and visit its clusters.
LEMMA ChainIs ==
    ASSUME NEW t, NEW c, NEW n \in Nat \ {0}, NEW ch, IsChain(t, c, ch, n)
    PROVE  Ends(t, c) /\ Chain(t, c) = ch
<1>c. \A l \in 1 .. n : ch[l] \in Clusters
  BY DEF IsChain
<1>1. n \in 1 .. TOTAL_FAT12_ENTREIS
  BY ChainFits, Constants
<1>2. ASSUME NEW m \in 1 .. TOTAL_FAT12_ENTREIS
      PROVE  m \in Lengths(t, c) <=> n <= m
  <2>0. m \in Nat /\ m \in Int
    BY Constants
  <2>1. Link(t, c, m) = IF m < n THEN ch[m + 1] ELSE END_OF_FILE
    BY <2>0, LinkAlong
  <2>2. m < n => ch[m + 1] # END_OF_FILE
    <3> SUFFICES ASSUME m < n PROVE ch[m + 1] # END_OF_FILE
      OBVIOUS
    <3>1. m + 1 \in 1 .. n
      BY <2>0
    <3> QED BY <1>c, <3>1, Constants
  <2>3. Link(t, c, m) = END_OF_FILE <=> n <= m
    BY <2>0, <2>1, <2>2
  <2> QED BY <2>3 DEF Lengths
<1>3. \A m \in Lengths(t, c) : m \in 1 .. TOTAL_FAT12_ENTREIS
  BY DEF Lengths
<1>4. n \in Lengths(t, c)
  BY <1>1, <1>2
<1>5. PICK q : q = CHOOSE m \in Lengths(t, c) : \A k \in Lengths(t, c) : m <= k
  OBVIOUS
<1>6. q = n
  <2>1. \A k \in Lengths(t, c) : n <= k
    BY <1>2, <1>3
  <2>2. q \in Lengths(t, c) /\ \A k \in Lengths(t, c) : q <= k
    BY <1>4, <1>5, <2>1
  <2>3. q <= n /\ n <= q /\ q \in Int
    BY <1>3, <1>4, <2>1, <2>2, Constants
  <2> QED BY <2>3
<1>7. Chain(t, c) = [k \in 1 .. n |-> Link(t, c, k - 1)]
  BY <1>5, <1>6, Zenon DEF Chain
<1>8. ASSUME NEW k \in 1 .. n PROVE Link(t, c, k - 1) = ch[k]
  <2>1. k - 1 \in Nat /\ k - 1 < n /\ (k - 1) + 1 = k
    OBVIOUS
  <2> QED BY <2>1, LinkAlong
<1>9. ch = [k \in 1 .. n |-> ch[k]]
  BY DEF IsChain
<1>10. Chain(t, c) = ch
  BY <1>7, <1>8, <1>9
<1>11. c \in Clusters
  BY <1>c DEF IsChain
<1> QED BY <1>4, <1>10, <1>11 DEF Ends

-----------------------------------------------------------------------------
(* fat12_allocate.                                                          *)

LEMMA Least ==
    ASSUME NEW S, S \subseteq Nat, S # {}
    PROVE  FirstOf(S) \in S
<1>1. \E i \in S : \A j \in S : i <= j
  BY LeastNatural
<1> QED BY <1>1 DEF FirstOf

\* find_next_free answers the first free cluster, or NONE if there is none.
LEMMA FindsFree ==
    ASSUME NEW from \in Int
    PROVE  \/ find_next_free(from) = NONE
           \/ /\ find_next_free(from) \in Clusters /\ find_next_free(from) >= from
              /\ fat12_table[find_next_free(from)] = FREE_ENTRY
<1>1. PICK S : S = {c \in Clusters : c >= from /\ fat12_table[c] = FREE_ENTRY}
  OBVIOUS
<1>2. find_next_free(from) = IF S = {} THEN NONE ELSE FirstOf(S)
  BY <1>1 DEF find_next_free
<1>3. CASE S = {}
  BY <1>2, <1>3
<1>4. CASE S # {}
  <2>1. S \subseteq Nat
    BY <1>1, Constants
  <2>2. FirstOf(S) \in S
    BY <1>4, <2>1, Least
  <2> QED BY <1>1, <1>2, <1>4, <2>2
<1> QED BY <1>3, <1>4

TakenBody(taken, i) ==
    IF i = 1 THEN find_next_free(0)
    ELSE IF taken[i - 1] = NONE THEN NONE
    ELSE find_next_free(taken[i - 1] + 1)

IsTaken(taken, n) == taken = [i \in 1 .. n |-> TakenBody(taken, i)]

\* The loop of fat12_allocate as a function: it exists and is the one of Taken.
LEMMA TakenPrefix ==
    ASSUME NEW n \in Nat
    PROVE  \E taken : IsTaken(taken, n)
<1> DEFINE S == {m \in Nat : \E taken : IsTaken(taken, m)}
<1>1. 0 \in S
  <2>1. PICK f : f = [i \in 1 .. 0 |-> 0]
    OBVIOUS
  <2>2. f = [i \in 1 .. 0 |-> TakenBody(f, i)]
    BY <2>1
  <2> QED BY <2>2 DEF IsTaken
<1>2. ASSUME NEW m \in Nat, m \in S
      PROVE  m + 1 \in S
  <2>1. PICK f : IsTaken(f, m)
    BY <1>2
  <2>2. \A i \in 1 .. m : f[i] = TakenBody(f, i)
    BY <2>1 DEF IsTaken
  <2> DEFINE g == [i \in 1 .. m + 1 |-> IF i < m + 1 THEN f[i] ELSE TakenBody(f, m + 1)]
  <2>3. \A i \in 1 .. m : g[i] = f[i]
    OBVIOUS
  <2>4. g[m + 1] = TakenBody(f, m + 1)
    OBVIOUS
  <2>5. g = [i \in 1 .. m + 1 |-> g[i]]
    OBVIOUS
  <2> HIDE DEF g
  <2>6. ASSUME NEW i \in 1 .. m + 1
        PROVE  TakenBody(g, i) = TakenBody(f, i)
    <3>1. CASE i = 1
      BY <3>1 DEF TakenBody
    <3>2. CASE i # 1
      <4>1. i - 1 \in 1 .. m
        BY <3>2
      <4>2. g[i - 1] = f[i - 1]
        BY <2>3, <4>1
      <4> QED BY <3>2, <4>2 DEF TakenBody
    <3> QED BY <3>1, <3>2
  <2>7. ASSUME NEW i \in 1 .. m + 1 PROVE g[i] = TakenBody(g, i)
    <3>1. CASE i = m + 1
      BY <2>4, <2>6, <3>1
    <3>2. CASE i # m + 1
      <4>1. i \in 1 .. m
        BY <3>2
      <4> QED BY <2>2, <2>3, <2>6, <4>1
    <3> QED BY <3>1, <3>2
  <2>8. IsTaken(g, m + 1)
    BY <2>5, <2>7 DEF IsTaken
  <2> QED BY <2>8
<1> HIDE DEF S
<1>3. Nat \subseteq S
  BY <1>1, <1>2, StepInduction
<1> QED BY <1>3 DEF S

LEMMA TakenIs ==
    ASSUME NEW size \in Nat
    PROVE  IsTaken(Taken(size), Needed(size))
<1> DEFINE taken == CHOOSE taken : taken = [i \in 1 .. Needed(size) |->
                      IF i = 1 THEN find_next_free(0)
                      ELSE IF taken[i - 1] = NONE THEN NONE
                      ELSE find_next_free(taken[i - 1] + 1)]
<1>1. \E f : IsTaken(f, Needed(size))
  BY NeededType, TakenPrefix
<1>2. IsTaken(taken, Needed(size))
  BY <1>1, Zenon DEF IsTaken, TakenBody
<1>3. Taken(size) = taken
  BY Zenon DEF Taken
<1> HIDE DEF taken
<1> QED BY <1>2, <1>3

\* fat12_allocate takes free clusters, from left to right.
LEMMA TakesFree ==
    ASSUME NEW size \in Nat, NEW i \in 1 .. Needed(size)
    PROVE  \/ Taken(size)[i] = NONE
           \/ /\ Taken(size)[i] \in Clusters
              /\ fat12_table[Taken(size)[i]] = FREE_ENTRY
              /\ i > 1 => /\ Taken(size)[i - 1] # NONE
                          /\ Taken(size)[i] = find_next_free(Taken(size)[i - 1] + 1)
<1>1. PICK f : f = Taken(size)
  OBVIOUS
<1>0. PICK n \in Nat \ {0} : n = Needed(size)
  BY NeededType
<1>2. \A k \in 1 .. n : f[k] = TakenBody(f, k)
  BY <1>0, <1>1, TakenIs DEF IsTaken
<1> DEFINE P(k) == f[k] = NONE \/ f[k] \in Clusters
<1>3. ASSUME NEW from \in Int, NEW r, r = find_next_free(from)
      PROVE  r = NONE \/ (r \in Clusters /\ fat12_table[r] = FREE_ENTRY)
  BY <1>3, FindsFree
<1> DEFINE S == {m \in Nat : m + 1 \in 1 .. n => P(m + 1)}
<1>4. 0 \in S
  <2>1. 1 \in 1 .. n => f[1] = find_next_free(0)
    BY <1>2 DEF TakenBody
  <2> QED BY <1>3, <2>1
<1>5. ASSUME NEW m \in Nat, m \in S PROVE m + 1 \in S
  <2> SUFFICES ASSUME m + 2 \in 1 .. n PROVE P(m + 2)
    OBVIOUS
  <2>1. m + 1 \in 1 .. n /\ (m + 2) - 1 = m + 1 /\ m + 2 # 1
    OBVIOUS
  <2>2. f[m + 1] = NONE \/ f[m + 1] \in Clusters
    BY <1>5, <2>1
  <2>3. f[m + 2] = TakenBody(f, m + 2)
    BY <1>2
  <2>4. CASE f[m + 1] = NONE
    BY <2>1, <2>3, <2>4 DEF TakenBody
  <2>5. CASE f[m + 1] # NONE
    <3>0. PICK x \in Nat : x = f[m + 1]
      BY <2>2, <2>5, Constants
    <3>1. f[m + 1] + 1 \in Int
      BY <3>0
    <3>2. f[m + 2] = find_next_free(f[m + 1] + 1)
      BY <2>1, <2>3, <2>5 DEF TakenBody
    <3> QED BY <1>3, <3>1, <3>2
  <2> QED BY <2>4, <2>5
<1> HIDE DEF S
<1>6. Nat \subseteq S
  BY <1>4, <1>5, StepInduction
<1>7. \A k \in 1 .. n : P(k)
  <2> SUFFICES ASSUME NEW k \in 1 .. n PROVE P(k)
    OBVIOUS
  <2>1. k - 1 \in S /\ (k - 1) + 1 = k
    BY <1>6
  <2> QED BY <2>1 DEF S
<1>8. CASE i = 1
  <2>1. f[1] = find_next_free(0)
    BY <1>0, <1>2, <1>8 DEF TakenBody
  <2> QED BY <1>1, <1>3, <1>8, <2>1
<1>9. CASE i # 1
  <2>1. i - 1 \in 1 .. n
    BY <1>0, <1>9
  <2>2. f[i] = TakenBody(f, i)
    BY <1>0, <1>2
  <2>3. CASE f[i - 1] = NONE
    BY <1>1, <1>9, <2>2, <2>3 DEF TakenBody
  <2>4. CASE f[i - 1] # NONE
    <3>0. PICK x \in Nat : x = f[i - 1]
      BY <1>7, <2>1, <2>4, Constants
    <3>1. f[i - 1] + 1 \in Int
      BY <3>0
    <3>2. f[i] = find_next_free(f[i - 1] + 1)
      BY <1>9, <2>2, <2>4 DEF TakenBody
    <3>3. f[i] = NONE \/ (f[i] \in Clusters /\ fat12_table[f[i]] = FREE_ENTRY)
      BY <1>3, <3>1, <3>2
    <3> QED BY <1>1, <2>4, <3>2, <3>3
  <2> QED BY <2>3, <2>4
<1> QED BY <1>8, <1>9

\* With enough clusters none of those taken is missing.
LEMMA EnoughTaken ==
    ASSUME NEW size \in Nat, Enough(size)
    PROVE  /\ \A i \in 1 .. Needed(size) :
                /\ Taken(size)[i] \in Clusters
                /\ fat12_table[Taken(size)[i]] = FREE_ENTRY
           /\ \A i \in 1 .. Needed(size) - 1 :
                /\ Taken(size)[i + 1] = find_next_free(Taken(size)[i] + 1)
                /\ Taken(size)[i] < Taken(size)[i + 1]
<1>1. PICK f : f = Taken(size)
  OBVIOUS
<1>0. PICK n \in Nat \ {0} : n = Needed(size)
  BY NeededType
<1>2. ASSUME NEW i \in 1 .. n
      PROVE  \/ f[i] = NONE
             \/ /\ f[i] \in Clusters /\ fat12_table[f[i]] = FREE_ENTRY
                /\ i > 1 => f[i - 1] # NONE /\ f[i] = find_next_free(f[i - 1] + 1)
  BY <1>0, <1>1, TakesFree
<1> DEFINE S == {m \in Nat : n - m \in 1 .. n => f[n - m] # NONE}
<1>3. 0 \in S
  BY <1>0, <1>1 DEF Enough
<1>4. ASSUME NEW m \in Nat, m \in S PROVE m + 1 \in S
  <2> SUFFICES ASSUME n - (m + 1) \in 1 .. n PROVE f[n - (m + 1)] # NONE
    OBVIOUS
  <2>1. n - m \in 1 .. n /\ n - m > 1 /\ (n - m) - 1 = n - (m + 1)
    OBVIOUS
  <2>2. f[n - m] # NONE
    BY <1>4, <2>1
  <2> QED BY <1>2, <2>1, <2>2
<1> HIDE DEF S
<1>5. Nat \subseteq S
  BY <1>3, <1>4, StepInduction
<1>6. ASSUME NEW i \in 1 .. n PROVE f[i] # NONE
  <2>1. n - i \in S /\ n - (n - i) = i
    BY <1>5
  <2> QED BY <2>1 DEF S
<1>7. ASSUME NEW i \in 1 .. n - 1
      PROVE  f[i + 1] = find_next_free(f[i] + 1) /\ f[i] < f[i + 1]
  <2>1. i + 1 \in 1 .. n /\ i + 1 > 1 /\ (i + 1) - 1 = i /\ i \in 1 .. n
    OBVIOUS
  <2>2. f[i + 1] = find_next_free(f[i] + 1)
    BY <1>2, <1>6, <2>1
  <2>3. f[i] \in Nat /\ f[i + 1] # NONE /\ f[i + 1] \in Nat
    BY <1>2, <1>6, <2>1, Constants
  <2>4. f[i + 1] >= f[i] + 1
    BY <2>2, <2>3, FindsFree
  <2> QED BY <2>2, <2>3, <2>4
<1> QED BY <1>0, <1>1, <1>2, <1>6, <1>7

\* What fat12_allocate leaves alone.
LEMMA AllocateKeeps ==
    ASSUME NEW size \in Nat, fat12_table \in Tables
    PROVE  /\ fat12_allocate(size) \in Tables
           /\ \A c \in Clusters : fat12_table[c] # FREE_ENTRY =>
                 fat12_allocate(size)[c] = fat12_table[c]
<1>1. PICK f : f = Taken(size)
  OBVIOUS
<1>0. PICK n \in Nat \ {0} : n = Needed(size)
  BY NeededType
<1>2. PICK t : t = fat12_allocate(size)
  OBVIOUS
<1>3. t = [c \in Clusters |->
             IF \A i \in 1 .. n : f[i] # c THEN fat12_table[c]
             ELSE IF c = f[n] THEN END_OF_FILE
             ELSE IF find_next_free(c + 1) # NONE THEN find_next_free(c + 1)
             ELSE FREE_ENTRY]
  BY <1>0, <1>1, <1>2, Zenon DEF fat12_allocate
<1>4. \A c \in Clusters : t[c] \in Clusters \cup {END_OF_FILE}
  <2> SUFFICES ASSUME NEW c \in Clusters PROVE t[c] \in Clusters \cup {END_OF_FILE}
    OBVIOUS
  <2>1. c + 1 \in Int
    BY Constants
  <2>2. find_next_free(c + 1) # NONE => find_next_free(c + 1) \in Clusters
    BY <2>1, FindsFree
  <2>3. FREE_ENTRY \in Clusters
    BY Constants DEF Clusters
  <2>4. fat12_table[c] \in Clusters \cup {END_OF_FILE}
    BY DEF Tables
  <2> QED BY <1>3, <2>2, <2>3, <2>4
<1>5. t \in Tables
  BY <1>3, <1>4 DEF Tables
<1>6. ASSUME NEW c \in Clusters, fat12_table[c] # FREE_ENTRY
      PROVE  t[c] = fat12_table[c]
  <2>1. ASSUME NEW i \in 1 .. n PROVE f[i] # c
    <3>1. f[i] = NONE \/ fat12_table[f[i]] = FREE_ENTRY
      BY <1>0, <1>1, TakesFree
    <3> QED BY <1>6, <3>1, Constants
  <2> QED BY <1>3, <2>1
<1> QED BY <1>2, <1>5, <1>6

\* The chain that fat12_allocate builds when there are enough free clusters.
LEMMA Allocated ==
    ASSUME NEW size \in Nat, fat12_table \in Tables, Enough(size)
    PROVE  IsChain(fat12_allocate(size), Taken(size)[1], Taken(size), Needed(size))
<1>1. PICK f : f = Taken(size)
  OBVIOUS
<1>0. PICK n \in Nat \ {0} : n = Needed(size)
  BY NeededType
<1>2. PICK t : t = fat12_allocate(size)
  OBVIOUS
<1>3. t = [c \in Clusters |->
             IF \A i \in 1 .. n : f[i] # c THEN fat12_table[c]
             ELSE IF c = f[n] THEN END_OF_FILE
             ELSE IF find_next_free(c + 1) # NONE THEN find_next_free(c + 1)
             ELSE FREE_ENTRY]
  BY <1>0, <1>1, <1>2, Zenon DEF fat12_allocate
<1>4. /\ \A i \in 1 .. n : f[i] \in Clusters
      /\ \A i \in 1 .. n - 1 : f[i + 1] = find_next_free(f[i] + 1) /\ f[i] < f[i + 1]
  BY <1>0, <1>1, EnoughTaken
<1>5. f = [i \in 1 .. n |-> TakenBody(f, i)]
  BY <1>0, <1>1, TakenIs DEF IsTaken
<1>6. f \in [1 .. n -> Clusters]
  BY <1>4, <1>5
<1>7. \A k, l \in 1 .. n : k < l => f[k] < f[l]
  <2>1. Ascends(f, n)
    BY <1>4, <1>6 DEF Ascends
  <2> QED BY <2>1, Ascending
<1>8. t[f[n]] = END_OF_FILE
  BY <1>3, <1>4
<1>9. ASSUME NEW k \in 1 .. n - 1 PROVE t[f[k]] = f[k + 1]
  <2>1. k \in 1 .. n /\ k + 1 \in 1 .. n /\ k < n /\ n \in 1 .. n
    OBVIOUS
  <2>2. f[k] < f[n] /\ f[k] \in Nat /\ f[n] \in Nat
    BY <1>4, <1>7, <2>1, Constants
  <2>3. f[k] # f[n]
    BY <2>2
  <2>4. find_next_free(f[k] + 1) = f[k + 1] /\ f[k + 1] # NONE
    BY <1>4, <2>1, Constants
  <2>5. f[k] \in Clusters /\ ~(\A i \in 1 .. n : f[i] # f[k])
    BY <1>4, <2>1
  <2> QED BY <1>3, <2>3, <2>4, <2>5
<1> QED BY <1>0, <1>1, <1>2, <1>4, <1>6, <1>8, <1>9 DEF IsChain

-----------------------------------------------------------------------------
(* The sequences of writes.                                                 *)

\* A sequence of any values.
IsSeq(s) == \E W : s \in Seq(W)

LEMMA FunctionIsSeq ==
    ASSUME NEW n \in Nat, NEW W, NEW s \in [1 .. n -> W]
    PROVE  IsSeq(s) /\ Len(s) = n
<1>1. s \in Seq(W)
  OBVIOUS
<1>2. Len(s) = n
  OBVIOUS
<1>3. IsSeq(s)
  BY <1>1 DEF IsSeq
<1> QED BY <1>2, <1>3

LEMMA Wider ==
    ASSUME NEW A, NEW B, A \subseteq B, NEW s \in Seq(A)
    PROVE  s \in Seq(B)
<1>1. Len(s) \in Nat /\ s \in [1 .. Len(s) -> A]
  OBVIOUS
<1>2. s \in [1 .. Len(s) -> B]
  BY <1>1
<1> QED BY <1>1, <1>2

LEMMA Concat ==
    ASSUME NEW s, NEW t, IsSeq(s), IsSeq(t)
    PROVE  /\ IsSeq(s \o t) /\ Len(s \o t) = Len(s) + Len(t)
           /\ Len(s) \in Nat /\ Len(t) \in Nat
           /\ \A k \in 1 .. Len(s) : (s \o t)[k] = s[k]
           /\ \A k \in 1 .. Len(t) : (s \o t)[Len(s) + k] = t[k]
           /\ \A k \in 1 .. Len(s) + Len(t) : \/ k \in 1 .. Len(s)
                                              \/ k - Len(s) \in 1 .. Len(t)
<1>1. PICK A : s \in Seq(A)
  BY DEF IsSeq
<1>2. PICK B : t \in Seq(B)
  BY DEF IsSeq
<1>3. s \in Seq(A \cup B) /\ t \in Seq(A \cup B)
  BY <1>1, <1>2, Wider
<1>4. s \o t \in Seq(A \cup B) /\ Len(s) \in Nat /\ Len(t) \in Nat
  BY <1>3
<1>5. Len(s \o t) = Len(s) + Len(t)
  BY <1>3
<1>6. \A k \in 1 .. Len(s) : (s \o t)[k] = s[k]
  BY <1>3
<1>7. \A k \in 1 .. Len(t) : (s \o t)[Len(s) + k] = t[k]
  BY <1>3
<1>8. \A k \in 1 .. Len(s) + Len(t) : k \in 1 .. Len(s) \/ k - Len(s) \in 1 .. Len(t)
  BY <1>4
<1> QED BY <1>4, <1>5, <1>6, <1>7, <1>8 DEF IsSeq

LEMMA TailOf ==
    ASSUME NEW s, IsSeq(s), s # <<>>
    PROVE  /\ IsSeq(Tail(s)) /\ Len(s) \in Nat \ {0} /\ Len(Tail(s)) = Len(s) - 1
           /\ Head(s) = s[1]
           /\ \A k \in 1 .. Len(s) - 1 : Tail(s)[k] = s[k + 1]
           /\ Len(s) = 1 <=> Tail(s) = <<>>
<1>1. PICK A : s \in Seq(A)
  BY DEF IsSeq
<1>2. Tail(s) \in Seq(A) /\ Len(s) \in Nat \ {0} /\ Len(Tail(s)) = Len(s) - 1
  BY <1>1
<1>3. Head(s) = s[1]
  BY <1>1
<1>4. \A k \in 1 .. Len(s) - 1 : Tail(s)[k] = s[k + 1]
  BY <1>1
<1>5. Len(s) = 1 <=> Tail(s) = <<>>
  <2>1. PICK u \in Seq(A) : u = Tail(s)
    BY <1>2
  <2>2. Len(u) = 0 <=> u = <<>>
    OBVIOUS
  <2> QED BY <1>2, <2>1, <2>2
<1> QED BY <1>2, <1>3, <1>4, <1>5 DEF IsSeq

LEMMA NothingIsSeq == IsSeq(<<>>) /\ Len(<<>>) = 0
<1>1. <<>> \in Seq(Nat)
  OBVIOUS
<1>2. Len(<<>>) = 0
  OBVIOUS
<1>3. IsSeq(<<>>)
  BY <1>1, Zenon DEF IsSeq
<1> QED BY <1>2, <1>3

\* All writes go to one area.
Into(s, area) == IsSeq(s) /\ \A k \in 1 .. Len(s) : s[k].area = area

LEMMA DivMonotone ==
    ASSUME NEW a \in Nat, NEW b \in Nat, a <= b, NEW e \in Nat \ {0}
    PROVE  a \div e \in Nat /\ b \div e \in Nat /\ a \div e <= b \div e
<1>1. PICK p \in Nat, r \in 0 .. e - 1 : a = e * p + r /\ a \div e = p
  OBVIOUS
<1>2. PICK q \in Nat, u \in 0 .. e - 1 : b = e * q + u /\ b \div e = q
  OBVIOUS
<1>3. ASSUME p > q PROVE FALSE
  <2>1. p >= q + 1
    BY <1>3
  <2>2. e * p >= e * (q + 1)
    BY <2>1
  <2>3. e * (q + 1) = e * q + e
    OBVIOUS
  <2>4. PICK x \in Int, y \in Int : x = e * p /\ y = e * q
    OBVIOUS
  <2>5. x >= y + e /\ a = x + r /\ b = y + u
    BY <1>1, <1>2, <2>2, <2>3, <2>4
  <2> QED BY <2>4, <2>5
<1> QED BY <1>1, <1>2, <1>3

\* The table is written sector by sector.
LEMMA FatWrites ==
    /\ Into(WriteFat, "fat")
    /\ \A c \in Clusters : \E k \in 1 .. Len(WriteFat) :
         WriteFat[k].area = "fat" /\ WriteFat[k].at = c \div EntriesPerSector
    /\ Len(WriteFat) \in Nat \ {0}
<1>0. EntriesPerSector \in Nat \ {0} /\ TOTAL_FAT12_ENTREIS - 1 \in Nat
  BY FAT12Assumption, Constants
<1>1. PICK l \in Nat : l = LastFatSector
  BY <1>0, DivMonotone DEF LastFatSector
<1>2. WriteFat = [k \in 1 .. l + 1 |-> Write("fat", k - 1, <<>>)]
  BY <1>1 DEF WriteFat
<1>3. \A k \in 1 .. l + 1 : WriteFat[k].area = "fat" /\ WriteFat[k].at = k - 1
  BY <1>2 DEF Write
<1>4. IsSeq(WriteFat) /\ Len(WriteFat) = l + 1
  <2>0. PICK W : W = {Write("fat", k - 1, <<>>) : k \in 1 .. l + 1}
    OBVIOUS
  <2>1. WriteFat \in [1 .. l + 1 -> W]
    BY <1>2, <2>0
  <2>2. l + 1 \in Nat
    OBVIOUS
  <2> QED BY <2>1, <2>2, FunctionIsSeq
<1>5. ASSUME NEW c \in Clusters
      PROVE  \E k \in 1 .. l + 1 : WriteFat[k].area = "fat" /\ WriteFat[k].at = c \div EntriesPerSector
  <2>1. c \in Nat /\ c <= TOTAL_FAT12_ENTREIS - 1
    BY Constants
  <2>2. PICK d \in Nat : d = c \div EntriesPerSector /\ d <= l
    BY <1>0, <1>1, <2>1, DivMonotone DEF LastFatSector
  <2>3. d + 1 \in 1 .. l + 1 /\ (d + 1) - 1 = d
    BY <2>2
  <2> QED BY <1>3, <2>2, <2>3
<1> QED BY <1>3, <1>4, <1>5 DEF Into

Fields == {NameAt, FirstAt, SizeAt}

\* Where a field of an entry lies in the directory.
LEMMA FieldAt ==
    ASSUME NEW i \in Slots, NEW f \in Fields
    PROVE  /\ EntryBytes * i + f \in Nat /\ EntryBytes * RootEntries - 1 \in Nat
           /\ EntryBytes * i + f <= EntryBytes * RootEntries - 1
<1>1. PICK l \in Nat \ {0} : l = RootEntries
  BY FAT12Assumption
<1>2. i \in Nat /\ i <= l - 1
  BY <1>1 DEF Slots
<1>3. f \in Nat /\ f <= 27
  BY DEF Fields, NameAt, FirstAt, SizeAt
<1> QED BY <1>1, <1>2, <1>3 DEF EntryBytes

\* The directory is written sector by sector, every field of every entry.
LEMMA DirWrites ==
    /\ Into(WriteDir, "dir")
    /\ \A i \in Slots, f \in Fields : \E k \in 1 .. Len(WriteDir) :
         WriteDir[k].area = "dir" /\ WriteDir[k].at = DirSector(i, f)
    /\ Len(WriteDir) \in Nat \ {0}
<1>0. SectorBytes \in Nat \ {0} /\ EntryBytes * RootEntries - 1 \in Nat
  <2>1. RootEntries \in Nat \ {0} /\ SectorBytes \in Nat \ {0}
    BY FAT12Assumption
  <2> QED BY <2>1 DEF EntryBytes
<1>1. PICK l \in Nat : l = LastDirSector
  BY <1>0, DivMonotone DEF LastDirSector
<1>2. WriteDir = [k \in 1 .. l + 1 |-> Write("dir", k - 1, <<>>)]
  BY <1>1 DEF WriteDir
<1>3. \A k \in 1 .. l + 1 : WriteDir[k].area = "dir" /\ WriteDir[k].at = k - 1
  BY <1>2 DEF Write
<1>4. IsSeq(WriteDir) /\ Len(WriteDir) = l + 1
  <2>0. PICK W : W = {Write("dir", k - 1, <<>>) : k \in 1 .. l + 1}
    OBVIOUS
  <2>1. WriteDir \in [1 .. l + 1 -> W]
    BY <1>2, <2>0
  <2>2. l + 1 \in Nat
    OBVIOUS
  <2> QED BY <2>1, <2>2, FunctionIsSeq
<1>5. ASSUME NEW i \in Slots, NEW f \in Fields
      PROVE  \E k \in 1 .. l + 1 : WriteDir[k].area = "dir" /\ WriteDir[k].at = DirSector(i, f)
  <2>1. PICK x \in Nat, y \in Nat : /\ x = EntryBytes * i + f /\ x <= y
                                    /\ y = EntryBytes * RootEntries - 1
    BY FieldAt
  <2>2. x \div SectorBytes \in Nat /\ x \div SectorBytes <= y \div SectorBytes
    BY <1>0, <2>1, DivMonotone
  <2>3. DirSector(i, f) = x \div SectorBytes /\ l = y \div SectorBytes
    BY <1>1, <2>1 DEF DirSector, LastDirSector
  <2>4. PICK d \in Nat : d = DirSector(i, f) /\ d <= l
    BY <2>2, <2>3
  <2>5. d + 1 \in 1 .. l + 1 /\ (d + 1) - 1 = d
    BY <2>4
  <2> QED BY <1>3, <2>4, <2>5
<1> QED BY <1>3, <1>4, <1>5 DEF Into

\* All sectors of the table and of the directory are among the writes.
Pending(s, area, at) == \E k \in 1 .. Len(s) : s[k].area = area /\ s[k].at = at

Covers(s) ==
    /\ \A c \in Clusters : Pending(s, "fat", c \div EntriesPerSector)
    /\ \A i \in Slots, f \in Fields : Pending(s, "dir", DirSector(i, f))

\* No write into area a comes after one into area b.
Precedes(s, a, b) ==
    \A j, k \in 1 .. Len(s) : j < k /\ s[j].area = b => s[k].area # a

\* The writes of data are those of the sequence d.
DataOf(s, d) ==
    /\ \A k \in 1 .. Len(s) : s[k].area = "data" => \E l \in 1 .. Len(d) : s[k] = d[l]
    /\ \A l \in 1 .. Len(d) : \E k \in 1 .. Len(s) : s[k] = d[l]

\* A write of three parts.
LEMMA Parts ==
    ASSUME NEW d, NEW s, NEW t, NEW a, NEW b,
           Into(d, "data"), Into(s, a), Into(t, b), a # b, a # "data", b # "data",
           Len(s) # 0
    PROVE  /\ IsSeq(d \o s \o t) /\ d \o s \o t # <<>>
           /\ Precedes(d \o s \o t, a, b)
           /\ DataOf(d \o s \o t, d)
           /\ \A x, y : Pending(s, x, y) \/ Pending(t, x, y) => Pending(d \o s \o t, x, y)
           /\ \A k \in 1 .. Len(d \o s \o t) : (d \o s \o t)[k].area \in {"data", a, b}
<1>0. IsSeq(d) /\ IsSeq(s) /\ IsSeq(t)
  BY DEF Into
<1>1. PICK u : u = d \o s
  OBVIOUS
<1>2. PICK v : v = u \o t
  OBVIOUS
<1>3. PICK ld, ls, lt \in Nat : ld = Len(d) /\ ls = Len(s) /\ lt = Len(t)
  BY <1>0, Concat
<1>4. /\ IsSeq(u) /\ Len(u) = ld + ls
      /\ \A k \in 1 .. ld : u[k] = d[k]
      /\ \A k \in 1 .. ls : u[ld + k] = s[k]
  BY <1>0, <1>1, <1>3, Concat
<1>5. /\ IsSeq(v) /\ Len(v) = ld + ls + lt
      /\ \A k \in 1 .. ld + ls : v[k] = u[k]
      /\ \A k \in 1 .. lt : v[ld + ls + k] = t[k]
  <2>1. PICK lu \in Nat : lu = ld + ls /\ lu = Len(u)
    BY <1>4
  <2>2. /\ IsSeq(v) /\ Len(v) = lu + lt
        /\ \A k \in 1 .. lu : v[k] = u[k]
        /\ \A k \in 1 .. lt : v[lu + k] = t[k]
    <3>1. IsSeq(u) /\ IsSeq(t) /\ Len(t) = lt /\ Len(u) = lu
      BY <1>0, <1>3, <1>4, <2>1
    <3>2. /\ IsSeq(u \o t) /\ Len(u \o t) = Len(u) + Len(t)
          /\ \A k \in 1 .. Len(u) : (u \o t)[k] = u[k]
          /\ \A k \in 1 .. Len(t) : (u \o t)[Len(u) + k] = t[k]
      BY <3>1, Concat
    <3> QED BY <1>2, <3>1, <3>2
  <2> QED BY <2>1, <2>2
<1>6. \A k \in 1 .. ld : v[k] = d[k]
  BY <1>4, <1>5
<1>7. \A k \in 1 .. ls : v[ld + k] = s[k]
  BY <1>4, <1>5
<1>8. ASSUME NEW k \in 1 .. ld PROVE v[k].area = "data"
  BY <1>3, <1>6 DEF Into
<1>9. ASSUME NEW k \in 1 .. ld + ls, k > ld PROVE v[k].area = a
  <2>1. k - ld \in 1 .. ls /\ ld + (k - ld) = k
    BY <1>9
  <2> QED BY ZenonT(60), <1>3, <1>7, <2>1 DEF Into
<1>10. ASSUME NEW k \in 1 .. ld + ls + lt, k > ld + ls PROVE v[k].area = b
  <2>1. PICK m \in 1 .. lt : ld + ls + m = k
    <3>1. k - (ld + ls) \in 1 .. lt /\ ld + ls + (k - (ld + ls)) = k
      BY <1>10
    <3> QED BY <3>1
  <2>2. v[k] = t[m]
    BY <1>5, <2>1
  <2> QED BY <1>3, <2>2 DEF Into
<1>11. v # <<>>
  BY <1>3, <1>5
<1>12. Precedes(v, a, b)
  <2> SUFFICES ASSUME NEW j \in 1 .. Len(v), NEW k \in 1 .. Len(v), j < k, v[j].area = b
               PROVE  v[k].area # a
    BY DEF Precedes
  <2>1. j > ld + ls
    BY <1>5, <1>8, <1>9
  <2>2. k > ld + ls /\ k \in 1 .. ld + ls + lt
    BY <1>5, <2>1
  <2> QED BY <1>10, <2>2
<1>13. DataOf(v, d)
  <2>1. ASSUME NEW k \in 1 .. Len(v), v[k].area = "data"
        PROVE  \E l \in 1 .. Len(d) : v[k] = d[l]
    <3>1. k <= ld
      BY <1>5, <1>9, <1>10, <2>1
    <3>2. k \in 1 .. Len(d)
      BY <1>3, <1>5, <3>1
    <3> QED BY <1>3, <1>6, <3>2
  <2>2. ASSUME NEW l \in 1 .. Len(d)
        PROVE  \E k \in 1 .. Len(v) : v[k] = d[l]
    <3>1. l \in 1 .. Len(v) /\ l \in 1 .. ld
      BY <1>3, <1>5
    <3> QED BY <1>6, <3>1
  <2> QED BY <2>1, <2>2 DEF DataOf
<1>14. ASSUME NEW x, NEW y, Pending(s, x, y) PROVE Pending(v, x, y)
  <2>1. PICK k \in 1 .. ls : s[k].area = x /\ s[k].at = y
    BY <1>3, <1>14 DEF Pending
  <2>2. ld + k \in 1 .. Len(v)
    BY <1>5
  <2> QED BY <1>7, <2>1, <2>2 DEF Pending
<1>15. ASSUME NEW x, NEW y, Pending(t, x, y) PROVE Pending(v, x, y)
  <2>1. PICK k \in 1 .. lt : t[k].area = x /\ t[k].at = y
    BY <1>3, <1>15 DEF Pending
  <2>2. ld + ls + k \in 1 .. Len(v)
    BY <1>5
  <2> QED BY <1>5, <2>1, <2>2 DEF Pending
<1>16. ASSUME NEW k \in 1 .. Len(v) PROVE v[k].area \in {"data", a, b}
  <2>1. k <= ld \/ (k > ld /\ k <= ld + ls) \/ k > ld + ls
    BY <1>5
  <2> QED BY <1>5, <1>8, <1>9, <1>10, <2>1
<1> QED BY <1>1, <1>2, <1>5, <1>11, <1>12, <1>13, <1>14, <1>15, <1>16

\* write_into_memory, behind any data.
LEMMA SavePass ==
    ASSUME NEW d, Into(d, "data"), NEW s, s = d \o WriteFat \o WriteDir
    PROVE  /\ IsSeq(s) /\ s # <<>> /\ Covers(s)
           /\ Precedes(s, "fat", "dir") /\ DataOf(s, d)
           /\ \A k \in 1 .. Len(s) : s[k].area \in {"data", "fat", "dir"}
<1>1. /\ IsSeq(s) /\ s # <<>> /\ Precedes(s, "fat", "dir") /\ DataOf(s, d)
      /\ \A x, y : Pending(WriteFat, x, y) \/ Pending(WriteDir, x, y) => Pending(s, x, y)
      /\ \A k \in 1 .. Len(s) : s[k].area \in {"data", "fat", "dir"}
  <2>1. Into(WriteFat, "fat") /\ Into(WriteDir, "dir") /\ Len(WriteFat) # 0
    BY FatWrites, DirWrites
  <2>2. "fat" # "dir" /\ "fat" # "data" /\ "dir" # "data"
    OBVIOUS
  <2> QED BY ZenonT(60), <2>1, <2>2, Parts
<1>2. \A c \in Clusters : Pending(WriteFat, "fat", c \div EntriesPerSector)
  BY FatWrites DEF Pending
<1>3. \A i \in Slots, f \in Fields : Pending(WriteDir, "dir", DirSector(i, f))
  BY DirWrites DEF Pending
<1> QED BY <1>1, <1>2, <1>3 DEF Covers

\* The writes of delete_file.
LEMMA WipePass ==
    ASSUME NEW d, Into(d, "data"), NEW s, s = d \o WriteDir \o WriteFat
    PROVE  /\ IsSeq(s) /\ s # <<>> /\ Covers(s)
           /\ Precedes(s, "dir", "fat") /\ DataOf(s, d)
           /\ \A k \in 1 .. Len(s) : s[k].area \in {"data", "fat", "dir"}
<1>1. /\ IsSeq(s) /\ s # <<>> /\ Precedes(s, "dir", "fat") /\ DataOf(s, d)
      /\ \A x, y : Pending(WriteDir, x, y) \/ Pending(WriteFat, x, y) => Pending(s, x, y)
      /\ \A k \in 1 .. Len(s) : s[k].area \in {"data", "dir", "fat"}
  <2>1. Into(WriteFat, "fat") /\ Into(WriteDir, "dir") /\ Len(WriteDir) # 0
    BY FatWrites, DirWrites
  <2>2. "fat" # "dir" /\ "fat" # "data" /\ "dir" # "data"
    OBVIOUS
  <2> QED BY ZenonT(60), <2>1, <2>2, Parts
<1>2. \A c \in Clusters : Pending(WriteFat, "fat", c \div EntriesPerSector)
  BY FatWrites DEF Pending
<1>3. \A i \in Slots, f \in Fields : Pending(WriteDir, "dir", DirSector(i, f))
  BY DirWrites DEF Pending
<1> QED BY <1>1, <1>2, <1>3 DEF Covers

\* The first part of a save.
LEMMA SaveData ==
    ASSUME NEW chain, NEW n, NEW size \in Nat, NEW d,
           d = [k \in 1 .. size |-> Write("data", chain[k], <<n, k>>)]
    PROVE  /\ Into(d, "data") /\ Len(d) = size
           /\ \A k \in 1 .. size : d[k] = Write("data", chain[k], <<n, k>>)
<1>1. PICK W : W = {Write("data", chain[k], <<n, k>>) : k \in 1 .. size}
  OBVIOUS
<1>2. d \in [1 .. size -> W]
  BY <1>1
<1>3. IsSeq(d) /\ Len(d) = size
  BY <1>2, FunctionIsSeq
<1>4. \A k \in 1 .. size : d[k] = Write("data", chain[k], <<n, k>>)
  OBVIOUS
<1>5. \A k \in 1 .. size : d[k].area = "data"
  BY <1>4 DEF Write
<1> QED BY <1>3, <1>4, <1>5 DEF Into

\* The first part of a deletion.
LEMMA WipeData ==
    ASSUME NEW chain, NEW n \in Nat, NEW d,
           d = [k \in 1 .. n |-> Write("data", chain[k], <<>>)]
    PROVE  /\ Into(d, "data") /\ Len(d) = n
           /\ \A k \in 1 .. n : d[k] = Write("data", chain[k], <<>>)
<1>1. PICK W : W = {Write("data", chain[k], <<>>) : k \in 1 .. n}
  OBVIOUS
<1>2. d \in [1 .. n -> W]
  BY <1>1
<1>3. IsSeq(d) /\ Len(d) = n
  BY <1>2, FunctionIsSeq
<1>4. \A k \in 1 .. n : d[k] = Write("data", chain[k], <<>>)
  OBVIOUS
<1>5. \A k \in 1 .. n : d[k].area = "data"
  BY <1>4 DEF Write
<1> QED BY <1>3, <1>4, <1>5 DEF Into

\* The endless deletion.
LEMMA WipeForEverData ==
    ASSUME NEW c
    PROVE  Into(WipeForEver(c), "data")
<1>0. TOTAL_FAT12_ENTREIS + 1 \in Nat
  BY Constants
<1>1. PICK n \in Nat : n = TOTAL_FAT12_ENTREIS + 1
  BY <1>0
<1>2. PICK ch : ch = [k \in 1 .. n |-> Link(fat12_table, c, k - 1)]
  OBVIOUS
<1>3. WipeForEver(c) = [k \in 1 .. n |-> Write("data", ch[k], <<>>)]
  BY <1>1, <1>2 DEF WipeForEver
<1> QED BY <1>3, WipeData

LEMMA ChainLen ==
    ASSUME NEW t, NEW c, Ends(t, c)
    PROVE  Len(Chain(t, c)) \in Nat
<1>1. Lengths(t, c) \subseteq Nat /\ Lengths(t, c) # {}
  BY Constants DEF Lengths, Ends
<1>2. \E m \in Lengths(t, c) : \A k \in Lengths(t, c) : m <= k
  BY <1>1, LeastNatural
<1>3. PICK n \in Nat : n = CHOOSE m \in Lengths(t, c) : \A k \in Lengths(t, c) : m <= k
  BY <1>1, <1>2
<1>4. Chain(t, c) = [k \in 1 .. n |-> Link(t, c, k - 1)]
  BY <1>3, Zenon DEF Chain
<1>5. PICK W : W = {Link(t, c, k - 1) : k \in 1 .. n}
  OBVIOUS
<1>6. Chain(t, c) \in [1 .. n -> W]
  BY <1>4, <1>5
<1> QED BY <1>6, FunctionIsSeq
-----------------------------------------------------------------------------
(* Types.                                                                   *)

\* The types, what is left to be written and what a hung driver leaves.
Typed ==
    /\ TypeOK
    /\ IsSeq(todo)
    /\ saving # NONE => saves \in 1 .. MaxSaves /\ (todo # <<>> \/ hung)

LEMMA SlotsNat == Slots \subseteq Nat /\ NONE \notin Slots
  BY FAT12Assumption DEF Slots, NONE

LEMMA SizesNat == Sizes \subseteq Nat
  BY FAT12Assumption

LEMMA NoFileType ==
    NoFile \in Files /\ NoFile.first = UNSET /\ NoFile.name = <<>> /\ NoFile.size = 0
  BY DEF NoFile, Files

LEMMA EmptySlot ==
    ASSUME EmptySlots # {}
    PROVE  FirstOf(EmptySlots) \in Slots /\ root_dir[FirstOf(EmptySlots)].name = <<>>
<1>1. EmptySlots \subseteq Nat
  BY SlotsNat DEF EmptySlots
<1>2. FirstOf(EmptySlots) \in EmptySlots
  BY <1>1, Least
<1> QED BY <1>2 DEF EmptySlots

LEMMA FoundSlot ==
    ASSUME NEW dir, NEW name, comp_file_name(dir, name) # {}
    PROVE  /\ FirstOf(comp_file_name(dir, name)) \in Slots
           /\ FirstOf(comp_file_name(dir, name)) \in comp_file_name(dir, name)
<1>1. comp_file_name(dir, name) \subseteq Nat /\ comp_file_name(dir, name) \subseteq Slots
  BY SlotsNat DEF comp_file_name
<1>2. FirstOf(comp_file_name(dir, name)) \in comp_file_name(dir, name)
  BY <1>1, Least
<1> QED BY <1>1, <1>2

LEMMA TypedInit == Init => Typed
<1> SUFFICES ASSUME Init PROVE Typed
  OBVIOUS
<1>1. 0 \in Clusters
  BY Constants DEF Clusters
<1>2. MaxSaves \in Nat /\ MaxReboots \in Nat
  BY FAT12Assumption
<1>3. fat12_table \in Tables /\ diskFat \in Tables
  BY <1>1 DEF Init, Tables, FREE_ENTRY
<1>4. root_dir \in [Slots -> Files] /\ diskDir \in [Slots -> Files]
  BY NoFileType DEF Init
<1>5. IsSeq(todo) /\ Len(todo) = 0
  BY NothingIsSeq DEF Init
<1>7. \A k \in 1 .. Len(todo) : todo[k].area \in {"data", "fat", "dir"}
  BY <1>5
<1>8. DOMAIN data = Clusters /\ shown.slot = NONE /\ saving = NONE /\ saved = {}
  BY DEF Init
<1>9. saves \in 0 .. MaxSaves /\ reboots \in 0 .. MaxReboots
  BY <1>2 DEF Init
<1>10. /\ mounted \in BOOLEAN /\ stale \in BOOLEAN /\ blind \in BOOLEAN
       /\ behind \in BOOLEAN /\ hung \in BOOLEAN /\ torn \subseteq Slots
  BY DEF Init
<1>11. TypeOK
  BY <1>3, <1>4, <1>7, <1>8, <1>9, <1>10 DEF TypeOK
<1> QED BY <1>5, <1>8, <1>11 DEF Typed

\* A file of four parts.
LEMMA FileFields ==
    ASSUME NEW e \in Files, NEW f \in Files,
           e.name = f.name, e.first = f.first, e.size = f.size
    PROVE  e = f
  BY DEF Files

\* An entry of which a sector is stored: each field is the old or the new one.
LEMMA StoredEntry ==
    ASSUME NEW i, NEW at, root_dir[i] \in Files, diskDir[i] \in Files
    PROVE  /\ Stored(i, at) \in Files
           /\ Stored(i, at).name = IF DirSector(i, NameAt) = at THEN root_dir[i].name
                                                                ELSE diskDir[i].name
           /\ Stored(i, at).first = IF DirSector(i, FirstAt) = at THEN root_dir[i].first
                                                                  ELSE diskDir[i].first
           /\ Stored(i, at).size = IF DirSector(i, SizeAt) = at THEN root_dir[i].size
                                                                ELSE diskDir[i].size
<1>1. PICK a, b, c : /\ a = IF DirSector(i, NameAt) = at THEN root_dir[i].name
                                                         ELSE diskDir[i].name
                     /\ b = IF DirSector(i, FirstAt) = at THEN root_dir[i].first
                                                          ELSE diskDir[i].first
                     /\ c = IF DirSector(i, SizeAt) = at THEN root_dir[i].size
                                                         ELSE diskDir[i].size
  OBVIOUS
<1>2. Stored(i, at) = [name |-> a, first |-> b, size |-> c]
  BY <1>1, Zenon DEF Stored
<1>3. /\ a \in Names \cup {<<>>} /\ b \in Clusters \cup {NOWHERE, UNSET}
      /\ c \in Sizes \cup {0}
  BY <1>1 DEF Files
<1>4. [name |-> a, first |-> b, size |-> c] \in Files
  BY <1>3 DEF Files
<1>5. Stored(i, at).name = a /\ Stored(i, at).first = b /\ Stored(i, at).size = c
  BY <1>2
<1> QED BY <1>1, <1>2, <1>4, <1>5

LEMMA TypedWriteSector ==
    ASSUME Typed, WriteSector PROVE Typed'
<1>1. PICK w : w = Head(todo)
  OBVIOUS
<1>2. todo # <<>> /\ IsSeq(todo) /\ todo' = Tail(todo)
  BY DEF Typed, WriteSector
<1>3. /\ IsSeq(todo') /\ Len(todo') = Len(todo) - 1 /\ Len(todo) \in Nat \ {0}
      /\ \A k \in 1 .. Len(todo) - 1 : todo'[k] = todo[k + 1]
      /\ Len(todo) = 1 <=> todo' = <<>>
  BY <1>2, TailOf
<1>4. \A k \in 1 .. Len(todo') : todo'[k].area \in {"data", "fat", "dir"}
  <2> SUFFICES ASSUME NEW k \in 1 .. Len(todo') PROVE todo'[k].area \in {"data", "fat", "dir"}
    OBVIOUS
  <2>1. k + 1 \in 1 .. Len(todo) /\ todo'[k] = todo[k + 1]
    BY <1>3
  <2> QED BY <2>1 DEF Typed, TypeOK
<1>5. DOMAIN data' = Clusters
  BY DEF WriteSector, Typed, TypeOK
<1>6. diskFat' \in Tables
  <2>1. fat12_table \in Tables /\ diskFat \in Tables
    BY DEF Typed, TypeOK
  <2>2. CASE w.area # "fat"
    BY <1>1, <2>1, <2>2 DEF WriteSector
  <2>3. CASE w.area = "fat"
    <3>1. diskFat' = [c \in Clusters |-> IF c \div EntriesPerSector = w.at
                                         THEN fat12_table[c] ELSE diskFat[c]]
      BY <1>1, <2>3 DEF WriteSector
    <3> QED BY <2>1, <3>1 DEF Tables
  <2> QED BY <2>2, <2>3
<1>7. diskDir' \in [Slots -> Files]
  <2>1. root_dir \in [Slots -> Files] /\ diskDir \in [Slots -> Files]
    BY DEF Typed, TypeOK
  <2>2. CASE w.area # "dir"
    BY <1>1, <2>1, <2>2 DEF WriteSector
  <2>3. CASE w.area = "dir"
    <3>1. diskDir' = [i \in Slots |-> Stored(i, w.at)]
      BY <1>1, <2>3 DEF WriteSector
    <3>2. \A i \in Slots : Stored(i, w.at) \in Files
      BY <2>1, StoredEntry
    <3> QED BY <3>1, <3>2
  <2> QED BY <2>2, <2>3
<1>8. saving' \in Slots \cup {NONE} /\ saved' \subseteq [slot : Slots, number : 1 .. MaxSaves]
  <2>1. CASE Len(todo) = 1 /\ saving # NONE
    <3>1. saving' = NONE /\ saved' = saved \cup {[slot |-> saving, number |-> saves]}
      BY <2>1 DEF WriteSector
    <3>2. saving \in Slots /\ saves \in 1 .. MaxSaves
      BY <2>1 DEF Typed, TypeOK
    <3> QED BY <3>1, <3>2 DEF Typed, TypeOK
  <2>2. CASE ~(Len(todo) = 1 /\ saving # NONE)
    <3>1. saving' = saving /\ saved' = saved
      BY <2>2 DEF WriteSector
    <3> QED BY <3>1 DEF Typed, TypeOK
  <2> QED BY <2>1, <2>2
<1>9. saving' # NONE => saves' \in 1 .. MaxSaves /\ (todo' # <<>> \/ hung')
  BY <1>3 DEF WriteSector, Typed
<1>10. behind' \in BOOLEAN /\ torn' \subseteq Slots
  BY DEF WriteSector
<1>11. /\ fat12_table' = fat12_table /\ root_dir' = root_dir /\ hung' = hung
       /\ shown' = shown /\ saves' = saves /\ reboots' = reboots
       /\ mounted' = mounted /\ stale' = stale /\ blind' = blind
  BY DEF WriteSector, memVars
<1>12. /\ fat12_table \in Tables /\ root_dir \in [Slots -> Files] /\ hung \in BOOLEAN
       /\ shown.slot \in Slots \cup {NONE} /\ saves \in 0 .. MaxSaves
       /\ reboots \in 0 .. MaxReboots /\ mounted \in BOOLEAN /\ stale \in BOOLEAN
       /\ blind \in BOOLEAN
  BY DEF Typed, TypeOK
<1>13. TypeOK'
  BY <1>4, <1>5, <1>6, <1>7, <1>8, <1>10, <1>11, <1>12 DEF TypeOK
<1> QED BY <1>3, <1>9, <1>13 DEF Typed

\* A directory with one entry more.
LEMMA DirPut ==
    ASSUME NEW dir \in [Slots -> Files], NEW i \in Slots, NEW e \in Files,
           NEW new, new = [dir EXCEPT ![i] = e]
    PROVE  /\ new \in [Slots -> Files] /\ new[i] = e
           /\ \A j \in Slots : j # i => new[j] = dir[j]
  OBVIOUS

LEMMA TypedCreate ==
    ASSUME Typed, NEW name \in Names, NEW size \in Sizes, create_file(name, size)
    PROVE  Typed'
<1>0. size \in Nat
  BY SizesNat
<1>1. PICK e : e = [name |-> name, first |-> Taken(size)[1], size |-> size]
  OBVIOUS
<1>2. PICK ch : ch = Chain(fat12_table', Taken(size)[1])
  OBVIOUS
<1>3. PICK d : d = [k \in 1 .. size |-> Write("data", ch[k], <<saves', k>>)]
  OBVIOUS
<1>4. Into(d, "data")
  BY <1>0, <1>3, SaveData
<1>5. todo' = d \o WriteFat \o WriteDir
  BY <1>2, <1>3 DEF create_file, WriteFile
<1>6. /\ IsSeq(todo') /\ todo' # <<>>
      /\ \A k \in 1 .. Len(todo') : todo'[k].area \in {"data", "fat", "dir"}
  BY <1>4, <1>5, SavePass
<1>7. Enough(size) /\ EmptySlots # {} /\ fat12_table \in Tables /\ root_dir \in [Slots -> Files]
  BY DEF create_file, Typed, TypeOK
<1>8. fat12_table' \in Tables
  BY <1>0, <1>7, AllocateKeeps DEF create_file
<1>9. saving' \in Slots
  BY <1>7, EmptySlot DEF create_file
<1>10. Taken(size)[1] \in Clusters
  <2>1. 1 \in 1 .. Needed(size)
    BY <1>0, NeededType
  <2> QED BY <1>0, <1>7, <2>1, EnoughTaken
<1>11. e \in Files
  BY <1>1, <1>10 DEF Files
<1>12. root_dir' = [root_dir EXCEPT ![saving'] = e]
  BY <1>1 DEF create_file
<1>13. root_dir' \in [Slots -> Files]
  BY <1>7, <1>9, <1>11, <1>12, DirPut
<1>14. saves' \in 1 .. MaxSaves
  BY FAT12Assumption DEF create_file, Typed, TypeOK
<1>15. blind' \in BOOLEAN
  BY DEF create_file, Typed, TypeOK
<1>16. /\ diskFat' = diskFat /\ diskDir' = diskDir /\ data' = data /\ hung' = hung
       /\ shown' = shown /\ reboots' = reboots /\ saved' = saved
       /\ mounted' = mounted /\ stale' = stale /\ behind' = behind /\ torn' = torn
  BY DEF create_file, diskVars
<1>17. saves' \in 0 .. MaxSaves
  BY <1>14, FAT12Assumption
<1>18. TypeOK'
  BY <1>6, <1>8, <1>9, <1>13, <1>15, <1>16, <1>17 DEF Typed, TypeOK
<1> QED BY <1>6, <1>14, <1>18 DEF Typed

LEMMA TypedNoSlot ==
    ASSUME Typed, NEW size \in Sizes, CreateNoSlot(size)
    PROVE  Typed'
<1>0. size \in Nat
  BY SizesNat
<1>1. fat12_table' \in Tables
  BY <1>0, AllocateKeeps DEF CreateNoSlot, Typed, TypeOK
<1>2. saves' \in 0 .. MaxSaves
  BY FAT12Assumption DEF CreateNoSlot, Typed, TypeOK
<1>3. /\ root_dir' = root_dir /\ diskFat' = diskFat /\ diskDir' = diskDir /\ data' = data
      /\ todo' = todo /\ saving' = saving /\ hung' = hung /\ shown' = shown
      /\ reboots' = reboots /\ saved' = saved /\ mounted' = mounted /\ stale' = stale
      /\ blind' = blind /\ behind' = behind /\ torn' = torn
  BY DEF CreateNoSlot, diskVars, auxVars
<1>4. saving = NONE
  BY DEF CreateNoSlot, Idle, Typed
<1>5. TypeOK'
  BY <1>1, <1>2, <1>3 DEF Typed, TypeOK
<1> QED BY <1>3, <1>4, <1>5 DEF Typed

LEMMA TypedHangs ==
    ASSUME Typed, NEW name \in Names, NEW size \in Sizes, CreateHangs(name, size)
    PROVE  Typed'
<1>0. size \in Nat
  BY SizesNat
<1>1. PICK e : e = [name |-> name, first |-> NOWHERE, size |-> size]
  OBVIOUS
<1>2. fat12_table' \in Tables
  BY <1>0, AllocateKeeps DEF CreateHangs, Typed, TypeOK
<1>3. EmptySlots # {} /\ root_dir \in [Slots -> Files]
  BY DEF CreateHangs, Typed, TypeOK
<1>4. saving' \in Slots
  BY <1>3, EmptySlot DEF CreateHangs
<1>5. e \in Files
  BY <1>1 DEF Files
<1>6. root_dir' = [root_dir EXCEPT ![saving'] = e]
  BY <1>1 DEF CreateHangs
<1>7. root_dir' \in [Slots -> Files]
  BY <1>3, <1>4, <1>5, <1>6, DirPut
<1>8. saves' \in 1 .. MaxSaves
  BY FAT12Assumption DEF CreateHangs, Typed, TypeOK
<1>9. blind' \in BOOLEAN /\ hung' = TRUE
  BY DEF CreateHangs, Typed, TypeOK
<1>10. /\ diskFat' = diskFat /\ diskDir' = diskDir /\ data' = data /\ todo' = todo
       /\ shown' = shown /\ reboots' = reboots /\ saved' = saved
       /\ mounted' = mounted /\ stale' = stale /\ behind' = behind /\ torn' = torn
  BY DEF CreateHangs, diskVars
<1>11. saves' \in 0 .. MaxSaves
  BY <1>8, FAT12Assumption
<1>12. TypeOK'
  BY <1>2, <1>4, <1>7, <1>9, <1>10, <1>11 DEF Typed, TypeOK
<1> QED BY <1>8, <1>9, <1>10, <1>12 DEF Typed

LEMMA TypedNowhere ==
    ASSUME Typed, NEW name \in Names, CreateNowhere(name)
    PROVE  Typed'
<1>1. PICK e : e = [name |-> name, first |-> NOWHERE, size |-> 0]
  OBVIOUS
<1>4. Into(<<>>, "data")
  BY NothingIsSeq DEF Into
<1>5. todo' = <<>> \o WriteFat \o WriteDir
  <2>1. PICK W : WriteFat \in Seq(W)
    BY FatWrites DEF Into, IsSeq
  <2>2. <<>> \o WriteFat = WriteFat
    BY <2>1
  <2> QED BY <2>2 DEF CreateNowhere
<1>6. /\ IsSeq(todo') /\ todo' # <<>>
      /\ \A k \in 1 .. Len(todo') : todo'[k].area \in {"data", "fat", "dir"}
  BY <1>4, <1>5, SavePass
<1>7. EmptySlots # {} /\ root_dir \in [Slots -> Files]
  BY DEF CreateNowhere, Typed, TypeOK
<1>9. saving' \in Slots
  BY <1>7, EmptySlot DEF CreateNowhere
<1>11. e \in Files
  BY <1>1 DEF Files
<1>12. root_dir' = [root_dir EXCEPT ![saving'] = e]
  BY <1>1 DEF CreateNowhere
<1>13. root_dir' \in [Slots -> Files]
  BY <1>7, <1>9, <1>11, <1>12, DirPut
<1>14. saves' \in 1 .. MaxSaves
  BY FAT12Assumption DEF CreateNowhere, Typed, TypeOK
<1>15. blind' \in BOOLEAN
  BY DEF CreateNowhere, Typed, TypeOK
<1>16. /\ diskFat' = diskFat /\ diskDir' = diskDir /\ data' = data /\ hung' = hung
       /\ shown' = shown /\ reboots' = reboots /\ saved' = saved
       /\ mounted' = mounted /\ stale' = stale /\ behind' = behind /\ torn' = torn
       /\ fat12_table' = fat12_table
  BY DEF CreateNowhere, diskVars
<1>17. saves' \in 0 .. MaxSaves
  BY <1>14, FAT12Assumption
<1>18. TypeOK'
  BY <1>6, <1>9, <1>13, <1>15, <1>16, <1>17 DEF Typed, TypeOK
<1> QED BY <1>6, <1>14, <1>18 DEF Typed

LEMMA TypedAbandon ==
    ASSUME Typed, Abandon PROVE Typed'
<1>1. IsSeq(todo') /\ Len(todo') = 0 /\ saving' = NONE /\ behind' = TRUE /\ hung' = FALSE
  BY NothingIsSeq DEF Abandon
<1>2. /\ fat12_table' = fat12_table /\ root_dir' = root_dir
      /\ diskFat' = diskFat /\ diskDir' = diskDir /\ data' = data
      /\ shown' = shown /\ saves' = saves
      /\ reboots' = reboots /\ saved' = saved /\ mounted' = mounted /\ stale' = stale
      /\ blind' = blind /\ torn' = torn
  BY DEF Abandon, memVars, diskVars
<1>3. \A k \in 1 .. Len(todo') : todo'[k].area \in {"data", "fat", "dir"}
  BY <1>1
<1>4. TypeOK'
  BY <1>1, <1>2, <1>3 DEF Typed, TypeOK
<1> QED BY <1>1, <1>2, <1>4 DEF Typed

LEMMA TypedRead ==
    ASSUME Typed, NEW name \in Names, read_file(name) PROVE Typed'
<1>1. /\ root_dir' = diskDir /\ mounted' = TRUE /\ hung' \in BOOLEAN
      /\ fat12_table' = fat12_table
      /\ diskFat' = diskFat /\ diskDir' = diskDir /\ data' = data
      /\ todo' = todo /\ saving' = saving /\ saves' = saves
      /\ reboots' = reboots /\ saved' = saved /\ stale' = stale
      /\ blind' = blind /\ behind' = behind /\ torn' = torn
  BY DEF read_file, diskVars, Typed, TypeOK
<1>2. shown'.slot \in Slots \cup {NONE}
  <2>1. CASE shown' = shown
    BY <2>1 DEF Typed, TypeOK
  <2>2. CASE shown' # shown
    <3>1. /\ comp_file_name(diskDir, name) # {}
          /\ shown'.slot = FirstOf(comp_file_name(diskDir, name))
      BY <2>2 DEF read_file
    <3> QED BY <3>1, FoundSlot
  <2> QED BY <2>1, <2>2
<1>3. TypeOK'
  BY <1>1, <1>2 DEF Typed, TypeOK
<1>4. saving = NONE
  BY DEF read_file, Idle, Typed
<1> QED BY <1>1, <1>3, <1>4 DEF Typed

\* Erase with the clusters of any chain.
LEMMA TypedErase ==
    ASSUME Typed, NEW i \in Slots, NEW ch, NEW n \in Nat, n = Len(ch), Erase(i, ch)
    PROVE  /\ fat12_table' \in Tables /\ root_dir' \in [Slots -> Files]
           /\ IsSeq(todo') /\ hung' = hung
           /\ \A k \in 1 .. Len(todo') : todo'[k].area \in {"data", "fat", "dir"}
           /\ saved' \subseteq [slot : Slots, number : 1 .. MaxSaves]
<1>1. /\ fat12_table' = [x \in Clusters |-> IF \E k \in 1 .. n : ch[k] = x
                                            THEN FREE_ENTRY ELSE fat12_table[x]]
      /\ root_dir' = [root_dir EXCEPT ![i] = NoFile]
      /\ todo' = WipeFile(ch) /\ saved' = {s \in saved : s.slot # i} /\ hung' = hung
  BY DEF Erase
<1>3. PICK d : d = [k \in 1 .. n |-> Write("data", ch[k], <<>>)]
  OBVIOUS
<1>4. Into(d, "data")
  BY <1>3, WipeData
<1>5. todo' = d \o WriteDir \o WriteFat
  BY <1>1, <1>3 DEF WipeFile
<1>6. IsSeq(todo') /\ \A k \in 1 .. Len(todo') : todo'[k].area \in {"data", "fat", "dir"}
  BY <1>4, <1>5, WipePass
<1>7. FREE_ENTRY \in Clusters
  BY Constants DEF Clusters
<1>8. fat12_table' \in Tables
  BY <1>1, <1>7 DEF Tables, Typed, TypeOK
<1>9. root_dir \in [Slots -> Files]
  BY DEF Typed, TypeOK
<1>10. root_dir' \in [Slots -> Files]
  BY <1>1, <1>9, NoFileType, DirPut
<1>11. saved' \subseteq [slot : Slots, number : 1 .. MaxSaves]
  BY <1>1 DEF Typed, TypeOK
<1> QED BY <1>1, <1>6, <1>8, <1>10, <1>11

LEMMA TypedDelete ==
    ASSUME Typed, NEW name \in Names, delete_file(name) PROVE Typed'
<1>1. PICK i \in Slots : i = FirstOf(comp_file_name(root_dir, name))
  BY FoundSlot DEF delete_file
<1>2. PICK c : c = root_dir[i].first
  OBVIOUS
<1>4. /\ diskFat' = diskFat /\ diskDir' = diskDir /\ data' = data /\ saving' = saving
      /\ shown' = shown /\ saves' = saves /\ reboots' = reboots /\ mounted' = mounted
      /\ stale' \in BOOLEAN /\ blind' = blind /\ behind' = behind /\ torn' = torn
  BY DEF delete_file, diskVars, Typed, TypeOK
<1>5. saving = NONE
  BY DEF delete_file, Idle, Typed
<1>6. ASSUME NEW ch, Len(ch) \in Nat, Erase(i, ch) PROVE Typed'
  <2>1. PICK n \in Nat : n = Len(ch)
    BY <1>6
  <2>2. /\ fat12_table' \in Tables /\ root_dir' \in [Slots -> Files]
        /\ IsSeq(todo') /\ hung' = hung
        /\ \A k \in 1 .. Len(todo') : todo'[k].area \in {"data", "fat", "dir"}
        /\ saved' \subseteq [slot : Slots, number : 1 .. MaxSaves]
    BY <1>6, <2>1, TypedErase
  <2>3. TypeOK'
    BY <1>4, <2>2 DEF Typed, TypeOK
  <2> QED BY <1>4, <1>5, <2>2, <2>3 DEF Typed
<1>7. ASSUME NEW x, Ends(fat12_table, x), Erase(i, Chain(fat12_table, x)) PROVE Typed'
  <2>1. Len(Chain(fat12_table, x)) \in Nat
    BY <1>7, ChainLen
  <2> QED BY <1>6, <1>7, <2>1
<1>8. ASSUME hung' = TRUE, fat12_table' = fat12_table, root_dir' = root_dir, saved' = saved,
             todo' = IF c \in Clusters THEN WipeForEver(c) ELSE <<>>
      PROVE  Typed'
  <2>1. Into(WipeForEver(c), "data") /\ IsSeq(<<>>) /\ Len(<<>>) = 0
    BY WipeForEverData, NothingIsSeq
  <2>2. IsSeq(todo') /\ \A k \in 1 .. Len(todo') : todo'[k].area \in {"data", "fat", "dir"}
    BY <1>8, <2>1 DEF Into
  <2>3. TypeOK'
    BY <1>4, <1>8, <2>2 DEF Typed, TypeOK
  <2> QED BY <1>4, <1>5, <1>8, <2>2, <2>3 DEF Typed
<1>9. \/ Ends(fat12_table, c) /\ Erase(i, Chain(fat12_table, c))
      \/ Erase(i, <<>>)
      \/ \E x \in Clusters : Ends(fat12_table, x) /\ Erase(i, Chain(fat12_table, x))
      \/ /\ hung' = TRUE /\ fat12_table' = fat12_table /\ root_dir' = root_dir
         /\ saved' = saved
         /\ todo' = IF c \in Clusters THEN WipeForEver(c) ELSE <<>>
  BY <1>1, <1>2 DEF delete_file, memVars
<1>10. Len(<<>>) \in Nat
  BY NothingIsSeq
<1> QED BY <1>6, <1>7, <1>8, <1>9, <1>10

LEMMA TypedReboot ==
    ASSUME Typed, Reboot PROVE Typed'
<1>1. Loaded \in Tables
  <2>1. FREE_ENTRY \in Clusters
    BY Constants DEF Clusters
  <2>2. diskFat \in Tables
    BY DEF Typed, TypeOK
  <2> QED BY <2>1, <2>2 DEF Loaded, Tables
<1>2. /\ fat12_table' = Loaded /\ root_dir' = [i \in Slots |-> NoFile]
      /\ IsSeq(todo') /\ Len(todo') = 0 /\ saving' = NONE /\ hung' = FALSE
      /\ shown'.slot = NONE /\ mounted' = FALSE /\ stale' \in BOOLEAN /\ behind' = FALSE
  BY NothingIsSeq DEF Reboot
<1>3. /\ diskFat' = diskFat /\ diskDir' = diskDir /\ data' = data
      /\ saves' = saves /\ saved' = saved /\ blind' = blind /\ torn' = torn
  BY DEF Reboot, diskVars
<1>4. reboots' \in 0 .. MaxReboots
  BY FAT12Assumption DEF Reboot, Typed, TypeOK
<1>5. root_dir' \in [Slots -> Files]
  BY <1>2, NoFileType
<1>6. \A k \in 1 .. Len(todo') : todo'[k].area \in {"data", "fat", "dir"}
  BY <1>2
<1>7. TypeOK'
  BY <1>1, <1>2, <1>3, <1>4, <1>5, <1>6 DEF Typed, TypeOK
<1> QED BY <1>2, <1>7 DEF Typed

LEMMA TypedNext ==
    ASSUME Typed, [Next]_vars PROVE Typed'
<1>1. CASE Next
  BY <1>1, TypedWriteSector, TypedCreate, TypedNoSlot, TypedHangs, TypedNowhere,
     TypedRead, TypedDelete, TypedAbandon, TypedReboot DEF Next
<1>2. CASE UNCHANGED vars
  BY <1>2 DEF vars, memVars, diskVars, auxVars, Typed, TypeOK
<1> QED BY <1>1, <1>2

\* create_file, read_file, delete_file, the writes of single sectors, abandoned
\* saves and reboots keep every table entry a cluster or the end mark, every
\* directory entry a file, and save only into slots of the directory.
THEOREM FileTypes == Spec => []TypeOK
<1>1. Init => Typed
  BY TypedInit
<1>2. Typed /\ [Next]_vars => Typed'
  BY TypedNext
<1>3. Typed => TypeOK
  BY DEF Typed
<1> QED BY <1>1, <1>2, <1>3, PTL DEF Spec

-----------------------------------------------------------------------------
(* The clusters of a file.                                                  *)

\* ch is the chain that table t has from c.
Owns(t, c, ch) == Len(ch) \in Nat \ {0} /\ IsChain(t, c, ch, Len(ch))

Linked(t, c) == \E ch : Owns(t, c, ch)

\* Cluster x is on the chain from c.
On(t, c, x) == \E ch : Owns(t, c, ch) /\ \E k \in 1 .. Len(ch) : ch[k] = x

\* The tables agree on the clusters of that chain.
Same(t, u, c) == \A x \in Clusters : On(t, c, x) => u[x] = t[x]

\* The chain of the entry e is as long as the file needs.
Exact(t, e) == \A ch : Owns(t, e.first, ch) => Len(ch) = Needed(e.size)

LEMMA FileSize == ASSUME NEW e \in Files PROVE e.size \in Nat /\ Needed(e.size) \in Nat \ {0}
<1>0. e.size \in Sizes \cup {0}
  BY DEF Files
<1>1. e.size \in Nat
  <2>1. CASE e.size \in Sizes
    BY <2>1, SizesNat, Zenon
  <2>2. CASE e.size = 0
    BY <2>2
  <2> QED BY <1>0, <2>1, <2>2
<1> QED BY <1>1, NeededType

LEMMA OwnsFrom ==
    ASSUME NEW t, NEW c, NEW ch, NEW n \in Nat \ {0}, IsChain(t, c, ch, n)
    PROVE  Owns(t, c, ch) /\ Len(ch) = n
<1>1. ch \in [1 .. n -> Clusters]
  BY DEF IsChain
<1>2. Len(ch) = n
  BY <1>1, FunctionIsSeq
<1> QED BY <1>2 DEF Owns

\* There is one such chain.
LEMMA OwnsOne ==
    ASSUME NEW t, NEW c, NEW ch, NEW dh, Owns(t, c, ch), Owns(t, c, dh)
    PROVE  ch = dh
<1>1. Chain(t, c) = ch
  BY ChainIs DEF Owns
<1>2. Chain(t, c) = dh
  BY ChainIs DEF Owns
<1> QED BY <1>1, <1>2

LEMMA OnChain ==
    ASSUME NEW t, NEW c, NEW ch, Owns(t, c, ch)
    PROVE  /\ Linked(t, c)
           /\ \A x : On(t, c, x) <=> \E k \in 1 .. Len(ch) : ch[k] = x
<1>1. Linked(t, c)
  BY DEF Linked
<1>2. ASSUME NEW x, On(t, c, x) PROVE \E k \in 1 .. Len(ch) : ch[k] = x
  <2>1. PICK dh : Owns(t, c, dh) /\ \E k \in 1 .. Len(dh) : dh[k] = x
    BY <1>2 DEF On
  <2>2. dh = ch
    BY <2>1, OwnsOne
  <2> QED BY <2>1, <2>2
<1>3. ASSUME NEW x, \E k \in 1 .. Len(ch) : ch[k] = x PROVE On(t, c, x)
  BY <1>3 DEF On
<1> QED BY <1>1, <1>2, <1>3

\* The clusters of a file are not free.
LEMMA OnUsed ==
    ASSUME NEW t, NEW c, NEW x, On(t, c, x)
    PROVE  x \in Clusters /\ t[x] # FREE_ENTRY /\ Linked(t, c)
<1>1. PICK ch : Owns(t, c, ch) /\ \E k \in 1 .. Len(ch) : ch[k] = x
  BY DEF On
<1>0. PICK n \in Nat \ {0} : n = Len(ch)
  BY <1>1 DEF Owns
<1>2. PICK k \in 1 .. n : ch[k] = x
  BY <1>0, <1>1
<1>3. /\ ch \in [1 .. n -> Clusters]
      /\ \A l \in 1 .. n - 1 : t[ch[l]] = ch[l + 1] /\ ch[l] < ch[l + 1]
      /\ t[ch[n]] = END_OF_FILE
  BY <1>0, <1>1 DEF Owns, IsChain
<1>4. x \in Clusters
  BY <1>2, <1>3
<1>5. CASE k = n
  BY <1>1, <1>2, <1>3, <1>4, <1>5 DEF END_OF_FILE, FREE_ENTRY, Linked
<1>6. CASE k # n
  <2>1. k \in 1 .. n - 1 /\ k + 1 \in 1 .. n
    BY <1>6
  <2>2. t[x] = ch[k + 1] /\ x < ch[k + 1]
    BY <1>2, <1>3, <2>1
  <2>3. x \in Nat /\ ch[k + 1] \in Nat
    BY <1>3, <1>4, <2>1, Constants
  <2>4. t[x] # 0
    BY <2>2, <2>3
  <2> QED BY <1>1, <1>4, <2>4 DEF FREE_ENTRY, Linked
<1> QED BY <1>5, <1>6

LEMMA FrameOwns ==
    ASSUME NEW t, NEW u, NEW c, Same(t, u, c), NEW ch, Owns(t, c, ch)
    PROVE  Owns(u, c, ch)
<1>0. PICK n \in Nat \ {0} : n = Len(ch)
  BY DEF Owns
<1>1. /\ ch \in [1 .. n -> Clusters] /\ ch[1] = c
      /\ \A l \in 1 .. n - 1 : t[ch[l]] = ch[l + 1] /\ ch[l] < ch[l + 1]
      /\ t[ch[n]] = END_OF_FILE
  BY <1>0 DEF Owns, IsChain
<1>2. ASSUME NEW k \in 1 .. n PROVE u[ch[k]] = t[ch[k]]
  <2>1. On(t, c, ch[k]) /\ ch[k] \in Clusters
    BY <1>0, <1>1, OnChain
  <2> QED BY <2>1 DEF Same
<1>3. \A l \in 1 .. n - 1 : u[ch[l]] = ch[l + 1] /\ ch[l] < ch[l + 1]
  BY <1>1, <1>2
<1>4. u[ch[n]] = END_OF_FILE
  BY <1>1, <1>2
<1>5. IsChain(u, c, ch, n)
  BY <1>1, <1>3, <1>4 DEF IsChain
<1> QED BY <1>0, <1>5 DEF Owns

\* A table that agrees on the clusters of a file has the same chain for it.
LEMMA Frame ==
    ASSUME NEW t, NEW u, NEW c, Same(t, u, c), Linked(t, c)
    PROVE  /\ Linked(u, c) /\ Same(u, t, c)
           /\ \A ch : Owns(u, c, ch) <=> Owns(t, c, ch)
           /\ \A x : On(u, c, x) <=> On(t, c, x)
<1>1. PICK ch : Owns(t, c, ch)
  BY DEF Linked
<1>2. Owns(u, c, ch)
  BY <1>1, FrameOwns
<1>3. \A dh : Owns(u, c, dh) <=> Owns(t, c, dh)
  BY <1>1, <1>2, OwnsOne
<1>4. \A x : On(u, c, x) <=> On(t, c, x)
  BY <1>1, <1>2, OnChain
<1>5. Linked(u, c)
  BY <1>2 DEF Linked
<1>6. Same(u, t, c)
  BY <1>4 DEF Same
<1> QED BY <1>3, <1>4, <1>5, <1>6

LEMMA FrameExact ==
    ASSUME NEW t, NEW u, NEW e, Same(t, u, e.first), Linked(t, e.first), Exact(t, e)
    PROVE  Exact(u, e)
<1>1. \A ch : Owns(u, e.first, ch) <=> Owns(t, e.first, ch)
  BY Frame
<1> QED BY <1>1 DEF Exact

-----------------------------------------------------------------------------
(* Directories and tables.                                                  *)

\* The first cluster of a file that was given clusters.
Clustered(c) == c \in Clusters

AllLinked(t, dir) == \A i \in Slots : Clustered(dir[i].first) => Linked(t, dir[i].first)

\* No cluster belongs to two entries, be they in one directory or one in each.
Separate(t, dir, dir2) ==
    \A i, j \in Slots :
      Clustered(dir[i].first) /\ Clustered(dir2[j].first) /\ ~(i = j /\ dir[i].first = dir2[j].first)
        => \A x : ~(On(t, dir[i].first, x) /\ On(t, dir2[j].first, x))

Agree(t, u, dir) == \A i \in Slots : Clustered(dir[i].first) => Same(t, u, dir[i].first)

Dirs == [Slots -> Files]

LEMMA FrameDir ==
    ASSUME NEW t, NEW u, NEW dir \in Dirs, AllLinked(t, dir), Agree(t, u, dir)
    PROVE  /\ AllLinked(u, dir) /\ Agree(u, t, dir)
           /\ \A i \in Slots : Clustered(dir[i].first) =>
                \A x : On(u, dir[i].first, x) <=> On(t, dir[i].first, x)
<1>1. ASSUME NEW i \in Slots, Clustered(dir[i].first)
      PROVE  /\ Linked(u, dir[i].first) /\ Same(u, t, dir[i].first)
             /\ \A x : On(u, dir[i].first, x) <=> On(t, dir[i].first, x)
  <2>2. Linked(t, dir[i].first) /\ Same(t, u, dir[i].first)
    BY <1>1 DEF AllLinked, Agree
  <2> QED BY <2>2, Frame
<1> QED BY <1>1 DEF AllLinked, Agree

LEMMA FrameSeparate ==
    ASSUME NEW t, NEW u, NEW dir \in Dirs, NEW dir2 \in Dirs,
           AllLinked(t, dir), Agree(t, u, dir), AllLinked(t, dir2), Agree(t, u, dir2),
           Separate(t, dir, dir2)
    PROVE  Separate(u, dir, dir2)
<1>1. \A i \in Slots : Clustered(dir[i].first) => \A x : On(u, dir[i].first, x) <=> On(t, dir[i].first, x)
  BY FrameDir
<1>2. \A i \in Slots : Clustered(dir2[i].first) => \A x : On(u, dir2[i].first, x) <=> On(t, dir2[i].first, x)
  BY FrameDir
<1> QED BY <1>1, <1>2 DEF Separate

LEMMA EmptyDir ==
    ASSUME NEW t, NEW u, NEW dir, \A i \in Slots : dir[i].first = UNSET, NEW dir2
    PROVE  /\ AllLinked(t, dir) /\ Agree(t, u, dir)
           /\ Separate(t, dir, dir2) /\ Separate(t, dir2, dir)
  BY Constants DEF AllLinked, Agree, Separate, Clustered

LEMMA AgreeSelf == ASSUME NEW t, NEW dir PROVE Agree(t, t, dir)
  BY DEF Agree, Same

\* Allocation leaves the files alone.
LEMMA AllocateAgrees ==
    ASSUME fat12_table \in Tables, NEW size \in Nat, NEW dir \in Dirs
    PROVE  Agree(fat12_table, fat12_allocate(size), dir)
<1> SUFFICES ASSUME NEW i \in Slots, NEW x \in Clusters, On(fat12_table, dir[i].first, x)
             PROVE  fat12_allocate(size)[x] = fat12_table[x]
  BY DEF Agree, Same
<1>2. fat12_table[x] # FREE_ENTRY
  BY OnUsed
<1> QED BY <1>2, AllocateKeeps

\* What the consistency of the disk follows from.
LEMMA ConsistentFrom ==
    ASSUME diskDir \in Dirs, AllLinked(diskFat, diskDir), Separate(diskFat, diskDir, diskDir),
           \A i \in Slots : i \notin torn /\ Clustered(diskDir[i].first) =>
              Exact(diskFat, diskDir[i])
    PROVE  DiskConsistent
<1>1. \A i \in Slots : HasClusters(i) <=> Clustered(diskDir[i].first)
  BY DEF HasClusters, Clustered
<1>2. ASSUME NEW i \in Slots, HasClusters(i)
      PROVE  /\ diskFat[diskDir[i].first] # FREE_ENTRY
             /\ Ends(diskFat, diskDir[i].first)
             /\ i \notin torn => Cardinality(ClustersOf(i)) = Needed(diskDir[i].size)
             /\ \A x \in ClustersOf(i) : On(diskFat, diskDir[i].first, x)
  <2>1. PICK e \in Files : e = diskDir[i]
    BY DEF Dirs
  <2>2. PICK ch : Owns(diskFat, e.first, ch)
    BY <1>1, <1>2, <2>1 DEF AllLinked, Linked
  <2>3. PICK n \in Nat \ {0} : n = Len(ch)
    BY <2>2 DEF Owns
  <2>4. IsChain(diskFat, e.first, ch, n)
    BY <2>2, <2>3 DEF Owns
  <2>5. Ends(diskFat, e.first) /\ Chain(diskFat, e.first) = ch
    BY <2>4, ChainIs
  <2>6. ch \in [1 .. n -> Clusters] /\ ch[1] = e.first
    BY <2>4 DEF IsChain
  <2>8. ClustersOf(i) = {ch[k] : k \in 1 .. n}
    BY <2>1, <2>3, <2>5 DEF ClustersOf
  <2>9. \A k, l \in 1 .. n : k # l => ch[k] # ch[l]
    BY <2>4, ChainAscends
  <2>10. Cardinality({ch[k] : k \in 1 .. n}) = n
    <3>1. PICK T : T = {ch[k] : k \in 1 .. n}
      OBVIOUS
    <3>2. ch \in Bijection(1 .. n, T)
      <4>1. ch \in [1 .. n -> T] /\ \A y \in T : \E k \in 1 .. n : ch[k] = y
        BY <2>6, <3>1
      <4> QED BY <2>9, <4>1 DEF Bijection, Injection, Surjection, IsInjective
    <3>3. ExistsBijection(1 .. n, T)
      BY <3>2 DEF ExistsBijection
    <3> QED BY <3>1, <3>3, FS_CountingElements
  <2>o. \A k \in 1 .. n : On(diskFat, e.first, ch[k])
    BY <2>2, <2>3 DEF On
  <2>11. \A x \in ClustersOf(i) : On(diskFat, e.first, x)
    BY <2>8, <2>o
  <2>12. On(diskFat, e.first, ch[1])
    BY <2>o
  <2>13. diskFat[e.first] # FREE_ENTRY
    BY <2>6, <2>12, OnUsed
  <2>14. i \notin torn => n = Needed(e.size)
    BY <1>1, <1>2, <2>1, <2>2, <2>3 DEF Exact
  <2> QED BY <2>1, <2>5, <2>8, <2>10, <2>11, <2>13, <2>14
<1>3. ASSUME NEW i \in Slots, NEW j \in Slots, HasClusters(i), HasClusters(j), i # j
      PROVE  ClustersOf(i) \cap ClustersOf(j) = {}
  <2>1. \A x : ~(On(diskFat, diskDir[i].first, x) /\ On(diskFat, diskDir[j].first, x))
    BY <1>1, <1>3 DEF Separate
  <2> QED BY <1>2, <1>3, <2>1
<1> QED BY <1>2, <1>3 DEF DiskConsistent

-----------------------------------------------------------------------------
(* The invariant behind DiskConsistent.                                     *)

Deleting == todo # <<>> /\ saving = NONE

\* The directory in memory is sound.
MemorySound == AllLinked(fat12_table, root_dir) /\ Separate(fat12_table, root_dir, root_dir)

\* The files on the disk are known to the table in memory.
DiskKnown ==
    /\ AllLinked(fat12_table, diskDir) /\ Separate(fat12_table, diskDir, diskDir)
    /\ Separate(fat12_table, root_dir, diskDir)
    /\ Agree(fat12_table, diskFat, diskDir)

\* While a file is deleted.
DiskSound ==
    /\ AllLinked(diskFat, diskDir) /\ Separate(diskFat, diskDir, diskDir)
    /\ Agree(fat12_table, diskFat, root_dir)

NothingNew == \A i \in Slots : root_dir[i].first \in {diskDir[i].first, UNSET}

\* What is not to be written any more has been written.
Progress ==
    /\ \A c \in Clusters : \/ Pending(todo, "fat", c \div EntriesPerSector)
                           \/ diskFat[c] = fat12_table[c]
    /\ \A i \in Slots : /\ \/ Pending(todo, "dir", DirSector(i, NameAt))
                           \/ diskDir[i].name = root_dir[i].name
                        /\ \/ Pending(todo, "dir", DirSector(i, FirstAt))
                           \/ diskDir[i].first = root_dir[i].first
                        /\ \/ Pending(todo, "dir", DirSector(i, SizeAt))
                           \/ diskDir[i].size = root_dir[i].size

Ordered ==
    IF saving # NONE THEN Precedes(todo, "fat", "dir") ELSE Precedes(todo, "dir", "fat")

Sound ==
    /\ MemorySound
    /\ ~Deleting => DiskKnown
    /\ Deleting /\ ~behind => DiskSound
    /\ ~behind /\ saving = NONE => NothingNew
    /\ todo # <<>> => Progress
    /\ Ordered
    /\ hung => todo = <<>>

\* Every entry in memory has a chain of its length, but one that was read from
\* the disk torn.
MemorySized ==
    \A i \in Slots : Clustered(root_dir[i].first) /\ ~(i \in torn /\ root_dir[i] = diskDir[i])
       => Exact(fat12_table, root_dir[i])

\* Every entry on the disk that is not torn has a chain of its length in table t.
DiskSized(t) ==
    \A i \in Slots : i \notin torn /\ Clustered(diskDir[i].first) => Exact(t, diskDir[i])

Sized ==
    /\ MemorySized
    /\ ~Deleting => DiskSized(fat12_table)
    /\ Deleting /\ ~behind => DiskSized(diskFat)

Consistent == ~stale => Sound /\ Sized

\* A whole pass stores every field.
LEMMA CoversProgress ==
    ASSUME NEW s, Covers(s)
    PROVE  /\ \A c \in Clusters : Pending(s, "fat", c \div EntriesPerSector)
           /\ \A i \in Slots : /\ Pending(s, "dir", DirSector(i, NameAt))
                               /\ Pending(s, "dir", DirSector(i, FirstAt))
                               /\ Pending(s, "dir", DirSector(i, SizeAt))
<1>1. NameAt \in Fields /\ FirstAt \in Fields /\ SizeAt \in Fields
  BY DEF Fields
<1> QED BY <1>1 DEF Covers

\* Directories with the same fields are the same.
LEMMA DirsEqual ==
    ASSUME NEW r \in Dirs, NEW d \in Dirs,
           \A i \in Slots : d[i].name = r[i].name /\ d[i].first = r[i].first /\ d[i].size = r[i].size
    PROVE  d = r
<1>1. ASSUME NEW i \in Slots PROVE d[i] = r[i]
  <2>1. d[i] \in Files /\ r[i] \in Files
    BY DEF Dirs
  <2> QED BY <2>1, FileFields
<1> QED BY <1>1 DEF Dirs

LEMMA TypedDirs ==
    ASSUME Typed
    PROVE  /\ root_dir \in Dirs /\ diskDir \in Dirs /\ fat12_table \in Tables
           /\ diskFat \in Tables /\ IsSeq(todo)
  BY DEF Typed, TypeOK, Dirs

\* The disk is sound whenever nothing is deleted.
LEMMA KnownSound ==
    ASSUME Typed, DiskKnown
    PROVE  AllLinked(diskFat, diskDir) /\ Separate(diskFat, diskDir, diskDir)
<1>1. diskDir \in Dirs
  BY TypedDirs
<1>2. /\ AllLinked(fat12_table, diskDir) /\ Separate(fat12_table, diskDir, diskDir)
      /\ Agree(fat12_table, diskFat, diskDir)
  BY DEF DiskKnown
<1>3. AllLinked(diskFat, diskDir)
  BY <1>1, <1>2, FrameDir
<1>4. Separate(diskFat, diskDir, diskDir)
  BY <1>1, <1>2, FrameSeparate
<1> QED BY <1>3, <1>4

LEMMA KnownSized ==
    ASSUME Typed, DiskKnown, DiskSized(fat12_table)
    PROVE  DiskSized(diskFat)
<1> SUFFICES ASSUME NEW i \in Slots, i \notin torn, Clustered(diskDir[i].first)
             PROVE  Exact(diskFat, diskDir[i])
  BY DEF DiskSized
<1>1. Exact(fat12_table, diskDir[i])
  BY DEF DiskSized
<1>2. Linked(fat12_table, diskDir[i].first) /\ Same(fat12_table, diskFat, diskDir[i].first)
  BY DEF DiskKnown, AllLinked, Agree
<1> QED BY <1>1, <1>2, FrameExact

\* The invariant implies the property.
LEMMA SoundConsistent == ASSUME Typed, Consistent PROVE DiskConsistent
<1>1. CASE stale \/ behind
  BY <1>1 DEF DiskConsistent
<1>2. CASE ~stale /\ ~behind
  <2>1. diskDir \in Dirs
    BY TypedDirs
  <2>2. AllLinked(diskFat, diskDir) /\ Separate(diskFat, diskDir, diskDir) /\ DiskSized(diskFat)
    <3>1. CASE Deleting
      BY <1>2, <3>1 DEF Consistent, Sound, DiskSound, Sized
    <3>2. CASE ~Deleting
      BY <1>2, <3>2, KnownSound, KnownSized DEF Consistent, Sound, Sized
    <3> QED BY <3>1, <3>2
  <2> QED BY <2>1, <2>2, ConsistentFrom DEF DiskSized
<1> QED BY <1>1, <1>2

LEMMA NoWritesLeft ==
    /\ \A x, y : ~Pending(<<>>, x, y)
    /\ \A a, b : Precedes(<<>>, a, b)
<1>1. Len(<<>>) = 0
  BY NothingIsSeq
<1> QED BY <1>1 DEF Pending, Precedes

LEMMA ConsistentInit == Init => Consistent
<1> SUFFICES ASSUME Init PROVE Sound /\ Sized
  BY DEF Consistent
<1>1. todo = <<>> /\ saving = NONE /\ hung = FALSE /\ fat12_table = diskFat
  BY DEF Init
<1>2. \A i \in Slots : root_dir[i].first = UNSET /\ diskDir[i].first = UNSET
  BY NoFileType DEF Init
<1>3. MemorySound
  BY <1>2, EmptyDir DEF MemorySound
<1>4. DiskKnown
  BY <1>2, EmptyDir DEF DiskKnown
<1>5. NothingNew
  BY <1>2 DEF NothingNew
<1>6. Ordered
  BY <1>1, NoWritesLeft DEF Ordered
<1>7. MemorySized /\ \A t : DiskSized(t)
  BY <1>2, Constants DEF MemorySized, DiskSized, Clustered
<1> QED BY <1>1, <1>3, <1>4, <1>5, <1>6, <1>7 DEF Sound, Sized, Deleting

-----------------------------------------------------------------------------
(* A sector is written.                                                     *)

\* What a round of disk_streamer_write does to a directory entry.
LEMMA EntryWritten ==
    ASSUME Typed, WriteSector, NEW i \in Slots
    PROVE  /\ LET w == Head(todo) IN
              /\ diskDir'[i].name = IF w.area = "dir" /\ DirSector(i, NameAt) = w.at
                                    THEN root_dir[i].name ELSE diskDir[i].name
              /\ diskDir'[i].first = IF w.area = "dir" /\ DirSector(i, FirstAt) = w.at
                                     THEN root_dir[i].first ELSE diskDir[i].first
              /\ diskDir'[i].size = IF w.area = "dir" /\ DirSector(i, SizeAt) = w.at
                                    THEN root_dir[i].size ELSE diskDir[i].size
           /\ root_dir[i] = diskDir[i] => diskDir'[i] = diskDir[i]
           /\ diskDir'[i] = diskDir[i] => (i \in torn' <=> i \in torn)
           /\ diskDir'[i] # diskDir[i] => (i \in torn' <=> diskDir'[i] # root_dir[i])
<1>1. PICK w : w = Head(todo)
  OBVIOUS
<1>2. root_dir[i] \in Files /\ diskDir[i] \in Files
  BY TypedDirs DEF Dirs
<1>3. /\ diskDir'[i].name = IF w.area = "dir" /\ DirSector(i, NameAt) = w.at
                            THEN root_dir[i].name ELSE diskDir[i].name
      /\ diskDir'[i].first = IF w.area = "dir" /\ DirSector(i, FirstAt) = w.at
                             THEN root_dir[i].first ELSE diskDir[i].first
      /\ diskDir'[i].size = IF w.area = "dir" /\ DirSector(i, SizeAt) = w.at
                            THEN root_dir[i].size ELSE diskDir[i].size
      /\ diskDir'[i] \in Files
  <2>1. CASE w.area # "dir"
    <3>1. diskDir' = diskDir
      BY <1>1, <2>1 DEF WriteSector
    <3> QED BY <1>2, <2>1, <3>1
  <2>2. CASE w.area = "dir"
    <3>1. diskDir' = [j \in Slots |-> Stored(j, w.at)]
      BY <1>1, <2>2 DEF WriteSector
    <3>2. diskDir'[i] = Stored(i, w.at)
      BY <3>1
    <3>3. /\ Stored(i, w.at) \in Files
          /\ Stored(i, w.at).name = IF DirSector(i, NameAt) = w.at THEN root_dir[i].name
                                                                   ELSE diskDir[i].name
          /\ Stored(i, w.at).first = IF DirSector(i, FirstAt) = w.at THEN root_dir[i].first
                                                                     ELSE diskDir[i].first
          /\ Stored(i, w.at).size = IF DirSector(i, SizeAt) = w.at THEN root_dir[i].size
                                                                   ELSE diskDir[i].size
      BY <1>2, StoredEntry
    <3> QED BY <2>2, <3>2, <3>3
  <2> QED BY <2>1, <2>2
<1>4. ASSUME root_dir[i] = diskDir[i] PROVE diskDir'[i] = diskDir[i]
  <2>1. PICK e \in Files : e = diskDir'[i]
    BY <1>3
  <2>2. PICK f \in Files : f = diskDir[i]
    BY <1>2
  <2>3. e.name = f.name /\ e.first = f.first /\ e.size = f.size
    BY <1>3, <1>4, <2>1, <2>2
  <2>4. e = f
    BY <2>3, FileFields
  <2> QED BY <2>1, <2>2, <2>4
<1>5. torn' = {j \in Slots : IF diskDir'[j] = diskDir[j] THEN j \in torn
                             ELSE diskDir'[j] # root_dir[j]}
  BY DEF WriteSector
<1> QED BY <1>1, <1>3, <1>4, <1>5

\* What a round of disk_streamer_write leaves to be written, and what it changes.
LEMMA SectorWritten ==
    ASSUME Typed, WriteSector, Progress
    PROVE  /\ Progress'
           /\ \A c \in Clusters : diskFat'[c] \in {diskFat[c], fat12_table[c]}
           /\ \A i \in Slots : diskDir'[i].first \in {diskDir[i].first, root_dir[i].first}
           /\ todo[1].area # "fat" => diskFat' = diskFat
           /\ todo[1].area # "dir" => diskDir' = diskDir
           /\ Len(todo) \in Nat \ {0} /\ IsSeq(todo') /\ Len(todo') = Len(todo) - 1
           /\ \A k \in 1 .. Len(todo) - 1 : todo'[k] = todo[k + 1]
           /\ Len(todo) = 1 <=> todo' = <<>>
           /\ fat12_table' = fat12_table /\ root_dir' = root_dir /\ stale' = stale
           /\ hung' = hung
<1>1. todo # <<>> /\ IsSeq(todo) /\ todo' = Tail(todo)
  BY DEF Typed, WriteSector
<1>2. /\ IsSeq(todo') /\ Len(todo') = Len(todo) - 1 /\ Len(todo) \in Nat \ {0}
      /\ \A k \in 1 .. Len(todo) - 1 : todo'[k] = todo[k + 1]
      /\ Len(todo) = 1 <=> todo' = <<>>
      /\ Head(todo) = todo[1]
  BY <1>1, TailOf
<1>3. PICK w : w = todo[1] /\ w = Head(todo)
  BY <1>2
<1>4. fat12_table' = fat12_table /\ root_dir' = root_dir /\ stale' = stale /\ hung' = hung
  BY DEF WriteSector, memVars
<1>5. \A c \in Clusters : diskFat'[c] = IF w.area = "fat" /\ c \div EntriesPerSector = w.at
                                        THEN fat12_table[c] ELSE diskFat[c]
  <2>1. CASE w.area # "fat"
    BY <1>3, <2>1 DEF WriteSector
  <2>2. CASE w.area = "fat"
    <3>1. diskFat' = [c \in Clusters |-> IF c \div EntriesPerSector = w.at
                                         THEN fat12_table[c] ELSE diskFat[c]]
      BY <1>3, <2>2 DEF WriteSector
    <3> QED BY <2>2, <3>1
  <2> QED BY <2>1, <2>2
<1>6. ASSUME NEW i \in Slots
      PROVE  /\ diskDir'[i].name = IF w.area = "dir" /\ DirSector(i, NameAt) = w.at
                                   THEN root_dir[i].name ELSE diskDir[i].name
             /\ diskDir'[i].first = IF w.area = "dir" /\ DirSector(i, FirstAt) = w.at
                                    THEN root_dir[i].first ELSE diskDir[i].first
             /\ diskDir'[i].size = IF w.area = "dir" /\ DirSector(i, SizeAt) = w.at
                                   THEN root_dir[i].size ELSE diskDir[i].size
  BY <1>3, EntryWritten
<1>7. ASSUME NEW x, NEW y, Pending(todo, x, y)
      PROVE  Pending(todo', x, y) \/ (w.area = x /\ w.at = y)
  <2>1. PICK k \in 1 .. Len(todo) : todo[k].area = x /\ todo[k].at = y
    BY <1>7 DEF Pending
  <2>2. CASE k = 1
    BY <1>3, <2>1, <2>2
  <2>3. CASE k # 1
    <3>1. PICK l \in 1 .. Len(todo) - 1 : k = l + 1
      <4>1. k - 1 \in 1 .. Len(todo) - 1 /\ k = (k - 1) + 1
        BY <1>2, <2>3
      <4> QED BY <4>1
    <3>2. l \in 1 .. Len(todo') /\ todo'[l] = todo[k]
      BY <1>2, <3>1
    <3> QED BY <2>1, <3>2 DEF Pending
  <2> QED BY <2>2, <2>3
<1>8. ASSUME NEW c \in Clusters
      PROVE  Pending(todo', "fat", c \div EntriesPerSector) \/ diskFat'[c] = fat12_table'[c]
  <2>1. Pending(todo, "fat", c \div EntriesPerSector) \/ diskFat[c] = fat12_table[c]
    BY DEF Progress
  <2> QED BY <1>4, <1>5, <1>7, <2>1
<1>9. ASSUME NEW i \in Slots
      PROVE  /\ \/ Pending(todo', "dir", DirSector(i, NameAt))
                \/ diskDir'[i].name = root_dir'[i].name
             /\ \/ Pending(todo', "dir", DirSector(i, FirstAt))
                \/ diskDir'[i].first = root_dir'[i].first
             /\ \/ Pending(todo', "dir", DirSector(i, SizeAt))
                \/ diskDir'[i].size = root_dir'[i].size
  <2>1. /\ Pending(todo, "dir", DirSector(i, NameAt)) \/ diskDir[i].name = root_dir[i].name
        /\ Pending(todo, "dir", DirSector(i, FirstAt)) \/ diskDir[i].first = root_dir[i].first
        /\ Pending(todo, "dir", DirSector(i, SizeAt)) \/ diskDir[i].size = root_dir[i].size
    BY DEF Progress
  <2> QED BY <1>4, <1>6, <1>7, <2>1
<1>10. Progress'
  BY <1>8, <1>9 DEF Progress, DirSector
<1>11. w.area # "fat" => diskFat' = diskFat
  BY <1>3 DEF WriteSector
<1>12. w.area # "dir" => diskDir' = diskDir
  BY <1>3 DEF WriteSector
<1>13. \A c \in Clusters : diskFat'[c] \in {diskFat[c], fat12_table[c]}
  BY <1>5
<1>14. \A i \in Slots : diskDir'[i].first \in {diskDir[i].first, root_dir[i].first}
  BY <1>6
<1> QED BY <1>2, <1>3, <1>4, <1>10, <1>11, <1>12, <1>13, <1>14

LEMMA TailOrdered ==
    ASSUME NEW s, NEW t, NEW a, NEW b, Len(s) \in Nat, Len(t) = Len(s) - 1,
           \A k \in 1 .. Len(s) - 1 : t[k] = s[k + 1], Precedes(s, a, b)
    PROVE  Precedes(t, a, b)
<1> SUFFICES ASSUME NEW j \in 1 .. Len(t), NEW k \in 1 .. Len(t), j < k, t[j].area = b
             PROVE  t[k].area # a
  BY DEF Precedes
<1>1. j + 1 \in 1 .. Len(s) /\ k + 1 \in 1 .. Len(s) /\ j + 1 < k + 1
  OBVIOUS
<1>2. t[j] = s[j + 1] /\ t[k] = s[k + 1]
  OBVIOUS
<1> QED BY <1>1, <1>2 DEF Precedes

\* Behind a write into area b no write into area a is left.
LEMMA NoneBehind ==
    ASSUME NEW s, NEW t, NEW a, NEW b, a # b, Len(s) \in Nat \ {0}, Len(t) = Len(s) - 1,
           \A k \in 1 .. Len(s) - 1 : t[k] = s[k + 1], Precedes(s, a, b), s[1].area = b
    PROVE  \A y : ~Pending(t, a, y)
<1> SUFFICES ASSUME NEW y, NEW k \in 1 .. Len(t), t[k].area = a PROVE FALSE
  BY DEF Pending
<1>1. k + 1 \in 1 .. Len(s) /\ 1 \in 1 .. Len(s) /\ 1 < k + 1
  OBVIOUS
<1>2. t[k] = s[k + 1]
  OBVIOUS
<1> QED BY <1>1, <1>2 DEF Precedes

\* A directory of which some sectors are already those of another one.
LEMMA Mixed ==
    ASSUME NEW t, NEW r, NEW d, NEW m,
           \A i \in Slots : m[i].first \in {d[i].first, r[i].first},
           AllLinked(t, r), AllLinked(t, d),
           Separate(t, r, r), Separate(t, d, d), Separate(t, r, d)
    PROVE  AllLinked(t, m) /\ Separate(t, m, m) /\ Separate(t, r, m)
<1>1. AllLinked(t, m)
  BY DEF AllLinked
<1>2. ASSUME NEW i \in Slots, NEW j \in Slots, NEW x, Clustered(r[i].first),
             Clustered(m[j].first), ~(i = j /\ r[i].first = m[j].first),
             On(t, r[i].first, x), On(t, m[j].first, x)
      PROVE  FALSE
  <2>1. CASE m[j].first = d[j].first
    BY <1>2, <2>1 DEF Separate
  <2>2. CASE m[j].first = r[j].first
    BY <1>2, <2>2 DEF Separate
  <2> QED BY <2>1, <2>2
<1>3. ASSUME NEW i \in Slots, NEW j \in Slots, NEW x, Clustered(m[i].first),
             Clustered(m[j].first), i # j, On(t, m[i].first, x), On(t, m[j].first, x)
      PROVE  FALSE
  <2>1. CASE m[i].first = d[i].first /\ m[j].first = d[j].first
    BY <1>3, <2>1 DEF Separate
  <2>2. CASE m[i].first = r[i].first /\ m[j].first = r[j].first
    BY <1>3, <2>2 DEF Separate
  <2>3. CASE m[i].first = r[i].first /\ m[j].first = d[j].first
    BY <1>3, <2>3 DEF Separate
  <2>4. CASE m[i].first = d[i].first /\ m[j].first = r[j].first
    BY <1>3, <2>4 DEF Separate
  <2> QED BY <2>1, <2>2, <2>3, <2>4
<1>4. Separate(t, r, m)
  BY <1>2 DEF Separate
<1>5. Separate(t, m, m)
  BY <1>3 DEF Separate
<1> QED BY <1>1, <1>4, <1>5

\* A directory from which files were removed.
LEMMA Fewer ==
    ASSUME NEW t, NEW u, NEW d, NEW m, \A i \in Slots : m[i].first \in {d[i].first, UNSET}
    PROVE  /\ AllLinked(t, d) => AllLinked(t, m)
           /\ Separate(t, d, d) => Separate(t, m, m)
           /\ Agree(t, u, d) => Agree(t, u, m)
<1>1. \A i \in Slots : Clustered(m[i].first) => m[i].first = d[i].first
  BY Constants DEF Clustered
<1>2. AllLinked(t, d) => AllLinked(t, m)
  BY <1>1 DEF AllLinked
<1>3. Separate(t, d, d) => Separate(t, m, m)
  BY <1>1 DEF Separate
<1>4. Agree(t, u, d) => Agree(t, u, m)
  BY <1>1 DEF Agree
<1> QED BY <1>2, <1>3, <1>4

\* A table of which some sectors are already those of the table it agrees with.
LEMMA AgreeMixed ==
    ASSUME NEW t, NEW u, NEW v, NEW dir, \A c \in Clusters : v[c] \in {u[c], t[c]},
           Agree(t, u, dir)
    PROVE  Agree(t, v, dir)
  BY DEF Agree, Same

LEMMA AgreeEqual ==
    ASSUME NEW t, NEW u, NEW dir, \A c \in Clusters : u[c] = t[c]
    PROVE  Agree(t, u, dir)
  BY DEF Agree, Same

LEMMA SoundWrite ==
    ASSUME Typed, Typed', Sound, WriteSector
    PROVE  Sound'
<1>0. todo # <<>> /\ Progress /\ ~hung
  BY DEF WriteSector, Sound, Typed, TypeOK
<1>1. /\ Progress'
      /\ \A c \in Clusters : diskFat'[c] \in {diskFat[c], fat12_table[c]}
      /\ \A i \in Slots : diskDir'[i].first \in {diskDir[i].first, root_dir[i].first}
      /\ todo[1].area # "fat" => diskFat' = diskFat
      /\ todo[1].area # "dir" => diskDir' = diskDir
      /\ Len(todo) \in Nat \ {0} /\ IsSeq(todo') /\ Len(todo') = Len(todo) - 1
      /\ \A k \in 1 .. Len(todo) - 1 : todo'[k] = todo[k + 1]
      /\ Len(todo) = 1 <=> todo' = <<>>
      /\ fat12_table' = fat12_table /\ root_dir' = root_dir /\ stale' = stale
      /\ hung' = hung
  BY <1>0, SectorWritten
<1>d. root_dir \in Dirs /\ diskDir \in Dirs /\ diskDir' \in Dirs /\ diskFat' \in Tables
        /\ fat12_table \in Tables
  BY TypedDirs DEF Typed, TypeOK, Dirs
<1>m. AllLinked(fat12_table, root_dir) /\ Separate(fat12_table, root_dir, root_dir)
  BY DEF Sound, MemorySound
<1>2. MemorySound'
  BY <1>1, <1>m DEF MemorySound
<1>3. /\ todo' = <<>> => saving' = NONE
      /\ todo' # <<>> => saving' = saving /\ behind' = behind
  BY <1>1 DEF WriteSector, Typed, TypeOK
<1>4. Ordered'
  <2>1. CASE todo' = <<>>
    BY <2>1, NoWritesLeft DEF Ordered
  <2>2. CASE todo' # <<>>
    <3>1. saving' = saving
      BY <1>3, <2>2
    <3>2. CASE saving # NONE
      <4>1. Precedes(todo, "fat", "dir")
        BY <3>2 DEF Sound, Ordered
      <4>2. Precedes(todo', "fat", "dir")
        BY <1>1, <4>1, TailOrdered
      <4> QED BY <3>1, <3>2, <4>2 DEF Ordered
    <3>3. CASE saving = NONE
      <4>1. Precedes(todo, "dir", "fat")
        BY <3>3 DEF Sound, Ordered
      <4>2. Precedes(todo', "dir", "fat")
        BY <1>1, <4>1, TailOrdered
      <4> QED BY <3>1, <3>3, <4>2 DEF Ordered
    <3> QED BY <3>2, <3>3
  <2> QED BY <2>1, <2>2
<1>5. CASE todo' = <<>>
  <2>1. \A c \in Clusters : diskFat'[c] = fat12_table[c]
    BY <1>1, <1>5, NoWritesLeft DEF Progress
  <2>2. \A i \in Slots : /\ diskDir'[i].name = root_dir[i].name
                         /\ diskDir'[i].first = root_dir[i].first
                         /\ diskDir'[i].size = root_dir[i].size
    BY <1>1, <1>5, NoWritesLeft DEF Progress
  <2>3. diskDir' = root_dir
    BY <1>d, <2>2, DirsEqual
  <2>4. Agree(fat12_table, diskFat', root_dir)
    BY <2>1, AgreeEqual
  <2>5. DiskKnown'
    BY <1>1, <1>m, <2>3, <2>4 DEF DiskKnown
  <2>6. NothingNew'
    BY <1>1, <2>2 DEF NothingNew
  <2>7. ~Deleting'
    BY <1>5 DEF Deleting
  <2> QED BY <1>0, <1>1, <1>2, <1>4, <1>5, <2>5, <2>6, <2>7 DEF Sound
<1>6. CASE todo' # <<>> /\ saving # NONE
  <2>0. saving' # NONE
    BY <1>3, <1>6
  <2>1. ~Deleting /\ ~Deleting'
    BY <1>6, <2>0 DEF Deleting
  <2>2. /\ AllLinked(fat12_table, diskDir) /\ Separate(fat12_table, diskDir, diskDir)
        /\ Separate(fat12_table, root_dir, diskDir) /\ Agree(fat12_table, diskFat, diskDir)
    BY <2>1 DEF Sound, DiskKnown
  <2>3. DiskKnown'
    <3>1. CASE todo[1].area # "dir"
      <4>1. Agree(fat12_table, diskFat', diskDir)
        BY <1>1, <2>2, AgreeMixed
      <4> QED BY <1>1, <2>2, <3>1, <4>1 DEF DiskKnown
    <3>2. CASE todo[1].area = "dir"
      <4>1. Precedes(todo, "fat", "dir")
        BY <1>6 DEF Sound, Ordered
      <4>2. "fat" # "dir"
        OBVIOUS
      <4>3. \A y : ~Pending(todo', "fat", y)
        BY <1>1, <3>2, <4>1, <4>2, NoneBehind
      <4>4. \A c \in Clusters : diskFat'[c] = fat12_table[c]
        BY <1>1, <4>3 DEF Progress
      <4>5. Agree(fat12_table, diskFat', diskDir')
        BY <4>4, AgreeEqual
      <4>6. /\ AllLinked(fat12_table, diskDir') /\ Separate(fat12_table, diskDir', diskDir')
            /\ Separate(fat12_table, root_dir, diskDir')
        BY <1>1, <1>m, <2>2, Mixed
      <4> QED BY <1>1, <4>5, <4>6 DEF DiskKnown
    <3> QED BY <3>1, <3>2
  <2> QED BY <1>0, <1>1, <1>2, <1>4, <2>0, <2>1, <2>3 DEF Sound
<1>7. CASE todo' # <<>> /\ saving = NONE
  <2>0. saving' = NONE /\ behind' = behind
    BY <1>3, <1>7
  <2>1. Deleting /\ Deleting'
    BY <1>0, <1>7, <2>0 DEF Deleting
  <2>2. ASSUME ~behind
        PROVE  DiskSound' /\ NothingNew'
    <3>1. /\ AllLinked(diskFat, diskDir) /\ Separate(diskFat, diskDir, diskDir)
          /\ Agree(fat12_table, diskFat, root_dir)
      BY <2>1, <2>2 DEF Sound, DiskSound
    <3>2. NothingNew
      BY <1>7, <2>2 DEF Sound
    <3>3. NothingNew'
      BY <1>1, <3>2 DEF NothingNew
    <3>4. CASE todo[1].area # "fat"
      <4>1. diskFat' = diskFat
        BY <1>1, <3>4
      <4>2. \A i \in Slots : diskDir'[i].first \in {diskDir[i].first, UNSET}
        BY <1>1, <3>2 DEF NothingNew
      <4>3. AllLinked(diskFat, diskDir') /\ Separate(diskFat, diskDir', diskDir')
        BY <3>1, <4>2, Fewer
      <4>4. DiskSound'
        BY <1>1, <3>1, <4>1, <4>3 DEF DiskSound
      <4> QED BY <3>3, <4>4
    <3>5. CASE todo[1].area = "fat"
      <4>1. Precedes(todo, "dir", "fat")
        BY <1>7 DEF Sound, Ordered
      <4>2. "dir" # "fat"
        OBVIOUS
      <4>3. \A y : ~Pending(todo', "dir", y)
        BY <1>1, <3>5, <4>1, <4>2, NoneBehind
      <4>4. \A i \in Slots : /\ diskDir'[i].name = root_dir[i].name
                             /\ diskDir'[i].first = root_dir[i].first
                             /\ diskDir'[i].size = root_dir[i].size
        BY <1>1, <4>3 DEF Progress
      <4>5. diskDir' = root_dir
        BY <1>d, <4>4, DirsEqual
      <4>6. Agree(fat12_table, diskFat', root_dir)
        BY <1>1, <3>1, AgreeMixed
      <4>7. AllLinked(diskFat', root_dir)
        BY <1>d, <1>m, <4>6, FrameDir
      <4>8. Separate(diskFat', root_dir, root_dir)
        BY <1>d, <1>m, <4>6, FrameSeparate
      <4>9. DiskSound'
        BY <1>1, <4>5, <4>6, <4>7, <4>8 DEF DiskSound
      <4> QED BY <3>3, <4>9
    <3> QED BY <3>4, <3>5
  <2> QED BY <1>0, <1>1, <1>2, <1>4, <2>0, <2>1, <2>2 DEF Sound
<1> QED BY <1>5, <1>6, <1>7

\* Sizes: an entry stops being torn when its last part is stored.
LEMMA SizedWrite ==
    ASSUME Typed, Typed', Sound, Sound', Sized, WriteSector
    PROVE  Sized'
<1>0. todo # <<>> /\ Progress
  BY DEF WriteSector, Sound
<1>1. /\ todo[1].area # "fat" => diskFat' = diskFat
      /\ fat12_table' = fat12_table /\ root_dir' = root_dir
      /\ \A c \in Clusters : diskFat'[c] \in {diskFat[c], fat12_table[c]}
  BY <1>0, SectorWritten
<1>2. MemorySized
  BY DEF Sized
<1>3. ASSUME NEW i \in Slots, Clustered(root_dir[i].first),
             ~(i \in torn' /\ root_dir[i] = diskDir'[i])
      PROVE  Exact(fat12_table, root_dir[i])
  <2>1. ~(i \in torn /\ root_dir[i] = diskDir[i])
    BY <1>3, EntryWritten
  <2> QED BY <1>2, <1>3, <2>1 DEF MemorySized
<1>4. MemorySized'
  BY <1>1, <1>3 DEF MemorySized
\* What is not torn is as it was, or whole and as in memory.
<1>5. ASSUME NEW i \in Slots, i \notin torn', Clustered(diskDir'[i].first)
      PROVE  \/ diskDir'[i] = diskDir[i] /\ i \notin torn
             \/ diskDir'[i] = root_dir[i] /\ Exact(fat12_table, root_dir[i])
  <2>1. CASE diskDir'[i] = diskDir[i]
    BY <1>5, <2>1, EntryWritten
  <2>2. CASE diskDir'[i] # diskDir[i]
    <3>1. diskDir'[i] = root_dir[i]
      BY <1>5, <2>2, EntryWritten
    <3> QED BY <1>3, <1>5, <3>1
  <2> QED BY <2>1, <2>2
<1>6. /\ todo' = <<>> => saving' = NONE
      /\ todo' # <<>> => saving' = saving /\ behind' = behind
  <2>1. Len(todo) = 1 <=> todo' = <<>>
    BY <1>0, SectorWritten
  <2> QED BY <2>1 DEF WriteSector, Typed, TypeOK
<1>7. CASE todo' = <<>>
  <2>1. Progress'
    BY <1>0, SectorWritten
  <2>2. \A i \in Slots : /\ diskDir'[i].name = root_dir[i].name
                         /\ diskDir'[i].first = root_dir[i].first
                         /\ diskDir'[i].size = root_dir[i].size
    BY <1>1, <1>7, <2>1, NoWritesLeft DEF Progress
  <2>3. root_dir \in Dirs /\ diskDir' \in Dirs
    BY TypedDirs DEF Typed, TypeOK, Dirs
  <2>4. diskDir' = root_dir
    BY <2>2, <2>3, DirsEqual
  <2>5. ASSUME NEW i \in Slots, i \notin torn', Clustered(root_dir[i].first)
        PROVE  Exact(fat12_table, root_dir[i])
    BY <1>3, <2>5
  <2>6. DiskSized(fat12_table)'
    BY <1>1, <2>4, <2>5 DEF DiskSized
  <2>7. ~Deleting'
    BY <1>7 DEF Deleting
  <2> QED BY <1>4, <2>6, <2>7 DEF Sized
<1>8. CASE todo' # <<>> /\ saving # NONE
  <2>1. ~Deleting /\ ~Deleting'
    BY <1>6, <1>8 DEF Deleting
  <2>2. DiskSized(fat12_table)
    BY <2>1 DEF Sized
  <2>3. DiskSized(fat12_table)'
    <3> SUFFICES ASSUME NEW i \in Slots, i \notin torn', Clustered(diskDir'[i].first)
                 PROVE  Exact(fat12_table, diskDir'[i])
      BY <1>1 DEF DiskSized
    <3> QED BY <1>5, <2>2 DEF DiskSized
  <2> QED BY <1>4, <2>1, <2>3 DEF Sized
<1>9. CASE todo' # <<>> /\ saving = NONE
  <2>1. Deleting /\ Deleting' /\ behind' = behind
    BY <1>0, <1>6, <1>9 DEF Deleting
  <2>2. ASSUME ~behind PROVE DiskSized(diskFat)'
    <3>1. DiskSized(diskFat) /\ DiskSound /\ DiskSound'
      BY <2>1, <2>2 DEF Sized, Sound
    <3> SUFFICES ASSUME NEW i \in Slots, i \notin torn', Clustered(diskDir'[i].first)
                 PROVE  Exact(diskFat', diskDir'[i])
      BY DEF DiskSized
    <3>2. ASSUME diskDir'[i] = root_dir[i], Exact(fat12_table, root_dir[i])
          PROVE  Exact(diskFat', diskDir'[i])
      <4>1. Agree(fat12_table, diskFat', root_dir)
        BY <1>1, <3>1 DEF DiskSound
      <4>2. Same(fat12_table, diskFat', root_dir[i].first)
        BY <3>2, <4>1 DEF Agree
      <4>3. Linked(fat12_table, root_dir[i].first)
        BY <3>2 DEF Sound, MemorySound, AllLinked
      <4>4. Exact(diskFat', root_dir[i])
        BY <3>2, <4>2, <4>3, FrameExact
      <4> QED BY <3>2, <4>4
    <3>3. CASE todo[1].area # "fat"
      <4>1. diskFat' = diskFat
        BY <1>1, <3>3
      <4>2. CASE diskDir'[i] = diskDir[i] /\ i \notin torn
        <5>1. Exact(diskFat, diskDir[i])
          BY <3>1, <4>2 DEF DiskSized
        <5> QED BY <4>1, <4>2, <5>1
      <4> QED BY <1>5, <3>2, <4>2
    <3>4. CASE todo[1].area = "fat"
      <4>1. /\ Progress' /\ Len(todo) \in Nat \ {0} /\ Len(todo') = Len(todo) - 1
            /\ \A k \in 1 .. Len(todo) - 1 : todo'[k] = todo[k + 1]
        BY <1>0, SectorWritten
      <4>2. Precedes(todo, "dir", "fat") /\ "dir" # "fat"
        BY <1>9 DEF Sound, Ordered
      <4>3. \A y : ~Pending(todo', "dir", y)
        BY <3>4, <4>1, <4>2, NoneBehind
      <4>4. \A j \in Slots : /\ diskDir'[j].name = root_dir[j].name
                             /\ diskDir'[j].first = root_dir[j].first
                             /\ diskDir'[j].size = root_dir[j].size
        BY <1>1, <4>1, <4>3 DEF Progress
      <4>5. root_dir \in Dirs /\ diskDir' \in Dirs
        BY TypedDirs DEF Typed, TypeOK, Dirs
      <4>6. diskDir' = root_dir
        BY <4>4, <4>5, DirsEqual
      <4>7. Exact(fat12_table, root_dir[i])
        BY <1>3, <4>6
      <4> QED BY <3>2, <4>6, <4>7
    <3> QED BY <3>3, <3>4
  <2> QED BY <1>4, <2>1, <2>2 DEF Sized
<1> QED BY <1>7, <1>8, <1>9

-----------------------------------------------------------------------------
(* Files are created.                                                       *)

LEMMA AgreeTrans ==
    ASSUME NEW t, NEW u, NEW v, NEW dir \in Dirs, AllLinked(t, dir),
           Agree(t, u, dir), Agree(t, v, dir)
    PROVE  Agree(u, v, dir)
<1> SUFFICES ASSUME NEW i \in Slots, Clustered(dir[i].first), NEW x \in Clusters, On(u, dir[i].first, x)
             PROVE  v[x] = u[x]
  BY DEF Agree, Same
<1>1. On(t, dir[i].first, x)
  BY FrameDir
<1> QED BY <1>1 DEF Agree, Same

\* A directory with a new entry, whose clusters belong to no other.
LEMMA Fresh ==
    ASSUME NEW t, NEW r, NEW d, NEW r2, NEW i \in Slots, NEW e,
           r2[i] = e, \A j \in Slots : j # i => r2[j] = r[j],
           Linked(t, e.first),
           \A j \in Slots : \A x : On(t, e.first, x) /\ Clustered(r[j].first) => ~On(t, r[j].first, x),
           \A j \in Slots : \A x : On(t, e.first, x) /\ Clustered(d[j].first) => ~On(t, d[j].first, x),
           AllLinked(t, r), Separate(t, r, r), Separate(t, r, d)
    PROVE  AllLinked(t, r2) /\ Separate(t, r2, r2) /\ Separate(t, r2, d)
<1>1. AllLinked(t, r2)
  BY DEF AllLinked
<1>2. ASSUME NEW j \in Slots, NEW k \in Slots, NEW x, Clustered(r2[j].first), Clustered(r2[k].first),
             j # k, On(t, r2[j].first, x), On(t, r2[k].first, x)
      PROVE  FALSE
  <2>1. CASE j = i
    BY <1>2, <2>1
  <2>2. CASE k = i
    BY <1>2, <2>2
  <2>3. CASE j # i /\ k # i
    BY <1>2, <2>3 DEF Separate
  <2> QED BY <2>1, <2>2, <2>3
<1>3. ASSUME NEW j \in Slots, NEW k \in Slots, NEW x, Clustered(r2[j].first), Clustered(d[k].first),
             ~(j = k /\ r2[j].first = d[k].first), On(t, r2[j].first, x), On(t, d[k].first, x)
      PROVE  FALSE
  <2>1. CASE j = i
    BY <1>3, <2>1
  <2>2. CASE j # i
    BY <1>3, <2>2 DEF Separate
  <2> QED BY <2>1, <2>2
<1>4. Separate(t, r2, r2)
  BY <1>2 DEF Separate
<1>5. Separate(t, r2, d)
  BY <1>3 DEF Separate
<1> QED BY <1>1, <1>4, <1>5

\* The clusters that fat12_allocate has taken were free.
LEMMA TakenFree ==
    ASSUME fat12_table \in Tables, NEW size \in Nat, Enough(size), NEW t, NEW c,
           Owns(t, c, Taken(size)), Len(Taken(size)) = Needed(size), NEW x, On(t, c, x)
    PROVE  fat12_table[x] = FREE_ENTRY
<1>0. PICK ch : ch = Taken(size)
  OBVIOUS
<1>1. \A y : On(t, c, y) <=> \E k \in 1 .. Len(ch) : ch[k] = y
  BY <1>0, OnChain
<1>2. PICK k \in 1 .. Needed(size) : ch[k] = x
  BY <1>0, <1>1
<1> QED BY <1>0, <1>2, EnoughTaken

LEMMA NewFile ==
    ASSUME Typed, NEW name \in Names, NEW size \in Sizes, Enough(size), NEW e,
           e = [name |-> name, first |-> Taken(size)[1], size |-> size]
    PROVE  /\ e \in Files /\ Clustered(e.first)
           /\ Owns(fat12_allocate(size), e.first, Taken(size))
           /\ Len(Taken(size)) = Needed(size) /\ Exact(fat12_allocate(size), e)
           /\ \A x : On(fat12_allocate(size), e.first, x) => fat12_table[x] = FREE_ENTRY
<1>0. size \in Nat /\ fat12_table \in Tables
  BY SizesNat, TypedDirs
<1>1. Taken(size)[1] \in Clusters
  <2>1. 1 \in 1 .. Needed(size)
    BY <1>0, NeededType
  <2> QED BY <1>0, <2>1, EnoughTaken
<1>3. e.first = Taken(size)[1] /\ e.size = size
  OBVIOUS
<1>2. e \in Files /\ Clustered(e.first)
  BY <1>1, <1>3 DEF Files, Clustered
<1>4. IsChain(fat12_allocate(size), Taken(size)[1], Taken(size), Needed(size))
  BY <1>0, Allocated
<1>n. Needed(size) \in Nat \ {0}
  BY <1>0, NeededType
<1>5. Owns(fat12_allocate(size), e.first, Taken(size)) /\ Len(Taken(size)) = Needed(size)
  BY <1>3, <1>4, <1>n, OwnsFrom
<1>6. ASSUME NEW x, On(fat12_allocate(size), e.first, x) PROVE fat12_table[x] = FREE_ENTRY
  BY <1>0, <1>5, <1>6, TakenFree
<1>7. Exact(fat12_allocate(size), e)
  <2> SUFFICES ASSUME NEW ch, Owns(fat12_allocate(size), e.first, ch)
               PROVE  Len(ch) = Needed(e.size)
    BY DEF Exact
  <2>1. ch = Taken(size)
    BY <1>5, OwnsOne
  <2> QED BY <1>3, <1>5, <2>1
<1> QED BY <1>2, <1>5, <1>6, <1>7

\* What fat12_allocate leaves alone, for the directories.
LEMMA AllocateFrame ==
    ASSUME Typed, NEW size \in Nat, MemorySound, DiskKnown, NEW t, t = fat12_allocate(size)
    PROVE  /\ AllLinked(t, root_dir) /\ Separate(t, root_dir, root_dir)
           /\ AllLinked(t, diskDir) /\ Separate(t, diskDir, diskDir)
           /\ Separate(t, root_dir, diskDir) /\ Agree(t, diskFat, diskDir)
           /\ \A i \in Slots : \A x : Clustered(root_dir[i].first) /\ On(t, root_dir[i].first, x)
                 => fat12_table[x] # FREE_ENTRY
           /\ \A i \in Slots : \A x : Clustered(diskDir[i].first) /\ On(t, diskDir[i].first, x)
                 => fat12_table[x] # FREE_ENTRY
<1>0. root_dir \in Dirs /\ diskDir \in Dirs /\ fat12_table \in Tables
  BY TypedDirs
<1>1. Agree(fat12_table, t, root_dir) /\ Agree(fat12_table, t, diskDir)
  BY <1>0, AllocateAgrees
<1>2. /\ AllLinked(fat12_table, root_dir) /\ Separate(fat12_table, root_dir, root_dir)
      /\ AllLinked(fat12_table, diskDir) /\ Separate(fat12_table, diskDir, diskDir)
      /\ Separate(fat12_table, root_dir, diskDir) /\ Agree(fat12_table, diskFat, diskDir)
  BY DEF MemorySound, DiskKnown
<1>3. AllLinked(t, root_dir) /\ AllLinked(t, diskDir)
  BY <1>0, <1>1, <1>2, FrameDir
<1>4. /\ Separate(t, root_dir, root_dir) /\ Separate(t, diskDir, diskDir)
      /\ Separate(t, root_dir, diskDir)
  BY <1>0, <1>1, <1>2, FrameSeparate
<1>5. Agree(t, diskFat, diskDir)
  BY <1>0, <1>1, <1>2, AgreeTrans
<1>6. ASSUME NEW i \in Slots, NEW x, Clustered(root_dir[i].first), On(t, root_dir[i].first, x)
      PROVE  fat12_table[x] # FREE_ENTRY
  <2>1. On(fat12_table, root_dir[i].first, x)
    BY <1>0, <1>1, <1>2, <1>6, FrameDir
  <2> QED BY <2>1, OnUsed
<1>7. ASSUME NEW i \in Slots, NEW x, Clustered(diskDir[i].first), On(t, diskDir[i].first, x)
      PROVE  fat12_table[x] # FREE_ENTRY
  <2>1. On(fat12_table, diskDir[i].first, x)
    BY <1>0, <1>1, <1>2, <1>7, FrameDir
  <2> QED BY <2>1, OnUsed
<1> QED BY <1>3, <1>4, <1>5, <1>6, <1>7

\* What is known when a command can be given.
LEMMA AtRest ==
    ASSUME Typed, Sound, Idle
    PROVE  /\ saving = NONE /\ MemorySound /\ DiskKnown /\ (~behind => NothingNew)
           /\ todo = <<>> /\ ~hung /\ ~Deleting
  BY DEF Typed, Sound, Idle, Deleting

\* The sizes under fat12_allocate.
LEMMA AllocateSized ==
    ASSUME Typed, NEW size \in Nat, MemorySound, DiskKnown, MemorySized,
           DiskSized(fat12_table), NEW t, t = fat12_allocate(size)
    PROVE  /\ \A i \in Slots : /\ Clustered(root_dir[i].first)
                               /\ ~(i \in torn /\ root_dir[i] = diskDir[i])
                             => Exact(t, root_dir[i])
           /\ DiskSized(t)
<1>0. root_dir \in Dirs /\ diskDir \in Dirs /\ fat12_table \in Tables
  BY TypedDirs
<1>1. Agree(fat12_table, t, root_dir) /\ Agree(fat12_table, t, diskDir)
  BY <1>0, AllocateAgrees
<1>2. AllLinked(fat12_table, root_dir) /\ AllLinked(fat12_table, diskDir)
  BY DEF MemorySound, DiskKnown
<1>3. ASSUME NEW i \in Slots, Clustered(root_dir[i].first),
             ~(i \in torn /\ root_dir[i] = diskDir[i])
      PROVE  Exact(t, root_dir[i])
  <2>1. Exact(fat12_table, root_dir[i])
    BY <1>3 DEF MemorySized
  <2>2. Linked(fat12_table, root_dir[i].first) /\ Same(fat12_table, t, root_dir[i].first)
    BY <1>1, <1>2, <1>3 DEF AllLinked, Agree
  <2> QED BY <2>1, <2>2, FrameExact
<1>4. ASSUME NEW i \in Slots, i \notin torn, Clustered(diskDir[i].first)
      PROVE  Exact(t, diskDir[i])
  <2>1. Exact(fat12_table, diskDir[i])
    BY <1>4 DEF DiskSized
  <2>2. Linked(fat12_table, diskDir[i].first) /\ Same(fat12_table, t, diskDir[i].first)
    BY <1>1, <1>2, <1>4 DEF AllLinked, Agree
  <2> QED BY <2>1, <2>2, FrameExact
<1> QED BY <1>3, <1>4 DEF DiskSized

LEMMA SoundCreate ==
    ASSUME Typed, Sound, Sized, NEW name \in Names, NEW size \in Sizes, create_file(name, size)
    PROVE  Sound' /\ Sized'
<1>0. Idle /\ Enough(size) /\ EmptySlots # {} /\ size \in Nat
  BY SizesNat DEF create_file
<1>1. saving = NONE /\ MemorySound /\ DiskKnown /\ ~hung /\ ~Deleting
  BY <1>0, AtRest
<1>2. PICK t : t = fat12_allocate(size)
  OBVIOUS
<1>3. PICK e : e = [name |-> name, first |-> Taken(size)[1], size |-> size]
  OBVIOUS
<1>4. PICK i \in Slots : i = FirstOf(EmptySlots)
  BY <1>0, EmptySlot
<1>5. /\ fat12_table' = t /\ saving' = i /\ root_dir' = [root_dir EXCEPT ![i] = e]
      /\ diskFat' = diskFat /\ diskDir' = diskDir /\ hung' = hung /\ torn' = torn
  BY <1>2, <1>3, <1>4 DEF create_file, diskVars
<1>6. /\ e \in Files /\ Owns(t, e.first, Taken(size)) /\ Exact(t, e)
      /\ \A x : On(t, e.first, x) => fat12_table[x] = FREE_ENTRY
  BY <1>0, <1>2, <1>3, NewFile
<1>7. /\ AllLinked(t, root_dir) /\ Separate(t, root_dir, root_dir)
      /\ AllLinked(t, diskDir) /\ Separate(t, diskDir, diskDir)
      /\ Separate(t, root_dir, diskDir) /\ Agree(t, diskFat, diskDir)
      /\ \A j \in Slots : \A x : Clustered(root_dir[j].first) /\ On(t, root_dir[j].first, x)
            => fat12_table[x] # FREE_ENTRY
      /\ \A j \in Slots : \A x : Clustered(diskDir[j].first) /\ On(t, diskDir[j].first, x)
            => fat12_table[x] # FREE_ENTRY
  BY <1>0, <1>1, <1>2, AllocateFrame
<1>8. root_dir'[i] = e /\ \A j \in Slots : j # i => root_dir'[j] = root_dir[j]
  <2>1. root_dir \in Dirs
    BY TypedDirs
  <2> QED BY <1>5, <2>1 DEF Dirs
<1>9. Linked(t, e.first)
  BY <1>6 DEF Linked
<1>10. /\ AllLinked(t, root_dir') /\ Separate(t, root_dir', root_dir')
       /\ Separate(t, root_dir', diskDir)
  <2>1. /\ \A j \in Slots : \A x : On(t, e.first, x) /\ Clustered(root_dir[j].first) => ~On(t, root_dir[j].first, x)
        /\ \A j \in Slots : \A x : On(t, e.first, x) /\ Clustered(diskDir[j].first) => ~On(t, diskDir[j].first, x)
    BY <1>6, <1>7
  <2> QED BY <1>7, <1>8, <1>9, <2>1, Fresh
<1>11. MemorySound'
  BY <1>5, <1>10 DEF MemorySound
<1>12. DiskKnown'
  BY <1>5, <1>7, <1>10 DEF DiskKnown
<1>13. saving' # NONE /\ ~Deleting'
  BY <1>5, SlotsNat DEF Deleting
<1>14. PICK ch : ch = Chain(t, Taken(size)[1])
  OBVIOUS
<1>15. PICK d : d = [k \in 1 .. size |-> Write("data", ch[k], <<saves', k>>)]
  OBVIOUS
<1>16. todo' = d \o WriteFat \o WriteDir
  BY <1>5, <1>14, <1>15 DEF create_file, WriteFile
<1>17. Into(d, "data")
  BY <1>0, <1>15, SaveData
<1>18. Covers(todo') /\ Precedes(todo', "fat", "dir")
  BY <1>16, <1>17, SavePass
<1>19. Progress' /\ Ordered'
  <2>1. Progress'
    BY <1>18, CoversProgress DEF Progress, DirSector
  <2> QED BY <1>13, <1>18, <2>1 DEF Ordered
<1>20. Sound'
  BY <1>1, <1>5, <1>11, <1>12, <1>13, <1>19 DEF Sound
<1>21. MemorySized /\ DiskSized(fat12_table)
  BY <1>1 DEF Sized
<1>22. /\ \A j \in Slots : /\ Clustered(root_dir[j].first)
                           /\ ~(j \in torn /\ root_dir[j] = diskDir[j])
                         => Exact(t, root_dir[j])
       /\ DiskSized(t)
  BY <1>0, <1>1, <1>2, <1>21, AllocateSized
<1>23. MemorySized'
  BY <1>5, <1>6, <1>8, <1>22 DEF MemorySized
<1>24. DiskSized(fat12_table)'
  BY <1>5, <1>22 DEF DiskSized
<1> QED BY <1>13, <1>20, <1>23, <1>24 DEF Sized

LEMMA SoundNoSlot ==
    ASSUME Typed, Sound, Sized, NEW size \in Sizes, CreateNoSlot(size)
    PROVE  Sound' /\ Sized'
<1>0. Idle /\ size \in Nat
  BY SizesNat DEF CreateNoSlot
<1>1. /\ saving = NONE /\ MemorySound /\ DiskKnown /\ ~hung /\ todo = <<>> /\ ~Deleting
      /\ (~behind => NothingNew)
  BY <1>0, AtRest
<1>2. /\ fat12_table' = fat12_allocate(size) /\ root_dir' = root_dir
      /\ diskFat' = diskFat /\ diskDir' = diskDir /\ hung' = hung
      /\ todo' = todo /\ saving' = saving /\ behind' = behind /\ torn' = torn
  BY DEF CreateNoSlot, diskVars, auxVars
<1>3. MemorySound' /\ DiskKnown'
  BY <1>0, <1>1, <1>2, AllocateFrame DEF MemorySound, DiskKnown
<1>4. Ordered'
  BY <1>1, <1>2, NoWritesLeft DEF Ordered
<1>5. ~Deleting' /\ todo' = <<>> /\ ~hung'
  BY <1>1, <1>2 DEF Deleting
<1>6. NothingNew => NothingNew'
  BY <1>2 DEF NothingNew
<1>7. Sound'
  BY <1>1, <1>2, <1>3, <1>4, <1>5, <1>6 DEF Sound
<1>8. MemorySized /\ DiskSized(fat12_table)
  BY <1>1 DEF Sized
<1>9. MemorySized' /\ DiskSized(fat12_table)'
  BY <1>0, <1>1, <1>2, <1>8, AllocateSized DEF MemorySized, DiskSized
<1> QED BY <1>5, <1>7, <1>9 DEF Sized

\* An entry without clusters makes no difference.
LEMMA Unclustered ==
    ASSUME NEW t, NEW r, NEW d, NEW m, \A i \in Slots : Clustered(m[i].first) => m[i] = r[i],
           AllLinked(t, r), Separate(t, r, r), Separate(t, r, d)
    PROVE  AllLinked(t, m) /\ Separate(t, m, m) /\ Separate(t, m, d)
<1>1. AllLinked(t, m)
  BY DEF AllLinked
<1>2. Separate(t, m, m)
  BY DEF Separate
<1>3. Separate(t, m, d)
  BY DEF Separate
<1> QED BY <1>1, <1>2, <1>3

\* A file that gets no cluster, whatever fat12_allocate has done to the table.
LEMMA NowhereSound ==
    ASSUME Typed, Sound, Sized, Idle, NEW i \in Slots, NEW e, e.first = NOWHERE,
           NEW size \in Nat, NEW t, t \in {fat12_table, fat12_allocate(size)},
           fat12_table' = t, root_dir' = [root_dir EXCEPT ![i] = e], saving' = i,
           diskFat' = diskFat, diskDir' = diskDir, torn' = torn
    PROVE  MemorySound' /\ DiskKnown' /\ saving' # NONE /\ ~Deleting' /\ Sized'
<1>1. saving = NONE /\ MemorySound /\ DiskKnown /\ ~Deleting
  BY AtRest
<1>2. MemorySized /\ DiskSized(fat12_table)
  BY <1>1 DEF Sized
<1>3. /\ AllLinked(t, root_dir) /\ Separate(t, root_dir, root_dir)
      /\ AllLinked(t, diskDir) /\ Separate(t, diskDir, diskDir)
      /\ Separate(t, root_dir, diskDir) /\ Agree(t, diskFat, diskDir)
      /\ \A j \in Slots : /\ Clustered(root_dir[j].first)
                          /\ ~(j \in torn /\ root_dir[j] = diskDir[j])
                        => Exact(t, root_dir[j])
      /\ DiskSized(t)
  <2>1. CASE t = fat12_table
    BY <1>1, <1>2, <2>1 DEF MemorySound, DiskKnown, MemorySized
  <2>2. CASE t = fat12_allocate(size)
    BY <1>1, <1>2, <2>2, AllocateFrame, AllocateSized
  <2> QED BY <2>1, <2>2
<1>4. root_dir'[i] = e /\ \A j \in Slots : j # i => root_dir'[j] = root_dir[j]
  BY TypedDirs DEF Dirs
<1>5. \A j \in Slots : Clustered(root_dir'[j].first) => root_dir'[j] = root_dir[j]
  BY <1>4, Constants DEF Clustered
<1>6. /\ AllLinked(t, root_dir') /\ Separate(t, root_dir', root_dir')
      /\ Separate(t, root_dir', diskDir)
  BY <1>3, <1>5, Unclustered
<1>7. MemorySound' /\ DiskKnown'
  BY <1>3, <1>6 DEF MemorySound, DiskKnown
<1>8. saving' # NONE /\ ~Deleting'
  BY SlotsNat DEF Deleting
<1>9. MemorySized'
  BY <1>3, <1>5 DEF MemorySized
<1>10. DiskSized(fat12_table)'
  BY <1>3 DEF DiskSized
<1> QED BY <1>7, <1>8, <1>9, <1>10 DEF Sized

LEMMA SoundHangs ==
    ASSUME Typed, Sound, Sized, NEW name \in Names, NEW size \in Sizes,
           CreateHangs(name, size)
    PROVE  Sound' /\ Sized'
<1>0. Idle /\ EmptySlots # {} /\ size \in Nat
  BY SizesNat DEF CreateHangs
<1>1. todo = <<>>
  BY <1>0, AtRest
<1>2. PICK e : e = [name |-> name, first |-> NOWHERE, size |-> size]
  OBVIOUS
<1>3. PICK i \in Slots : i = FirstOf(EmptySlots)
  BY <1>0, EmptySlot
<1>4. /\ fat12_table' = fat12_allocate(size) /\ root_dir' = [root_dir EXCEPT ![i] = e]
      /\ saving' = i /\ diskFat' = diskFat /\ diskDir' = diskDir /\ torn' = torn
      /\ todo' = todo /\ e.first = NOWHERE
  BY <1>2, <1>3 DEF CreateHangs, diskVars
<1>5. PICK t : t = fat12_allocate(size)
  OBVIOUS
<1>6. t \in {fat12_table, fat12_allocate(size)} /\ fat12_table' = t
  BY <1>4, <1>5
<1>7. MemorySound' /\ DiskKnown' /\ saving' # NONE /\ ~Deleting' /\ Sized'
  BY <1>0, <1>4, <1>6, NowhereSound
<1>8. Ordered' /\ todo' = <<>>
  BY <1>1, <1>4, NoWritesLeft DEF Ordered
<1> QED BY <1>7, <1>8 DEF Sound

LEMMA SoundNowhere ==
    ASSUME Typed, Sound, Sized, NEW name \in Names, CreateNowhere(name)
    PROVE  Sound' /\ Sized'
<1>0. Idle /\ EmptySlots # {} /\ 0 \in Nat
  BY DEF CreateNowhere
<1>1. ~hung
  BY <1>0, AtRest
<1>2. PICK e : e = [name |-> name, first |-> NOWHERE, size |-> 0]
  OBVIOUS
<1>3. PICK i \in Slots : i = FirstOf(EmptySlots)
  BY <1>0, EmptySlot
<1>4. /\ fat12_table' = fat12_table /\ root_dir' = [root_dir EXCEPT ![i] = e]
      /\ saving' = i /\ diskFat' = diskFat /\ diskDir' = diskDir /\ torn' = torn
      /\ todo' = WriteFat \o WriteDir /\ e.first = NOWHERE /\ hung' = hung
  BY <1>2, <1>3 DEF CreateNowhere, diskVars
<1>5. PICK t : t = fat12_table
  OBVIOUS
<1>6. t \in {fat12_table, fat12_allocate(0)} /\ fat12_table' = t
  BY <1>4, <1>5
<1>7. MemorySound' /\ DiskKnown' /\ saving' # NONE /\ ~Deleting' /\ Sized'
  BY <1>0, <1>4, <1>6, NowhereSound
<1>16. todo' = <<>> \o WriteFat \o WriteDir
  <2>1. PICK W : WriteFat \in Seq(W)
    BY FatWrites DEF Into, IsSeq
  <2>2. <<>> \o WriteFat = WriteFat
    BY <2>1
  <2> QED BY <1>4, <2>2
<1>17. Into(<<>>, "data")
  BY NothingIsSeq DEF Into
<1>18. Covers(todo') /\ Precedes(todo', "fat", "dir")
  BY <1>16, <1>17, SavePass
<1>19. Progress' /\ Ordered'
  <2>1. Progress'
    BY <1>18, CoversProgress DEF Progress, DirSector
  <2> QED BY <1>7, <1>18, <2>1 DEF Ordered
<1> QED BY <1>1, <1>4, <1>7, <1>19 DEF Sound

LEMMA SoundAbandon ==
    ASSUME Typed, Sound, Sized, Abandon PROVE Sound' /\ Sized'
<1>1. saving # NONE /\ MemorySound /\ DiskKnown /\ ~Deleting
  BY DEF Abandon, Sound, Deleting
<1>2. /\ fat12_table' = fat12_table /\ root_dir' = root_dir
      /\ diskFat' = diskFat /\ diskDir' = diskDir /\ torn' = torn
      /\ todo' = <<>> /\ saving' = NONE /\ behind' = TRUE
  BY DEF Abandon, memVars, diskVars
<1>3. MemorySound' /\ DiskKnown'
  BY <1>1, <1>2 DEF MemorySound, DiskKnown
<1>4. Ordered'
  BY <1>2, NoWritesLeft DEF Ordered
<1>5. ~Deleting'
  BY <1>2 DEF Deleting
<1>6. Sound'
  BY <1>2, <1>3, <1>4, <1>5 DEF Sound
<1>7. MemorySized' /\ DiskSized(fat12_table)'
  BY <1>1, <1>2 DEF Sized, MemorySized, DiskSized
<1> QED BY <1>5, <1>6, <1>7 DEF Sized

LEMMA SoundRead ==
    ASSUME Typed, Sound, Sized, NEW name \in Names, read_file(name) PROVE Sound' /\ Sized'
<1>0. Idle
  BY DEF read_file
<1>1. saving = NONE /\ MemorySound /\ DiskKnown /\ todo = <<>> /\ ~Deleting
  BY <1>0, AtRest
<1>2. /\ fat12_table' = fat12_table /\ root_dir' = diskDir
      /\ diskFat' = diskFat /\ diskDir' = diskDir /\ torn' = torn
      /\ todo' = todo /\ saving' = saving /\ behind' = behind
  BY DEF read_file, diskVars
<1>3. MemorySound' /\ DiskKnown'
  BY <1>1, <1>2 DEF MemorySound, DiskKnown
<1>4. Ordered'
  BY <1>1, <1>2, NoWritesLeft DEF Ordered
<1>5. ~Deleting' /\ todo' = <<>>
  BY <1>1, <1>2 DEF Deleting
<1>6. NothingNew'
  BY <1>2 DEF NothingNew
<1>7. Sound'
  BY <1>1, <1>2, <1>3, <1>4, <1>5, <1>6 DEF Sound
<1>8. DiskSized(fat12_table)
  BY <1>1 DEF Sized
<1>9. MemorySized' /\ DiskSized(fat12_table)'
  BY <1>2, <1>8 DEF MemorySized, DiskSized
<1> QED BY <1>5, <1>7, <1>9 DEF Sized

-----------------------------------------------------------------------------
(* Files are deleted.                                                       *)

\* delete_file polls for ever.
Refused ==
    /\ fat12_table' = fat12_table /\ root_dir' = root_dir /\ todo' = todo /\ saved' = saved
    /\ hung' = TRUE

\* delete_file takes the entry i out of the directory and frees its clusters.
Removed(i) ==
    /\ Clustered(root_dir[i].first) /\ Linked(fat12_table, root_dir[i].first)
    /\ \A x \in Clusters : fat12_table'[x] =
         IF On(fat12_table, root_dir[i].first, x) THEN FREE_ENTRY ELSE fat12_table[x]
    /\ root_dir'[i] = NoFile /\ \A j \in Slots : j # i => root_dir'[j] = root_dir[j]
    /\ saved' = {s \in saved : s.slot # i} /\ hung' = hung
    /\ \E d : /\ todo' = d \o WriteDir \o WriteFat /\ Into(d, "data")
              /\ \A l \in 1 .. Len(d) : \E x : On(fat12_table, root_dir[i].first, x)
                                                 /\ d[l] = Write("data", x, <<>>)

LEMMA EraseDoes ==
    ASSUME Typed, NEW i \in Slots, NEW c, c = root_dir[i].first, Clustered(c), NEW ch,
           Owns(fat12_table, c, ch), Erase(i, ch)
    PROVE  Removed(i)
<1>1. PICK n \in Nat \ {0} : n = Len(ch)
  BY DEF Owns
<1>2. Linked(fat12_table, c) /\ \A x : On(fat12_table, c, x) <=> \E k \in 1 .. n : ch[k] = x
  BY <1>1, OnChain
<1>3. /\ fat12_table' = [x \in Clusters |-> IF \E k \in 1 .. n : ch[k] = x
                                            THEN FREE_ENTRY ELSE fat12_table[x]]
      /\ root_dir' = [root_dir EXCEPT ![i] = NoFile]
      /\ todo' = WipeFile(ch) /\ saved' = {s \in saved : s.slot # i} /\ hung' = hung
  BY <1>1 DEF Erase
<1>4. \A x \in Clusters : fat12_table'[x] =
        IF On(fat12_table, c, x) THEN FREE_ENTRY ELSE fat12_table[x]
  BY <1>2, <1>3
<1>5. root_dir'[i] = NoFile /\ \A j \in Slots : j # i => root_dir'[j] = root_dir[j]
  BY <1>3, TypedDirs DEF Dirs
<1>6. PICK d : d = [k \in 1 .. n |-> Write("data", ch[k], <<>>)]
  OBVIOUS
<1>7. /\ Into(d, "data") /\ Len(d) = n
      /\ \A k \in 1 .. n : d[k] = Write("data", ch[k], <<>>)
  BY <1>6, WipeData
<1>8. todo' = d \o WriteDir \o WriteFat
  BY <1>1, <1>3, <1>6 DEF WipeFile
<1>9. \A l \in 1 .. n : On(fat12_table, c, ch[l])
  BY <1>2
<1>10. \A l \in 1 .. Len(d) : \E x : On(fat12_table, c, x) /\ d[l] = Write("data", x, <<>>)
  BY <1>7, <1>9
<1>11. \E d2 : /\ todo' = d2 \o WriteDir \o WriteFat /\ Into(d2, "data")
               /\ \A l \in 1 .. Len(d2) : \E x : On(fat12_table, c, x)
                                                 /\ d2[l] = Write("data", x, <<>>)
  BY <1>7, <1>8, <1>10, Zenon
<1>12. saved' = {s \in saved : s.slot # i} /\ hung' = hung
  BY <1>3
<1>13. /\ Clustered(root_dir[i].first) /\ Linked(fat12_table, root_dir[i].first)
       /\ \A x \in Clusters : fat12_table'[x] =
            IF On(fat12_table, root_dir[i].first, x) THEN FREE_ENTRY ELSE fat12_table[x]
  BY <1>2, <1>4
<1>14. \E d2 : /\ todo' = d2 \o WriteDir \o WriteFat /\ Into(d2, "data")
               /\ \A l \in 1 .. Len(d2) : \E x : On(fat12_table, root_dir[i].first, x)
                                                 /\ d2[l] = Write("data", x, <<>>)
  BY <1>11, Zenon
<1> QED BY <1>5, <1>12, <1>13, <1>14, Zenon DEF Removed

\* An entry without a cluster is not deleted as long as the disk is to be trusted.
LEMMA DeleteDoes ==
    ASSUME Typed, MemorySound, NEW name \in Names, delete_file(name), ~stale'
    PROVE  Refused \/ \E i \in Slots : Removed(i)
<1>1. PICK i \in Slots : i = FirstOf(comp_file_name(root_dir, name))
  BY FoundSlot DEF delete_file
<1>2. PICK c : c = root_dir[i].first
  OBVIOUS
<1>3. c # UNSET /\ todo = <<>>
  BY <1>1, <1>2 DEF delete_file, Idle
<1>4. \/ Ends(fat12_table, c) /\ Erase(i, Chain(fat12_table, c))
      \/ /\ ~Ends(fat12_table, c)
         /\ hung' = TRUE /\ fat12_table' = fat12_table /\ root_dir' = root_dir
         /\ saved' = saved
         /\ todo' = IF c \in Clusters THEN WipeForEver(c) ELSE <<>>
  BY <1>1, <1>2, <1>3 DEF delete_file, memVars
<1>5. CASE c \in Clusters
  <2>1. PICK ch : Owns(fat12_table, c, ch)
    BY <1>2, <1>5 DEF MemorySound, AllLinked, Linked, Clustered
  <2>2. Ends(fat12_table, c) /\ Chain(fat12_table, c) = ch
    BY <2>1, ChainIs DEF Owns
  <2>3. Clustered(c) /\ Erase(i, ch)
    BY <1>4, <1>5, <2>2 DEF Clustered
  <2>4. Removed(i)
    BY <1>2, <2>1, <2>3, EraseDoes
  <2> QED BY <2>4
<1>6. CASE c \notin Clusters
  <2>1. ~Ends(fat12_table, c)
    BY <1>6 DEF Ends
  <2> QED BY <1>3, <1>4, <1>6, <2>1 DEF Refused
<1> QED BY <1>5, <1>6

\* The files that are left keep their clusters.
LEMMA RemovedAgrees ==
    ASSUME Typed, NEW i \in Slots, Removed(i), NEW dir \in Dirs,
           \A j \in Slots : Clustered(dir[j].first) =>
              \A x : ~(On(fat12_table, root_dir[i].first, x) /\ On(fat12_table, dir[j].first, x))
    PROVE  Agree(fat12_table, fat12_table', dir)
<1> SUFFICES ASSUME NEW j \in Slots, Clustered(dir[j].first), NEW x \in Clusters,
                    On(fat12_table, dir[j].first, x)
             PROVE  fat12_table'[x] = fat12_table[x]
  BY DEF Agree, Same
<1>1. ~On(fat12_table, root_dir[i].first, x)
  OBVIOUS
<1> QED BY <1>1 DEF Removed

LEMMA SoundDelete ==
    ASSUME Typed, Typed', Sound, Sized, NEW name \in Names, delete_file(name), ~stale'
    PROVE  Sound' /\ Sized'
<1>0. Idle
  BY DEF delete_file
<1>1. /\ saving = NONE /\ MemorySound /\ DiskKnown /\ todo = <<>>
      /\ (~behind => NothingNew) /\ ~hung /\ ~Deleting
  BY <1>0, AtRest
<1>2. /\ diskFat' = diskFat /\ diskDir' = diskDir /\ saving' = saving /\ behind' = behind
      /\ torn' = torn
  BY DEF delete_file, diskVars
<1>z. MemorySized /\ DiskSized(fat12_table)
  BY <1>1 DEF Sized
<1>3. CASE Refused
  <2>1. /\ fat12_table' = fat12_table /\ root_dir' = root_dir /\ todo' = todo
    BY <1>3 DEF Refused
  <2>2. MemorySound' /\ DiskKnown'
    BY <1>1, <1>2, <2>1 DEF MemorySound, DiskKnown
  <2>3. Ordered'
    BY <1>1, <2>1, NoWritesLeft DEF Ordered
  <2>4. ~Deleting' /\ todo' = <<>>
    BY <1>1, <2>1 DEF Deleting
  <2>5. NothingNew => NothingNew'
    BY <1>2, <2>1 DEF NothingNew
  <2>6. Sound'
    BY <1>1, <1>2, <2>2, <2>3, <2>4, <2>5 DEF Sound
  <2>7. MemorySized' /\ DiskSized(fat12_table)'
    BY <1>2, <1>z, <2>1 DEF MemorySized, DiskSized
  <2> QED BY <2>4, <2>6, <2>7 DEF Sized
<1>4. ASSUME NEW i \in Slots, Removed(i) PROVE Sound' /\ Sized'
  <2>0. root_dir \in Dirs /\ diskDir \in Dirs /\ root_dir' \in Dirs
    BY TypedDirs DEF Typed, TypeOK, Dirs
  <2>1. AllLinked(fat12_table, root_dir) /\ Separate(fat12_table, root_dir, root_dir)
    BY <1>1 DEF MemorySound
  <2>2. /\ root_dir'[i].first = UNSET /\ \A j \in Slots : j # i => root_dir'[j] = root_dir[j]
        /\ Clustered(root_dir[i].first) /\ hung' = hung
    BY <1>4, NoFileType DEF Removed
  <2>3. \A j \in Slots : root_dir'[j].first \in {root_dir[j].first, UNSET}
    BY <2>2
  <2>4. AllLinked(fat12_table, root_dir') /\ Separate(fat12_table, root_dir', root_dir')
    BY <2>1, <2>3, Fewer
  <2>a. \A j \in Slots : Clustered(root_dir'[j].first) => j # i
    BY <2>2, Constants DEF Clustered
  <2>5. ASSUME NEW j \in Slots, Clustered(root_dir'[j].first)
        PROVE  \A x : ~(On(fat12_table, root_dir[i].first, x) /\ On(fat12_table, root_dir'[j].first, x))
    <3>1. j # i
      BY <2>5, <2>a
    <3> QED BY <2>1, <2>2, <2>5, <3>1 DEF Separate
  <2>6. Agree(fat12_table, fat12_table', root_dir')
    BY <1>4, <2>0, <2>5, RemovedAgrees
  <2>7. AllLinked(fat12_table', root_dir')
    BY <2>0, <2>4, <2>6, FrameDir
  <2>8. Separate(fat12_table', root_dir', root_dir')
    BY <2>0, <2>4, <2>6, FrameSeparate
  <2>9. MemorySound'
    BY <2>7, <2>8 DEF MemorySound
  <2>10. ASSUME ~behind PROVE DiskSound' /\ NothingNew'
    <3>1. NothingNew
      BY <1>1, <2>10
    <3>2. \A j \in Slots : root_dir'[j].first \in {diskDir[j].first, UNSET}
      BY <2>3, <3>1 DEF NothingNew
    <3>3. Agree(fat12_table, diskFat, diskDir)
      BY <1>1 DEF DiskKnown
    <3>4. Agree(fat12_table, diskFat, root_dir')
      BY <3>2, <3>3, Fewer
    <3>5. Agree(fat12_table', diskFat, root_dir')
      BY <2>0, <2>4, <2>6, <3>4, AgreeTrans
    <3>6. AllLinked(diskFat, diskDir) /\ Separate(diskFat, diskDir, diskDir)
      BY <1>1, KnownSound
    <3> QED BY <1>2, <3>2, <3>5, <3>6 DEF DiskSound, NothingNew
  <2>11. PICK d : todo' = d \o WriteDir \o WriteFat /\ Into(d, "data")
    BY <1>4 DEF Removed
  <2>12. todo' # <<>> /\ Covers(todo') /\ Precedes(todo', "dir", "fat")
    BY <2>11, WipePass
  <2>13. Deleting' /\ Progress' /\ Ordered'
    <3>1. Progress'
      BY <2>12, CoversProgress DEF Progress, DirSector
    <3> QED BY <1>1, <1>2, <2>12, <3>1 DEF Deleting, Ordered
  <2>14. Sound'
    BY <1>1, <1>2, <2>2, <2>9, <2>10, <2>13 DEF Sound
  <2>15. ASSUME NEW j \in Slots, Clustered(root_dir'[j].first),
                ~(j \in torn /\ root_dir'[j] = diskDir[j])
         PROVE  Exact(fat12_table', root_dir'[j])
    <3>1. PICK e : e = root_dir'[j]
      OBVIOUS
    <3>2. e = root_dir[j]
      BY <2>2, <2>15, <2>a, <3>1
    <3>3. Exact(fat12_table, e)
      BY <1>z, <2>15, <3>1, <3>2 DEF MemorySized
    <3>4. Same(fat12_table, fat12_table', e.first) /\ Linked(fat12_table, e.first)
      BY <2>4, <2>6, <2>15, <3>1 DEF Agree, AllLinked
    <3>5. Exact(fat12_table', e)
      BY <3>3, <3>4, FrameExact
    <3> QED BY <3>1, <3>5
  <2>16. MemorySized'
    BY <1>2, <2>15 DEF MemorySized
  <2>17. DiskSized(diskFat)
    BY <1>1, <1>z, KnownSized
  <2>18. DiskSized(diskFat)'
    BY <1>2, <2>17 DEF DiskSized
  <2> QED BY <2>13, <2>14, <2>16, <2>18 DEF Sized
<1> QED BY <1>1, <1>3, <1>4, DeleteDoes

-----------------------------------------------------------------------------
(* The power fails, and the invariant as a whole.                           *)

LEMMA SoundReboot ==
    ASSUME Typed, Sound, Sized, Reboot, ~stale' PROVE Sound' /\ Sized'
<1>1. /\ fat12_table' = diskFat /\ diskFat' = diskFat /\ diskDir' = diskDir
      /\ todo' = <<>> /\ saving' = NONE /\ hung' = FALSE /\ torn' = torn
      /\ ~(behind /\ todo # <<>>)
  BY DEF Reboot, diskVars, Typed, TypeOK
<1>2. \A i \in Slots : root_dir'[i].first = UNSET
  BY NoFileType DEF Reboot
<1>3. AllLinked(diskFat, diskDir) /\ Separate(diskFat, diskDir, diskDir) /\ DiskSized(diskFat)
  <2>1. CASE Deleting
    BY <1>1, <2>1 DEF Sound, DiskSound, Deleting, Sized
  <2>2. CASE ~Deleting
    BY <2>2, KnownSound, KnownSized DEF Sound, Sized
  <2> QED BY <2>1, <2>2
<1>4. MemorySound'
  BY <1>2, EmptyDir DEF MemorySound
<1>5. Separate(diskFat, root_dir', diskDir)
  BY <1>2, EmptyDir
<1>6. DiskKnown'
  BY <1>1, <1>3, <1>5, AgreeSelf DEF DiskKnown
<1>7. NothingNew'
  BY <1>2 DEF NothingNew
<1>8. Ordered'
  BY <1>1, NoWritesLeft DEF Ordered
<1>9. ~Deleting'
  BY <1>1 DEF Deleting
<1>10. Sound'
  BY <1>1, <1>4, <1>6, <1>7, <1>8, <1>9 DEF Sound
<1>11. MemorySized'
  BY <1>2, Constants DEF MemorySized, Clustered
<1>12. DiskSized(fat12_table)'
  BY <1>1, <1>3 DEF DiskSized
<1> QED BY <1>9, <1>10, <1>11, <1>12 DEF Sized

LEMMA StaleStays ==
    ASSUME Typed, Next, ~stale' PROVE ~stale
  BY DEF Next, WriteSector, create_file, CreateNoSlot, CreateHangs, CreateNowhere,
         read_file, delete_file, Abandon, Reboot, auxVars, Typed, TypeOK

LEMMA ConsistentNext ==
    ASSUME Typed, Typed', Consistent, [Next]_vars PROVE Consistent'
<1> SUFFICES ASSUME ~stale' PROVE Sound' /\ Sized'
  BY DEF Consistent
<1>1. CASE Next
  <2>1. Sound /\ Sized
    BY <1>1, StaleStays DEF Consistent
  <2>2. CASE WriteSector
    <3>1. Sound'
      BY <2>1, <2>2, SoundWrite
    <3> QED BY <2>1, <2>2, <3>1, SizedWrite
  <2> QED BY <1>1, <2>1, <2>2, SoundCreate, SoundNoSlot, SoundHangs, SoundNowhere,
             SoundRead, SoundDelete, SoundAbandon, SoundReboot DEF Next
<1>2. CASE UNCHANGED vars
  <2>1. Sound /\ Sized
    BY <1>2 DEF vars, auxVars, Consistent
  <2>2. Sound'
    BY <1>2, <2>1 DEF vars, memVars, diskVars, auxVars, Sound, MemorySound, DiskKnown,
                      DiskSound, NothingNew, Progress, DirSector, Ordered, Deleting
  <2>3. Sized'
    BY <1>2, <2>1 DEF vars, memVars, diskVars, auxVars, Sized, MemorySized, DiskSized, Deleting
  <2> QED BY <2>2, <2>3
<1> QED BY <1>1, <1>2

\* After every single sector that write_into_memory and delete_file store, also
\* when the sector ends inside a directory entry, each entry of the directory on
\* the disk that has a first cluster has a chain in the table on the disk that
\* ends and is shared with no other entry, and the chain of an entry that is not
\* half old and half new is as long as the file needs.
THEOREM DiskStaysConsistent == Spec => []DiskConsistent
<1>1. Init => Typed /\ Consistent
  BY TypedInit, ConsistentInit
<1>2. Typed /\ Consistent /\ [Next]_vars => (Typed /\ Consistent)'
  BY TypedNext, ConsistentNext
<1>3. Typed /\ Consistent => DiskConsistent
  BY SoundConsistent
<1> QED BY <1>1, <1>2, <1>3, PTL DEF Spec

-----------------------------------------------------------------------------
(* Saved files stay, and are read back.                                     *)

\* Save number n of the entry e is in the data area b.
Written(t, b, e, n) == \A ch : Owns(t, e.first, ch) => \A k \in 1 .. e.size : b[ch[k]] = <<n, k>>

\* Both tables lead to it.
Holds(t, u, b, e, n) ==
    Linked(t, e.first) /\ Same(t, u, e.first) /\ Written(t, b, e, n) /\ Exact(t, e)

\* A saved file is in the directories, whole, and both tables lead to its content.
Kept(s) ==
    /\ s.slot # saving /\ s.slot \notin torn
    /\ diskDir[s.slot].name # <<>>
    /\ mounted => root_dir[s.slot] = diskDir[s.slot]
    /\ Clustered(diskDir[s.slot].first) =>
         Holds(fat12_table, diskFat, data, diskDir[s.slot], s.number)
    /\ ~Clustered(diskDir[s.slot].first) => diskDir[s.slot].size = 0

\* Of the save under way, each sector is on the disk or still to be written.
Underway(e) ==
    \A ch : Owns(fat12_table, e.first, ch) =>
      /\ \A p \in 1 .. Len(todo) : todo[p].area = "data" =>
           \E k \in 1 .. e.size : todo[p] = Write("data", ch[k], <<saves, k>>)
      /\ \A k \in 1 .. e.size :
           \/ data[ch[k]] = <<saves, k>>
           \/ \E p \in 1 .. Len(todo) : todo[p] = Write("data", ch[k], <<saves, k>>)

NoData == \A p \in 1 .. Len(todo) : todo[p].area # "data"

\* The entry e of the save under way.
SavedAs(e) ==
    /\ e.name # <<>>
    /\ saving \in torn => diskDir[saving] # e
    /\ Clustered(e.first) => Exact(fat12_table, e) /\ Underway(e)
    /\ ~Clustered(e.first) => NoData /\ (hung \/ e.size = 0)

Saving == saving # NONE => SavedAs(root_dir[saving])

\* A deletion overwrites free clusters only.
Wiping ==
    saving = NONE => \A p \in 1 .. Len(todo) : todo[p].area = "data" =>
                         todo[p].at \in Clusters /\ fat12_table[todo[p].at] = FREE_ENTRY

\* Until the directory is read after a boot nothing is written.
Unread ==
    ~mounted => /\ saving = NONE /\ todo = <<>>
                /\ \A i \in Slots : root_dir[i].first = UNSET

\* An entry that is empty in memory is empty on the disk, but while one is deleted.
EmptyKnown ==
    mounted /\ ~Deleting => \A i \in Slots : root_dir[i].name = <<>> => diskDir[i].name = <<>>

AllKept == (\A s \in saved : Kept(s)) /\ Saving /\ Wiping /\ Unread /\ EmptyKnown

Keeps == ~stale /\ ~blind => AllKept

LEMMA HoldsFrame ==
    ASSUME NEW t, NEW u, NEW b, NEW e \in Files, NEW n, NEW v,
           Holds(t, u, b, e, n), Same(t, v, e.first)
    PROVE  Holds(v, u, b, e, n)
<1>1. /\ Linked(v, e.first) /\ Same(v, t, e.first)
      /\ \A ch : Owns(v, e.first, ch) <=> Owns(t, e.first, ch)
      /\ \A x : On(v, e.first, x) <=> On(t, e.first, x)
  BY Frame DEF Holds
<1>2. Written(v, b, e, n) /\ Exact(v, e)
  BY <1>1 DEF Holds, Written, Exact
<1>3. Same(v, u, e.first)
  <2> SUFFICES ASSUME NEW x \in Clusters, On(v, e.first, x) PROVE u[x] = v[x]
    BY DEF Same
  <2>1. On(t, e.first, x)
    BY <1>1
  <2> QED BY <2>1 DEF Holds, Same
<1> QED BY <1>1, <1>2, <1>3 DEF Holds

LEMMA AllocateSame ==
    ASSUME fat12_table \in Tables, NEW size \in Nat, NEW e \in Files
    PROVE  Same(fat12_table, fat12_allocate(size), e.first)
<1> SUFFICES ASSUME NEW x \in Clusters, On(fat12_table, e.first, x)
             PROVE  fat12_allocate(size)[x] = fat12_table[x]
  BY DEF Same
<1>1. fat12_table[x] # FREE_ENTRY
  BY OnUsed
<1> QED BY <1>1, AllocateKeeps

\* The sectors of a file that both tables lead to.
LEMMA HeldContent ==
    ASSUME NEW t, NEW u, NEW b, NEW e \in Files, NEW n, Holds(t, u, b, e, n)
    PROVE  /\ Ends(t, e.first) /\ Chain(u, e.first) = Chain(t, e.first)
           /\ Len(Chain(t, e.first)) = Needed(e.size)
           /\ \A k \in 1 .. e.size : /\ Chain(t, e.first)[k] \in Clusters
                                     /\ b[Chain(t, e.first)[k]] = <<n, k>>
<1>1. PICK ch : Owns(t, e.first, ch)
  BY DEF Holds, Linked
<1>0. Len(ch) = Needed(e.size)
  BY <1>1 DEF Holds, Exact
<1>2. PICK l \in Nat \ {0} : l = Needed(e.size) /\ e.size <= l /\ e.size \in Nat
  BY FileSize, NeededType
<1>7. Len(ch) = l
  BY <1>0, <1>2
<1>3. Owns(u, e.first, ch)
  BY <1>1, FrameOwns DEF Holds
<1>4. Ends(t, e.first) /\ Chain(t, e.first) = ch
  BY <1>1, ChainIs DEF Owns
<1>5. Chain(u, e.first) = ch
  BY <1>3, ChainIs DEF Owns
<1>6. ch \in [1 .. l -> Clusters]
  BY <1>1, <1>7 DEF Owns, IsChain
<1>8. \A k \in 1 .. e.size : b[ch[k]] = <<n, k>>
  BY <1>1 DEF Holds, Written
<1>9. \A k \in 1 .. e.size : ch[k] \in Clusters
  BY <1>2, <1>6
<1> QED BY <1>0, <1>4, <1>5, <1>8, <1>9

\* What the chain of e in table u leads to is save number n.
Intact(u, b, e, n) == \A k \in 1 .. e.size : b[Chain(u, e.first)[k]] = <<n, k>>

LEMMA HeldSector ==
    ASSUME NEW t, NEW u, NEW b, NEW e \in Files, NEW n, Holds(t, u, b, e, n)
    PROVE  Intact(u, b, e, n)
<1>1. PICK ch : Owns(t, e.first, ch)
  BY DEF Holds, Linked
<1>3. Owns(u, e.first, ch)
  BY <1>1, FrameOwns DEF Holds
<1>4. Chain(u, e.first) = ch
  BY <1>3, ChainIs DEF Owns
<1>5. \A k \in 1 .. e.size : b[ch[k]] = <<n, k>>
  BY <1>1 DEF Holds, Written
<1> QED BY <1>4, <1>5 DEF Intact

LEMMA SavedType ==
    ASSUME Typed, NEW s \in saved
    PROVE  s.slot \in Slots /\ root_dir[s.slot] \in Files /\ diskDir[s.slot] \in Files
  BY DEF Typed, TypeOK

\* The invariant implies the property.
LEMMA KeptDurable == ASSUME Typed, Keeps PROVE Durable
<1> SUFFICES ASSUME AllKept, NEW s \in saved
             PROVE  /\ diskDir[s.slot].name # <<>> /\ s.slot \notin torn
                    /\ \A k \in 1 .. diskDir[s.slot].size :
                         data[Chain(diskFat, diskDir[s.slot].first)[k]] = <<s.number, k>>
  BY DEF Keeps, Durable
<1>1. PICK e \in Files : e = diskDir[s.slot]
  BY SavedType
<1>2. Kept(s)
  BY DEF AllKept
<1>3. e.name # <<>> /\ s.slot \notin torn
  BY <1>1, <1>2 DEF Kept
<1>4. ASSUME NEW k \in 1 .. e.size PROVE data[Chain(diskFat, e.first)[k]] = <<s.number, k>>
  <2>1. CASE Clustered(e.first)
    <3>0. PICK n : n = s.number
      OBVIOUS
    <3>1. Holds(fat12_table, diskFat, data, e, n)
      BY <1>1, <1>2, <2>1, <3>0 DEF Kept
    <3>2. Intact(diskFat, data, e, n)
      BY <3>1, HeldSector
    <3> QED BY <1>4, <3>0, <3>2 DEF Intact
  <2>2. CASE ~Clustered(e.first)
    <3>1. e.size = 0
      BY <1>1, <1>2, <2>2 DEF Kept
    <3> QED BY <1>4, <3>1
  <2> QED BY <2>1, <2>2
<1> QED BY <1>1, <1>3, <1>4

LEMMA KeptInit == Init => Keeps
<1> SUFFICES ASSUME Init PROVE AllKept
  BY DEF Keeps
<1>1. saved = {} /\ saving = NONE /\ mounted = TRUE /\ todo = <<>>
  BY DEF Init
<1>2. Len(todo) = 0
  BY <1>1, NothingIsSeq
<1>3. EmptyKnown
  BY DEF EmptyKnown, Init
<1> QED BY <1>1, <1>2, <1>3 DEF AllKept, Saving, Wiping, Unread

\* What is known when a command can be given.
LEMMA KeptAtRest ==
    ASSUME Typed, Idle
    PROVE  saving = NONE /\ todo = <<>> /\ Len(todo) = 0 /\ ~Deleting
  BY NothingIsSeq DEF Typed, Idle, Deleting

LEMMA NameNotEmpty ==
    ASSUME NEW name \in Names
    PROVE  name # <<>>
<1>0. Len(name) \in 1 .. 8
  BY FAT12Assumption
<1>1. Len(name) \in Nat /\ Len(name) # 0
  BY <1>0
<1> QED BY <1>1, NothingIsSeq

\* An entry that a save is given stays with no saved file, and is whole on the
\* disk only when it has been written.
LEMMA GivenSlot ==
    ASSUME Typed, AllKept, Idle, mounted, NEW i \in Slots, root_dir[i].name = <<>>
    PROVE  /\ diskDir[i].name = <<>> /\ \A s \in saved : s.slot # i
           /\ \A j \in Slots : root_dir[j].name = <<>> => diskDir[j].name = <<>>
<1>1. ~Deleting
  BY KeptAtRest
<1>2. \A j \in Slots : root_dir[j].name = <<>> => diskDir[j].name = <<>>
  BY <1>1 DEF AllKept, EmptyKnown
<1>3. \A s \in saved : diskDir[s.slot].name # <<>>
  BY DEF AllKept, Kept
<1> QED BY <1>2, <1>3

LEMMA KeptCreate ==
    ASSUME Typed, AllKept, NEW name \in Names, NEW size \in Sizes, create_file(name, size),
           mounted
    PROVE  AllKept'
<1>0. Idle /\ Enough(size) /\ EmptySlots # {} /\ size \in Nat /\ fat12_table \in Tables
  BY SizesNat, TypedDirs DEF create_file
<1>2. PICK t : t = fat12_allocate(size)
  OBVIOUS
<1>3. PICK e : e = [name |-> name, first |-> Taken(size)[1], size |-> size]
  OBVIOUS
<1>a. e.name # <<>> /\ e.size = size /\ e.first = Taken(size)[1]
  BY <1>3, NameNotEmpty
<1>4. PICK i \in Slots : i = FirstOf(EmptySlots) /\ root_dir[i].name = <<>>
  BY <1>0, EmptySlot
<1>g. /\ diskDir[i].name = <<>> /\ \A s \in saved : s.slot # i
      /\ \A j \in Slots : root_dir[j].name = <<>> => diskDir[j].name = <<>>
  BY <1>0, <1>4, GivenSlot
<1>5. /\ fat12_table' = t /\ saving' = i /\ root_dir' = [root_dir EXCEPT ![i] = e]
      /\ diskFat' = diskFat /\ diskDir' = diskDir /\ data' = data
      /\ saved' = saved /\ mounted' = mounted /\ torn' = torn
  BY <1>2, <1>3, <1>4 DEF create_file, diskVars
<1>6. /\ e \in Files /\ Clustered(e.first) /\ Owns(t, e.first, Taken(size))
      /\ Len(Taken(size)) = Needed(size) /\ Exact(t, e)
  BY <1>0, <1>2, <1>3, NewFile
<1>8. root_dir'[i] = e /\ \A j \in Slots : j # i => root_dir'[j] = root_dir[j]
  <2>1. root_dir \in Dirs
    BY TypedDirs
  <2> QED BY <1>5, <2>1 DEF Dirs
<1>9. ASSUME NEW s \in saved PROVE Kept(s)'
  <2>1. Kept(s)
    BY DEF AllKept
  <2>2. s.slot \in Slots /\ diskDir[s.slot] \in Files
    BY SavedType
  <2>3. root_dir[s.slot] = diskDir[s.slot]
    BY <2>1 DEF Kept
  <2>4. s.slot # i
    BY <1>g
  <2>5. Same(fat12_table, t, diskDir[s.slot].first)
    BY <1>0, <1>2, <2>2, AllocateSame
  <2>6. ASSUME Clustered(diskDir[s.slot].first)
        PROVE  Holds(t, diskFat, data, diskDir[s.slot], s.number)
    BY <2>1, <2>2, <2>5, <2>6, HoldsFrame DEF Kept
  <2>7. root_dir'[s.slot] = diskDir[s.slot]
    BY <1>8, <2>2, <2>3, <2>4
  <2> QED BY <1>5, <2>1, <2>3, <2>4, <2>6, <2>7 DEF Kept
<1>10. PICK tk : tk = Taken(size)
  OBVIOUS
<1>11. PICK l \in Nat \ {0} : l = Needed(size) /\ size <= l
  BY <1>0, NeededType
<1>12. IsChain(t, tk[1], tk, l)
  BY <1>6, <1>a, <1>10, <1>11 DEF Owns
<1>13. Chain(t, tk[1]) = tk
  BY <1>12, ChainIs
<1>s. PICK n : n = saves'
  OBVIOUS
<1>15. PICK d : d = [k \in 1 .. size |-> Write("data", tk[k], <<n, k>>)]
  OBVIOUS
<1>14. todo' = WriteFile(tk, n, size)
  <2>1. todo' = WriteFile(Chain(fat12_table', Taken(size)[1]), saves', size)
    BY DEF create_file
  <2> QED BY <1>5, <1>10, <1>13, <1>s, <2>1
<1>16. todo' = d \o WriteFat \o WriteDir
  BY <1>14, <1>15, Zenon DEF WriteFile
<1>b. Into(d, "data") /\ Len(d) = size
  <2>1. Into(d, "data")
    BY <1>0, <1>15, SaveData
  <2>2. PICK W : W = {d[k] : k \in 1 .. size}
    OBVIOUS
  <2>3. d \in [1 .. size -> W]
    BY <1>15, <2>2
  <2>4. Len(d) = size
    BY <1>0, <2>3, FunctionIsSeq
  <2> QED BY <2>1, <2>4
<1>c. \A k \in 1 .. size : d[k] = Write("data", tk[k], <<n, k>>)
  BY <1>15
<1>17. /\ Into(d, "data") /\ Len(d) = size
       /\ \A k \in 1 .. size : d[k] = Write("data", tk[k], <<saves', k>>)
  BY <1>b, <1>c, <1>s
<1>18. DataOf(todo', d)
  BY <1>16, <1>17, SavePass
<1>19. ASSUME NEW ch, Owns(t, e.first, ch)
       PROVE  /\ \A p \in 1 .. Len(todo') : todo'[p].area = "data" =>
                   \E k \in 1 .. e.size : todo'[p] = Write("data", ch[k], <<saves', k>>)
              /\ \A k \in 1 .. e.size :
                   \E p \in 1 .. Len(todo') : todo'[p] = Write("data", ch[k], <<saves', k>>)
  <2>1. ch = tk
    BY <1>6, <1>10, <1>19, OwnsOne
  <2>2. ASSUME NEW p \in 1 .. Len(todo'), todo'[p].area = "data"
        PROVE  \E k \in 1 .. size : todo'[p] = Write("data", tk[k], <<saves', k>>)
    <3>1. PICK k \in 1 .. Len(d) : todo'[p] = d[k]
      BY <1>18, <2>2 DEF DataOf
    <3> QED BY <1>17, <3>1
  <2>3. ASSUME NEW k \in 1 .. size
        PROVE  \E p \in 1 .. Len(todo') : todo'[p] = Write("data", tk[k], <<saves', k>>)
    <3>1. \E p \in 1 .. Len(todo') : todo'[p] = d[k]
      BY <1>17, <1>18, <2>3 DEF DataOf
    <3> QED BY <1>17, <3>1
  <2> QED BY <1>a, <2>1, <2>2, <2>3
<1>20. Underway(e)'
  BY <1>5, <1>19 DEF Underway
<1>21. i # NONE /\ diskDir[i] # e
  BY <1>g, <1>a, SlotsNat
<1>22. Saving'
  <2>1. SavedAs(e)'
    BY <1>5, <1>6, <1>20, <1>21, <1>a DEF SavedAs
  <2>2. (root_dir[saving])' = e
    BY <1>5, <1>8
  <2> QED BY ZenonT(60), <2>1, <2>2 DEF Saving, SavedAs, Underway
<1>23. Wiping' /\ Unread' /\ EmptyKnown'
  BY <1>5, <1>8, <1>21, <1>a, <1>g DEF Wiping, Unread, EmptyKnown
<1> QED BY <1>5, <1>9, <1>22, <1>23 DEF AllKept

\* A file that gets no cluster, whatever fat12_allocate has done to the table.
LEMMA KeptWithout ==
    ASSUME Typed, AllKept, Idle, mounted, NEW i \in Slots, root_dir[i].name = <<>>,
           NEW e, e.first = NOWHERE, e.name # <<>>, NoData', hung' \/ e.size = 0,
           NEW size \in Nat, NEW t, t \in {fat12_table, fat12_allocate(size)},
           fat12_table' = t, root_dir' = [root_dir EXCEPT ![i] = e], saving' = i,
           diskFat' = diskFat, diskDir' = diskDir, data' = data, torn' = torn,
           saved' = saved, mounted' = mounted
    PROVE  AllKept'
<1>0. fat12_table \in Tables /\ root_dir \in Dirs
  BY TypedDirs
<1>g. /\ diskDir[i].name = <<>> /\ \A s \in saved : s.slot # i
      /\ \A j \in Slots : root_dir[j].name = <<>> => diskDir[j].name = <<>>
  BY GivenSlot
<1>8. root_dir'[i] = e /\ \A j \in Slots : j # i => root_dir'[j] = root_dir[j]
  BY <1>0 DEF Dirs
<1>9. ASSUME NEW s \in saved PROVE Kept(s)'
  <2>1. Kept(s)
    BY DEF AllKept
  <2>2. s.slot \in Slots /\ diskDir[s.slot] \in Files
    BY SavedType
  <2>3. root_dir[s.slot] = diskDir[s.slot]
    BY <2>1 DEF Kept
  <2>4. s.slot # i
    BY <1>g
  <2>5. Same(fat12_table, t, diskDir[s.slot].first)
    <3>1. CASE t = fat12_table
      BY <3>1 DEF Same
    <3>2. CASE t = fat12_allocate(size)
      BY <1>0, <2>2, <3>2, AllocateSame
    <3> QED BY <3>1, <3>2
  <2>6. ASSUME Clustered(diskDir[s.slot].first)
        PROVE  Holds(t, diskFat, data, diskDir[s.slot], s.number)
    BY <2>1, <2>2, <2>5, <2>6, HoldsFrame DEF Kept
  <2>7. root_dir'[s.slot] = diskDir[s.slot]
    BY <1>8, <2>2, <2>3, <2>4
  <2> QED BY <2>1, <2>3, <2>4, <2>6, <2>7 DEF Kept
<1>10. ~Clustered(e.first) /\ i # NONE /\ diskDir[i] # e
  BY <1>g, SlotsNat, Constants DEF Clustered
<1>11. Saving'
  <2>1. SavedAs(e)'
    BY <1>10 DEF SavedAs
  <2>2. root_dir'[saving'] = e
    BY <1>8
  <2> QED BY <2>1, <2>2, Zenon DEF Saving, SavedAs, Underway
<1>12. Wiping' /\ Unread' /\ EmptyKnown'
  BY <1>8, <1>10, <1>g DEF Wiping, Unread, EmptyKnown
<1> QED BY <1>9, <1>11, <1>12 DEF AllKept

LEMMA KeptNowhere ==
    ASSUME Typed, AllKept, NEW name \in Names, CreateNowhere(name), mounted
    PROVE  AllKept'
<1>0. Idle /\ EmptySlots # {} /\ 0 \in Nat
  BY DEF CreateNowhere
<1>3. PICK e : e = [name |-> name, first |-> NOWHERE, size |-> 0]
  OBVIOUS
<1>a. e.name # <<>> /\ e.first = NOWHERE /\ e.size = 0
  BY <1>3, NameNotEmpty
<1>4. PICK i \in Slots : i = FirstOf(EmptySlots) /\ root_dir[i].name = <<>>
  BY <1>0, EmptySlot
<1>5. /\ fat12_table' = fat12_table /\ saving' = i /\ root_dir' = [root_dir EXCEPT ![i] = e]
      /\ diskFat' = diskFat /\ diskDir' = diskDir /\ data' = data /\ torn' = torn
      /\ saved' = saved /\ mounted' = mounted /\ todo' = WriteFat \o WriteDir
  BY <1>3, <1>4 DEF CreateNowhere, diskVars
<1>6. PICK t : t = fat12_table
  OBVIOUS
<1>7. t \in {fat12_table, fat12_allocate(0)} /\ fat12_table' = t
  BY <1>5, <1>6
<1>16. todo' = <<>> \o WriteFat \o WriteDir
  <2>1. PICK W : WriteFat \in Seq(W)
    BY FatWrites DEF Into, IsSeq
  <2>2. <<>> \o WriteFat = WriteFat
    BY <2>1
  <2> QED BY <1>5, <2>2
<1>17. Into(<<>>, "data") /\ Len(<<>>) = 0
  BY NothingIsSeq DEF Into
<1>18. DataOf(todo', <<>>)
  BY <1>16, <1>17, SavePass
<1>19. NoData'
  BY <1>17, <1>18 DEF DataOf, NoData
<1> QED BY <1>0, <1>4, <1>5, <1>7, <1>19, <1>a, KeptWithout

LEMMA KeptHangs ==
    ASSUME Typed, AllKept, NEW name \in Names, NEW size \in Sizes, CreateHangs(name, size),
           mounted
    PROVE  AllKept'
<1>0. Idle /\ EmptySlots # {} /\ size \in Nat
  BY SizesNat DEF CreateHangs
<1>1. todo = <<>> /\ Len(todo) = 0
  BY <1>0, KeptAtRest
<1>3. PICK e : e = [name |-> name, first |-> NOWHERE, size |-> size]
  OBVIOUS
<1>a. e.name # <<>> /\ e.first = NOWHERE
  BY <1>3, NameNotEmpty
<1>4. PICK i \in Slots : i = FirstOf(EmptySlots) /\ root_dir[i].name = <<>>
  BY <1>0, EmptySlot
<1>5. /\ fat12_table' = fat12_allocate(size) /\ saving' = i
      /\ root_dir' = [root_dir EXCEPT ![i] = e]
      /\ diskFat' = diskFat /\ diskDir' = diskDir /\ data' = data /\ torn' = torn
      /\ saved' = saved /\ mounted' = mounted /\ todo' = todo /\ hung'
  BY <1>3, <1>4 DEF CreateHangs, diskVars
<1>6. PICK t : t = fat12_allocate(size)
  OBVIOUS
<1>7. t \in {fat12_table, fat12_allocate(size)} /\ fat12_table' = t
  BY <1>5, <1>6
<1>19. NoData'
  BY <1>1, <1>5 DEF NoData
<1> QED BY <1>0, <1>4, <1>5, <1>7, <1>19, <1>a, KeptWithout

LEMMA KeptNoSlot ==
    ASSUME Typed, AllKept, NEW size \in Sizes, CreateNoSlot(size)
    PROVE  AllKept'
<1>0. Idle /\ size \in Nat /\ fat12_table \in Tables
  BY SizesNat, TypedDirs DEF CreateNoSlot
<1>1. saving = NONE /\ todo = <<>> /\ Len(todo) = 0 /\ ~Deleting
  BY <1>0, KeptAtRest
<1>2. /\ fat12_table' = fat12_allocate(size) /\ root_dir' = root_dir
      /\ diskFat' = diskFat /\ diskDir' = diskDir /\ data' = data /\ torn' = torn
      /\ todo' = todo /\ saving' = saving /\ saved' = saved /\ mounted' = mounted
  BY DEF CreateNoSlot, diskVars, auxVars
<1>3. ASSUME NEW s \in saved PROVE Kept(s)'
  <2>1. Kept(s) /\ diskDir[s.slot] \in Files
    BY SavedType DEF AllKept
  <2>2. Same(fat12_table, fat12_table', diskDir[s.slot].first)
    BY <1>0, <1>2, <2>1, AllocateSame
  <2>3. ASSUME Clustered(diskDir[s.slot].first)
        PROVE  Holds(fat12_table', diskFat, data, diskDir[s.slot], s.number)
    BY <2>1, <2>2, <2>3, HoldsFrame DEF Kept
  <2> QED BY <1>2, <2>1, <2>3 DEF Kept
<1>4. Unread' /\ EmptyKnown'
  BY <1>1, <1>2 DEF AllKept, Unread, EmptyKnown
<1>5. Saving' /\ Wiping'
  BY <1>1, <1>2 DEF Saving, Wiping
<1> QED BY <1>2, <1>3, <1>4, <1>5 DEF AllKept

LEMMA KeptRead ==
    ASSUME Typed, AllKept, NEW name \in Names, read_file(name)
    PROVE  AllKept'
<1>0. Idle
  BY DEF read_file
<1>1. saving = NONE /\ todo = <<>> /\ Len(todo) = 0
  BY <1>0, KeptAtRest
<1>2. /\ fat12_table' = fat12_table /\ root_dir' = diskDir
      /\ diskFat' = diskFat /\ diskDir' = diskDir /\ data' = data /\ torn' = torn
      /\ todo' = todo /\ saving' = saving /\ saved' = saved /\ mounted' = TRUE
  BY DEF read_file, diskVars
<1>3. \A s \in saved : Kept(s)'
  BY <1>2 DEF AllKept, Kept
<1>4. Unread' /\ EmptyKnown'
  BY <1>2 DEF Unread, EmptyKnown
<1>5. Saving' /\ Wiping'
  BY <1>1, <1>2 DEF Saving, Wiping
<1> QED BY <1>2, <1>3, <1>4, <1>5 DEF AllKept

LEMMA KeptAbandon ==
    ASSUME Typed, AllKept, Abandon
    PROVE  AllKept'
<1>1. /\ saving # NONE /\ saving' = NONE /\ todo' = <<>>
      /\ fat12_table' = fat12_table /\ root_dir' = root_dir
      /\ diskFat' = diskFat /\ diskDir' = diskDir /\ data' = data /\ torn' = torn
      /\ saved' = saved /\ mounted' = mounted
  BY DEF Abandon, memVars, diskVars
<1>2. Len(todo') = 0 /\ ~Deleting
  BY <1>1, NothingIsSeq DEF Deleting
<1>3. ASSUME NEW s \in saved PROVE Kept(s)'
  <2>1. s.slot # NONE /\ Kept(s)
    BY SavedType, SlotsNat DEF AllKept
  <2> QED BY <1>1, <2>1 DEF Kept
<1>4. mounted
  BY <1>1 DEF AllKept, Unread, Typed, TypeOK
<1>5. Unread' /\ Saving' /\ Wiping' /\ EmptyKnown'
  BY <1>1, <1>2, <1>4 DEF Unread, Saving, Wiping, AllKept, EmptyKnown
<1> QED BY <1>1, <1>3, <1>5 DEF AllKept

LEMMA KeptReboot ==
    ASSUME Typed, AllKept, Reboot, ~stale'
    PROVE  AllKept'
<1>1. /\ fat12_table' = diskFat /\ diskFat' = diskFat /\ diskDir' = diskDir
      /\ data' = data /\ todo' = <<>> /\ saving' = NONE /\ mounted' = FALSE
      /\ saved' = saved /\ torn' = torn
  BY DEF Reboot, diskVars, Typed, TypeOK
<1>2. \A i \in Slots : root_dir'[i].first = UNSET
  BY NoFileType DEF Reboot
<1>3. Len(todo') = 0
  BY <1>1, NothingIsSeq
<1>4. ASSUME NEW s \in saved PROVE Kept(s)'
  <2>1. /\ Kept(s) /\ diskDir[s.slot] \in Files /\ s.slot # NONE
    BY SavedType, SlotsNat DEF AllKept
  <2>2. ASSUME Clustered(diskDir[s.slot].first)
        PROVE  Holds(diskFat, diskFat, data, diskDir[s.slot], s.number)
    <3>1. Holds(fat12_table, diskFat, data, diskDir[s.slot], s.number)
      BY <2>1, <2>2 DEF Kept
    <3>2. Same(fat12_table, diskFat, diskDir[s.slot].first)
      BY <3>1 DEF Holds
    <3> QED BY <2>1, <3>1, <3>2, HoldsFrame
  <2> QED BY <1>1, <2>1, <2>2 DEF Kept
<1>5. Unread' /\ Saving' /\ Wiping' /\ EmptyKnown'
  BY <1>1, <1>2, <1>3 DEF Unread, Saving, Wiping, EmptyKnown
<1> QED BY <1>1, <1>4, <1>5 DEF AllKept

LEMMA KeptDelete ==
    ASSUME Typed, Sound, AllKept, NEW name \in Names, delete_file(name), ~stale'
    PROVE  AllKept'
<1>0. Idle
  BY DEF delete_file
<1>1. saving = NONE /\ todo = <<>> /\ Len(todo) = 0 /\ ~Deleting
  BY <1>0, KeptAtRest
<1>2. /\ diskFat' = diskFat /\ diskDir' = diskDir /\ data' = data
      /\ saving' = saving /\ mounted' = mounted /\ torn' = torn
  BY DEF delete_file, diskVars
<1>3. CASE Refused
  <2>1. /\ fat12_table' = fat12_table /\ root_dir' = root_dir
        /\ todo' = todo /\ saved' = saved
    BY <1>3 DEF Refused
  <2>2. \A s \in saved : Kept(s)'
    BY <1>2, <2>1 DEF AllKept, Kept
  <2>3. Unread' /\ EmptyKnown'
    BY <1>1, <1>2, <2>1 DEF AllKept, Unread, EmptyKnown
  <2>4. Saving' /\ Wiping'
    BY <1>1, <1>2, <2>1 DEF Saving, Wiping
  <2> QED BY <2>1, <2>2, <2>3, <2>4 DEF AllKept
<1>4. ASSUME NEW i \in Slots, Removed(i) PROVE AllKept'
  <2>1. /\ Clustered(root_dir[i].first)
        /\ \A j \in Slots : j # i => root_dir'[j] = root_dir[j]
        /\ saved' = {s \in saved : s.slot # i}
        /\ \A x \in Clusters : fat12_table'[x] =
             IF On(fat12_table, root_dir[i].first, x) THEN FREE_ENTRY ELSE fat12_table[x]
    BY <1>4 DEF Removed
  <2>2. mounted
    BY <2>1, Constants DEF AllKept, Unread, Clustered, Typed, TypeOK
  <2>3. Separate(fat12_table, root_dir, root_dir)
    BY DEF Sound, MemorySound
  <2>4. ASSUME NEW s \in saved, s.slot # i PROVE Kept(s)'
    <3>1. /\ Kept(s) /\ diskDir[s.slot] \in Files /\ s.slot \in Slots
      BY SavedType DEF AllKept
    <3>2. root_dir[s.slot] = diskDir[s.slot]
      BY <2>2, <3>1 DEF Kept
    <3>3. root_dir'[s.slot] = diskDir[s.slot]
      BY <2>1, <2>4, <3>1, <3>2
    <3>4. ASSUME Clustered(diskDir[s.slot].first)
          PROVE  Holds(fat12_table', diskFat, data, diskDir[s.slot], s.number)
      <4>1. Holds(fat12_table, diskFat, data, diskDir[s.slot], s.number)
        BY <3>1, <3>4 DEF Kept
      <4>2. \A x : ~(On(fat12_table, root_dir[i].first, x) /\ On(fat12_table, diskDir[s.slot].first, x))
        BY <2>1, <2>3, <2>4, <3>1, <3>2, <3>4 DEF Separate
      <4>3. Same(fat12_table, fat12_table', diskDir[s.slot].first)
        BY <2>1, <4>2 DEF Same
      <4> QED BY <3>1, <4>1, <4>3, HoldsFrame
    <3> QED BY <1>2, <3>1, <3>3, <3>4 DEF Kept
  <2>5. PICK d : /\ todo' = d \o WriteDir \o WriteFat /\ Into(d, "data")
                 /\ \A l \in 1 .. Len(d) : \E x : On(fat12_table, root_dir[i].first, x)
                                                    /\ d[l] = Write("data", x, <<>>)
    BY <1>4 DEF Removed
  <2>6. DataOf(todo', d) /\ todo' # <<>>
    BY <2>5, WipePass
  <2>7. ASSUME NEW p \in 1 .. Len(todo'), todo'[p].area = "data"
        PROVE  todo'[p].at \in Clusters /\ fat12_table'[todo'[p].at] = FREE_ENTRY
    <3>1. PICK l \in 1 .. Len(d) : todo'[p] = d[l]
      BY <2>6, <2>7 DEF DataOf
    <3>2. PICK x : On(fat12_table, root_dir[i].first, x) /\ d[l] = Write("data", x, <<>>)
      BY <2>5, <3>1
    <3>3. todo'[p].at = x
      BY <3>1, <3>2 DEF Write
    <3>5. x \in Clusters
      BY <3>2, OnUsed
    <3> QED BY <2>1, <3>2, <3>3, <3>5
  <2>8. Wiping' /\ Saving' /\ Unread'
    BY <1>1, <1>2, <2>2, <2>7 DEF Wiping, Saving, Unread
  <2>9. EmptyKnown'
    BY <1>1, <1>2, <2>6 DEF EmptyKnown, Deleting
  <2> QED BY <2>1, <2>4, <2>8, <2>9 DEF AllKept
<1>5. MemorySound
  BY DEF Sound
<1> QED BY <1>3, <1>4, <1>5, DeleteDoes

LEMMA WriteFields ==
    ASSUME NEW a, NEW x, NEW y
    PROVE  Write(a, x, y).area = a /\ Write(a, x, y).at = x /\ Write(a, x, y).what = y
  BY DEF Write

\* The data area after a round of disk_streamer_write, and what is left to write.
LEMMA DataWritten ==
    ASSUME Typed, WriteSector
    PROVE  /\ \A x \in Clusters : todo[1].area = "data" /\ todo[1].at = x
                                    => data'[x] = todo[1].what
           /\ \A x \in Clusters : ~(todo[1].area = "data" /\ todo[1].at = x)
                                    => data'[x] = data[x]
           /\ Len(todo) \in Nat \ {0} /\ Len(todo') = Len(todo) - 1
           /\ \A p \in 1 .. Len(todo') : todo'[p] = todo[p + 1]
           /\ saves' = saves /\ fat12_table' = fat12_table
<1>1. todo # <<>> /\ IsSeq(todo) /\ todo' = Tail(todo)
  BY DEF Typed, WriteSector
<1>2. /\ Len(todo') = Len(todo) - 1 /\ Len(todo) \in Nat \ {0}
      /\ \A k \in 1 .. Len(todo) - 1 : todo'[k] = todo[k + 1]
      /\ Head(todo) = todo[1]
  BY <1>1, TailOf
<1>3. PICK w : w = todo[1] /\ w = Head(todo)
  BY <1>2
<1>4. DOMAIN data = Clusters
  BY DEF Typed, TypeOK
<1>5. data' = IF w.area = "data" THEN [data EXCEPT ![w.at] = w.what] ELSE data
  BY <1>3 DEF WriteSector
<1>6. \A x \in Clusters : w.area = "data" /\ w.at = x => data'[x] = w.what
  BY <1>4, <1>5
<1>7. \A x \in Clusters : ~(w.area = "data" /\ w.at = x) => data'[x] = data[x]
  BY <1>4, <1>5
<1>8. saves' = saves /\ fat12_table' = fat12_table
  BY DEF WriteSector, memVars
<1>9. \A p \in 1 .. Len(todo') : todo'[p] = todo[p + 1]
  BY <1>2
<1> QED BY <1>2, <1>3, <1>6, <1>7, <1>8, <1>9

LEMMA UnderwayWrite ==
    ASSUME Typed, WriteSector, NEW e \in Files, Exact(fat12_table, e), Underway(e)
    PROVE  Underway(e)'
<1>1. PICK w : w = todo[1]
  OBVIOUS
<1>2. /\ \A x \in Clusters : w.area = "data" /\ w.at = x => data'[x] = w.what
      /\ \A x \in Clusters : ~(w.area = "data" /\ w.at = x) => data'[x] = data[x]
  BY <1>1, DataWritten
<1>3. /\ Len(todo) \in Nat \ {0} /\ Len(todo') = Len(todo) - 1
      /\ \A p \in 1 .. Len(todo') : todo'[p] = todo[p + 1]
      /\ saves' = saves /\ fat12_table' = fat12_table
  BY DataWritten
<1>4. ASSUME NEW ch, Owns(fat12_table, e.first, ch)
      PROVE  /\ \A p \in 1 .. Len(todo') : todo'[p].area = "data" =>
                  \E k \in 1 .. e.size : todo'[p] = Write("data", ch[k], <<saves, k>>)
             /\ \A k \in 1 .. e.size :
                  \/ data'[ch[k]] = <<saves, k>>
                  \/ \E p \in 1 .. Len(todo') : todo'[p] = Write("data", ch[k], <<saves, k>>)
  <2>1. /\ \A p \in 1 .. Len(todo) : todo[p].area = "data" =>
             \E k \in 1 .. e.size : todo[p] = Write("data", ch[k], <<saves, k>>)
        /\ \A k \in 1 .. e.size :
             \/ data[ch[k]] = <<saves, k>>
             \/ \E p \in 1 .. Len(todo) : todo[p] = Write("data", ch[k], <<saves, k>>)
    BY <1>4 DEF Underway
  <2>2. PICK l \in Nat \ {0} : l = Needed(e.size) /\ e.size <= l /\ e.size \in Nat
    BY FileSize, NeededType
  <2>a. Len(ch) = l
    BY <1>4, <2>2 DEF Exact
  <2>3. IsChain(fat12_table, e.first, ch, l)
    BY <1>4, <2>a DEF Owns
  <2>4. \A j, k \in 1 .. l : j # k => ch[j] # ch[k]
    BY <2>3, ChainAscends
  <2>5. \A k \in 1 .. e.size : k \in 1 .. l /\ ch[k] \in Clusters
    BY <2>2, <2>3 DEF IsChain
  <2>6. ASSUME NEW p \in 1 .. Len(todo'), todo'[p].area = "data"
        PROVE  \E k \in 1 .. e.size : todo'[p] = Write("data", ch[k], <<saves, k>>)
    <3>1. p + 1 \in 1 .. Len(todo) /\ todo'[p] = todo[p + 1]
      BY <1>3
    <3> QED BY <2>1, <2>6, <3>1
  <2>7. ASSUME NEW k \in 1 .. e.size
        PROVE  \/ data'[ch[k]] = <<saves, k>>
               \/ \E p \in 1 .. Len(todo') : todo'[p] = Write("data", ch[k], <<saves, k>>)
    <3>1. PICK v : v = <<saves, k>>
      OBVIOUS
    <3>2. CASE data[ch[k]] = v
      <4>1. CASE w.area = "data" /\ w.at = ch[k]
        <5>0. 1 \in 1 .. Len(todo) /\ todo[1].area = "data"
          BY <1>1, <1>3, <4>1
        <5>a. \E j \in 1 .. e.size : todo[1] = Write("data", ch[j], <<saves, j>>)
          BY <2>1, <5>0, Zenon
        <5>1. PICK j \in 1 .. e.size : w = Write("data", ch[j], <<saves, j>>)
          BY <1>1, <5>a, Zenon
        <5>2. w.at = ch[j] /\ w.what = <<saves, j>>
          BY <5>1, WriteFields
        <5>3. j = k
          BY <2>4, <2>5, <4>1, <5>2
        <5>4. data'[ch[k]] = w.what
          BY <1>2, <2>5, <4>1
        <5> QED BY <5>2, <5>3, <5>4
      <4>2. CASE ~(w.area = "data" /\ w.at = ch[k])
        <5>1. data'[ch[k]] = data[ch[k]]
          BY <1>2, <2>5, <4>2
        <5> QED BY <3>1, <3>2, <5>1
      <4> QED BY <4>1, <4>2
    <3>3. ASSUME NEW p \in 1 .. Len(todo), todo[p] = Write("data", ch[k], v)
          PROVE  \/ data'[ch[k]] = v
                 \/ \E q \in 1 .. Len(todo') : todo'[q] = Write("data", ch[k], v)
      <4>1. CASE p = 1
        <5>1. w.area = "data" /\ w.at = ch[k] /\ w.what = v
          BY <1>1, <3>3, <4>1, WriteFields
        <5> QED BY <1>2, <2>5, <5>1
      <4>2. CASE p # 1
        <5>1. p - 1 \in 1 .. Len(todo') /\ (p - 1) + 1 = p
          BY <1>3, <4>2
        <5>2. todo'[p - 1] = todo[p]
          BY <1>3, <5>1
        <5> QED BY <3>3, <5>1, <5>2
      <4> QED BY <4>1, <4>2
    <3> QED BY <2>1, <2>7, <3>1, <3>2, <3>3
  <2> QED BY <2>6, <2>7
<1> QED BY <1>3, <1>4 DEF Underway

\* A sector of the data area belongs to the save under way or to no file.
LEMMA WrittenElsewhere ==
    ASSUME Typed, MemorySound, Saving, Wiping, todo # <<>>, todo[1].area = "data",
           NEW i \in Slots, Clustered(root_dir[i].first), i # saving
    PROVE  ~On(fat12_table, root_dir[i].first, todo[1].at)
<1>0. /\ 1 \in 1 .. Len(todo) /\ root_dir[i] \in Files
      /\ (saving # NONE => saving \in Slots /\ root_dir[saving] \in Files)
  <2>1. IsSeq(todo)
    BY TypedDirs
  <2>2. Len(todo) \in Nat \ {0}
    BY <2>1, TailOf
  <2> QED BY <2>2 DEF Typed, TypeOK
<1>1. CASE saving = NONE
  <2>1. fat12_table[todo[1].at] = FREE_ENTRY
    BY <1>0, <1>1 DEF Wiping
  <2> QED BY <1>0, <2>1, OnUsed
<1>2. CASE saving # NONE
  <2>1. PICK e \in Files : e = root_dir[saving]
    BY <1>0, <1>2
  <2>2. Clustered(e.first)
    BY <1>0, <1>2, <2>1 DEF Saving, SavedAs, NoData
  <2>3. Underway(e) /\ Exact(fat12_table, e) /\ Linked(fat12_table, e.first)
    BY <1>0, <1>2, <2>1, <2>2 DEF Saving, SavedAs, MemorySound, AllLinked
  <2>4. PICK ch : Owns(fat12_table, e.first, ch)
    BY <2>3 DEF Linked
  <2>5. PICK k \in 1 .. e.size : todo[1] = Write("data", ch[k], <<saves, k>>)
    BY <1>0, <2>3, <2>4 DEF Underway
  <2>6. todo[1].at = ch[k]
    BY <2>5, WriteFields
  <2>7. PICK l \in Nat \ {0} : l = Needed(e.size) /\ e.size <= l /\ e.size \in Nat
    BY FileSize, NeededType
  <2>a. Len(ch) = l
    BY <2>3, <2>4, <2>7 DEF Exact
  <2>8. k \in 1 .. Len(ch)
    BY <2>5, <2>7, <2>a
  <2>9. On(fat12_table, e.first, todo[1].at)
    BY <2>4, <2>6, <2>8 DEF On
  <2> QED BY <1>0, <1>2, <2>1, <2>2, <2>9 DEF MemorySound, Separate
<1> QED BY <1>1, <1>2

\* When the last sector is written the disk is what the memory is.
LEMMA AllWritten ==
    ASSUME Typed, Typed', Progress', todo' = <<>>
    PROVE  /\ \A c \in Clusters : diskFat'[c] = fat12_table'[c]
           /\ diskDir' = root_dir'
<1>1. \A x, y : ~Pending(todo', x, y)
  BY NoWritesLeft
<1>2. \A c \in Clusters : diskFat'[c] = fat12_table'[c]
  BY <1>1 DEF Progress
<1>3. \A i \in Slots : /\ diskDir'[i].name = root_dir'[i].name
                       /\ diskDir'[i].first = root_dir'[i].first
                       /\ diskDir'[i].size = root_dir'[i].size
  BY <1>1 DEF Progress, DirSector
<1>4. root_dir' \in Dirs /\ diskDir' \in Dirs
  BY DEF Typed, TypeOK, Dirs
<1>5. diskDir' = root_dir'
  BY <1>3, <1>4, DirsEqual
<1> QED BY <1>2, <1>5

LEMMA EmptyWrite ==
    ASSUME Typed, Typed', Sound, EmptyKnown, WriteSector
    PROVE  EmptyKnown'
<1> SUFFICES ASSUME mounted', ~Deleting', NEW i \in Slots, root_dir'[i].name = <<>>
             PROVE  diskDir'[i].name = <<>>
  BY DEF EmptyKnown
<1>0. todo # <<>> /\ Progress
  BY DEF WriteSector, Sound
<1>1. Progress' /\ root_dir' = root_dir
  BY <1>0, SectorWritten
<1>2. CASE todo' = <<>>
  BY <1>1, <1>2, AllWritten
<1>3. CASE todo' # <<>>
  <2>0. Len(todo) # 1
    BY <1>0, <1>3, SectorWritten
  <2>1. saving' = saving /\ mounted' = mounted
    BY <2>0 DEF WriteSector
  <2>2. ~Deleting
    BY <1>0, <1>3, <2>1 DEF Deleting
  <2>3. diskDir[i].name = <<>>
    BY <1>1, <2>1, <2>2 DEF EmptyKnown
  <2>4. diskDir'[i].name \in {root_dir[i].name, diskDir[i].name}
    BY EntryWritten
  <2> QED BY <1>1, <2>3, <2>4
<1> QED BY <1>2, <1>3

LEMMA KeptWrite ==
    ASSUME Typed, Typed', Sound, AllKept, WriteSector
    PROVE  AllKept'
<1>0. todo # <<>> /\ Progress /\ mounted /\ MemorySound /\ ~hung
  BY DEF WriteSector, Sound, AllKept, Unread, Typed, TypeOK
<1>1. /\ Progress'
      /\ \A c \in Clusters : diskFat'[c] \in {diskFat[c], fat12_table[c]}
      /\ Len(todo) \in Nat \ {0} /\ Len(todo') = Len(todo) - 1
      /\ Len(todo) = 1 <=> todo' = <<>>
      /\ fat12_table' = fat12_table /\ root_dir' = root_dir /\ hung' = hung
  BY <1>0, SectorWritten
<1>2. /\ mounted' = mounted /\ saves' = saves
      /\ (Len(todo) = 1 /\ saving # NONE =>
            saved' = saved \cup {[slot |-> saving, number |-> saves]} /\ saving' = NONE)
      /\ (~(Len(todo) = 1 /\ saving # NONE) => saved' = saved /\ saving' = saving)
  BY DEF WriteSector
<1>3. \A p \in 1 .. Len(todo') : todo'[p] = todo[p + 1] /\ p + 1 \in 1 .. Len(todo)
  BY <1>1, DataWritten
<1>4. Saving /\ Wiping /\ EmptyKnown
  BY DEF AllKept
<1>e. EmptyKnown'
  BY <1>4, EmptyWrite
<1>5. ASSUME NEW s \in saved PROVE Kept(s)'
  <2>1. Kept(s) /\ s.slot \in Slots /\ diskDir[s.slot] \in Files
    BY SavedType DEF AllKept
  <2>2. /\ root_dir[s.slot] = diskDir[s.slot] /\ s.slot # saving
        /\ s.slot \notin torn /\ diskDir[s.slot].name # <<>>
    BY <1>0, <2>1 DEF Kept
  <2>3. PICK e \in Files : e = diskDir[s.slot] /\ e = root_dir[s.slot]
    BY <2>1, <2>2
  <2>4. diskDir'[s.slot] = e /\ s.slot \notin torn'
    BY <2>1, <2>2, <2>3, EntryWritten
  <2>5. ASSUME Clustered(e.first) PROVE Holds(fat12_table, diskFat', data', e, s.number)
    <3>1. Holds(fat12_table, diskFat, data, e, s.number)
      BY <2>1, <2>3, <2>5 DEF Kept
    <3>2. Same(fat12_table, diskFat', e.first)
      BY <1>1, <3>1 DEF Holds, Same
    <3>3. ASSUME NEW x, On(fat12_table, e.first, x) PROVE data'[x] = data[x]
      <4>1. x \in Clusters
        BY <3>3, OnUsed
      <4>2. ~(todo[1].area = "data" /\ todo[1].at = x)
        BY <1>0, <1>4, <2>1, <2>2, <2>3, <2>5, <3>3, WrittenElsewhere
      <4> QED BY <4>1, <4>2, DataWritten
    <3>4. ASSUME NEW ch, Owns(fat12_table, e.first, ch), NEW k \in 1 .. e.size
          PROVE  data'[ch[k]] = data[ch[k]]
      <4>1. PICK l \in Nat \ {0} : l = Needed(e.size) /\ e.size <= l /\ e.size \in Nat
        BY FileSize, NeededType
      <4>a. Len(ch) = l
        BY <3>1, <3>4, <4>1 DEF Holds, Exact
      <4>2. k \in 1 .. Len(ch)
        BY <3>4, <4>1, <4>a
      <4>3. On(fat12_table, e.first, ch[k])
        BY <3>4, <4>2 DEF On
      <4> QED BY <3>3, <4>3
    <3>5. Written(fat12_table, data', e, s.number)
      BY <3>1, <3>4 DEF Holds, Written
    <3> QED BY <3>1, <3>2, <3>5 DEF Holds
  <2>6. s.slot # saving'
    BY <1>2, <2>1, <2>2, SlotsNat
  <2>7. ~Clustered(e.first) => e.size = 0
    BY <2>1, <2>3 DEF Kept
  <2> QED BY <1>1, <2>2, <2>3, <2>4, <2>5, <2>6, <2>7 DEF Kept
<1>6. CASE Len(todo) = 1 /\ saving # NONE
  <2>1. PICK s : s = [slot |-> saving, number |-> saves]
    OBVIOUS
  <2>2. saved' = saved \cup {s} /\ saving' = NONE /\ s.slot = saving /\ s.number = saves
    BY <1>2, <1>6, <2>1
  <2>3. saving \in Slots
    BY <1>6 DEF Typed, TypeOK
  <2>4. PICK e \in Files : e = root_dir[saving]
    BY <2>3, TypedDirs DEF Dirs
  <2>5. todo' = <<>> /\ Len(todo') = 0
    BY <1>1, <1>6
  <2>6. /\ \A c \in Clusters : diskFat'[c] = fat12_table[c]
        /\ diskDir' = root_dir
    BY <1>1, <2>5, AllWritten
  <2>s. SavedAs(e)
    BY <1>4, <1>6, <2>4 DEF Saving
  <2>7. diskDir'[saving] = e /\ e.name # <<>> /\ (~Clustered(e.first) => e.size = 0)
    BY <1>0, <2>4, <2>6, <2>s DEF SavedAs
  <2>t. saving \notin torn'
    <3>1. CASE diskDir'[saving] = diskDir[saving]
      <4>1. saving \notin torn
        BY <2>7, <2>s, <3>1 DEF SavedAs
      <4> QED BY <2>3, <3>1, <4>1, EntryWritten
    <3>2. CASE diskDir'[saving] # diskDir[saving]
      BY <2>3, <2>4, <2>7, <3>2, EntryWritten
    <3> QED BY <3>1, <3>2
  <2>8. ASSUME Clustered(e.first) PROVE Holds(fat12_table, diskFat', data', e, saves)
    <3>1. Underway(e) /\ Exact(fat12_table, e) /\ Linked(fat12_table, e.first)
      BY <1>0, <2>3, <2>4, <2>8, <2>s DEF SavedAs, MemorySound, AllLinked
    <3>2. Underway(e)'
      BY <3>1, UnderwayWrite
    <3>3. ASSUME NEW ch, Owns(fat12_table, e.first, ch), NEW k \in 1 .. e.size
          PROVE  data'[ch[k]] = <<saves, k>>
      <4>1. Owns(fat12_table', e.first, ch)
        BY <1>1, <3>3
      <4>2. \/ data'[ch[k]] = <<saves', k>>
            \/ \E p \in 1 .. Len(todo') : todo'[p] = Write("data", ch[k], <<saves', k>>)
        BY <3>2, <3>3, <4>1, Zenon DEF Underway
      <4>3. \A p : p \notin 1 .. Len(todo')
        BY <2>5
      <4>4. data'[ch[k]] = <<saves', k>>
        BY <4>2, <4>3, Zenon
      <4> QED BY <1>2, <4>4
    <3>4. Written(fat12_table, data', e, saves)
      BY <3>3 DEF Written
    <3>5. Same(fat12_table, diskFat', e.first)
      BY <2>6 DEF Same
    <3> QED BY <3>1, <3>4, <3>5 DEF Holds
  <2>9. Kept(s)'
    BY <1>1, <1>6, <2>2, <2>4, <2>7, <2>8, <2>t DEF Kept
  <2>10. Saving' /\ Wiping' /\ Unread'
    BY <1>0, <1>2, <2>2, <2>5 DEF Saving, Wiping, Unread
  <2> QED BY <1>5, <1>e, <2>2, <2>9, <2>10 DEF AllKept
<1>7. CASE ~(Len(todo) = 1 /\ saving # NONE)
  <2>1. saved' = saved /\ saving' = saving
    BY <1>2, <1>7
  <2>2. Wiping'
    BY <1>1, <1>3, <1>4, <2>1 DEF Wiping
  <2>3. ASSUME saving # NONE PROVE Saving'
    <3>1. saving \in Slots
      BY <2>3 DEF Typed, TypeOK
    <3>2. PICK e \in Files : e = root_dir[saving]
      BY <3>1, TypedDirs DEF Dirs
    <3>3. SavedAs(e)
      BY <1>4, <2>3, <3>2 DEF Saving
    <3>4. Clustered(e.first) => Exact(fat12_table, e)' /\ Underway(e)'
      BY <1>1, <3>3, UnderwayWrite DEF SavedAs, Exact
    <3>5. NoData => NoData'
      BY <1>3 DEF NoData
    <3>6. root_dir'[saving'] = e
      BY <1>1, <2>1, <3>2
    <3>7. saving \in torn' => diskDir'[saving] # e
      <4>1. CASE diskDir'[saving] = diskDir[saving]
        BY <3>1, <3>3, <4>1, EntryWritten DEF SavedAs
      <4>2. CASE diskDir'[saving] # diskDir[saving]
        BY <3>1, <3>2, <4>2, EntryWritten
      <4> QED BY <4>1, <4>2
    <3>8. SavedAs(e)'
      BY <1>1, <2>1, <3>3, <3>4, <3>5, <3>7 DEF SavedAs
    <3> QED BY <3>6, <3>8 DEF Saving, SavedAs, Underway
  <2>4. Saving'
    BY <2>1, <2>3 DEF Saving
  <2>5. Unread'
    BY <1>0, <1>2 DEF Unread
  <2> QED BY <1>5, <1>e, <2>1, <2>2, <2>4, <2>5 DEF AllKept
<1> QED BY <1>6, <1>7

LEMMA BlindStays ==
    ASSUME Typed, Next, ~blind' PROVE ~blind
  BY DEF Next, WriteSector, create_file, CreateNoSlot, CreateHangs, CreateNowhere,
         read_file, delete_file, Abandon, Reboot, auxVars, Typed, TypeOK

LEMMA KeepsNext ==
    ASSUME Typed, Typed', Consistent, Keeps, [Next]_vars PROVE Keeps'
<1> SUFFICES ASSUME ~stale', ~blind' PROVE AllKept'
  BY DEF Keeps
<1>1. CASE Next
  <2>1. Sound /\ AllKept
    BY <1>1, StaleStays, BlindStays DEF Consistent, Keeps
  <2>2. ASSUME NEW name \in Names, NEW size \in Sizes, create_file(name, size)
        PROVE  AllKept'
    <3>1. mounted
      BY <2>2 DEF create_file, Typed, TypeOK
    <3> QED BY <2>1, <2>2, <3>1, KeptCreate
  <2>3. ASSUME NEW name \in Names, CreateNowhere(name) PROVE AllKept'
    <3>1. mounted
      BY <2>3 DEF CreateNowhere, Typed, TypeOK
    <3> QED BY <2>1, <2>3, <3>1, KeptNowhere
  <2>4. ASSUME NEW name \in Names, NEW size \in Sizes, CreateHangs(name, size)
        PROVE  AllKept'
    <3>1. mounted
      BY <2>4 DEF CreateHangs, Typed, TypeOK
    <3> QED BY <2>1, <2>4, <3>1, KeptHangs
  <2> QED BY <1>1, <2>1, <2>2, <2>3, <2>4, KeptWrite, KeptNoSlot, KeptRead, KeptDelete,
             KeptAbandon, KeptReboot DEF Next
<1>2. CASE UNCHANGED vars
  <2>1. AllKept
    BY <1>2 DEF vars, auxVars, Keeps
  <2> QED BY <1>2, <2>1 DEF vars, memVars, diskVars, auxVars, AllKept, Kept, Saving, SavedAs,
                            Underway, NoData, Wiping, Unread, EmptyKnown, Deleting
<1> QED BY <1>1, <1>2

\* What create_file has saved keeps its entry, whole, and its content on the disk
\* until delete_file is called for it, whatever else is saved or deleted and
\* wherever the power fails, inside an entry or not.
THEOREM SavedFilesDurable == Spec => []Durable
<1>1. Init => Typed /\ Consistent /\ Keeps
  BY TypedInit, ConsistentInit, KeptInit
<1>2. Typed /\ Consistent /\ Keeps /\ [Next]_vars => (Typed /\ Consistent /\ Keeps)'
  BY TypedNext, ConsistentNext, KeepsNext
<1>3. Typed /\ Keeps => Durable
  BY KeptDurable
<1> QED BY <1>1, <1>2, <1>3, PTL DEF Spec

-----------------------------------------------------------------------------
(* What read_file shows.                                                    *)

\* What is shown of save number n of a file.
Shown(size, n) == [k \in 1 .. IF size = 0 THEN 0 ELSE 1 |-> <<n, k>>]

LEMMA HeldShown ==
    ASSUME NEW dir, NEW i, NEW u, NEW n, NEW e \in Files, e = dir[i],
           Holds(fat12_table, u, data, e, n)
    PROVE  Content(dir, i) = Shown(e.size, n)
<1>1. PICK ch : ch = Chain(fat12_table, e.first)
  OBVIOUS
<1>2. e.size \in Nat
  BY FileSize
<1>3. Len(ch) = Needed(e.size)
  BY <1>1, HeldContent
<1>4. PICK l \in Nat : l = IF e.size = 0 THEN 0 ELSE 1
  OBVIOUS
<1>5. TextEnd(ch, e.size) = l
  BY <1>2, <1>3, <1>4 DEF TextEnd, Needed
<1>6. Content(dir, i) = [k \in 1 .. l |->
                           IF Sector(ch, k) \in Clusters THEN data[Sector(ch, k)] ELSE <<>>]
  BY <1>1, <1>5, Zenon DEF Content
<1>7. Shown(e.size, n) = [k \in 1 .. l |-> <<n, k>>]
  BY <1>4, Zenon DEF Shown
<1>8. ASSUME NEW k \in 1 .. l
      PROVE  (IF Sector(ch, k) \in Clusters THEN data[Sector(ch, k)] ELSE <<>>) = <<n, k>>
  <2>1. k \in 1 .. e.size /\ k <= Len(ch)
    BY <1>2, <1>3, <1>4 DEF Needed
  <2>a. ch[k] \in Clusters /\ Chain(u, e.first) = ch
    BY <1>1, <2>1, HeldContent
  <2>b. Intact(u, data, e, n)
    BY HeldSector
  <2>2. ch[k] \in Clusters /\ data[ch[k]] = <<n, k>>
    BY <2>1, <2>a, <2>b DEF Intact
  <2>3. Sector(ch, k) = ch[k]
    BY <2>1 DEF Sector
  <2> QED BY <2>2, <2>3
<1> QED BY <1>6, <1>7, <1>8, Zenon

\* A file without a cluster, if it shows anything, shows nothing.
LEMMA NothingShown == ASSUME NEW n PROVE Shown(0, n) = <<>>
<1>1. Shown(0, n) = [k \in 1 .. 0 |-> <<n, k>>]
  BY DEF Shown
<1> QED BY <1>1

LEMMA ShownKept ==
    ASSUME Typed, AllKept, Next, shown' # shown, NEW s \in saved, s.slot = shown'.slot
    PROVE  shown'.content = Shown(diskDir[s.slot].size, s.number)
<1>1. CASE Reboot
  <2>1. shown'.slot = NONE
    BY <1>1 DEF Reboot
  <2> QED BY <2>1, SavedType, SlotsNat
<1>2. ASSUME NEW name \in Names, read_file(name)
      PROVE  shown'.content = Shown(diskDir[s.slot].size, s.number)
  <2>1. PICK i : \/ /\ Ends(fat12_table, diskDir[i].first)
                    /\ shown' = [slot |-> i, content |-> Content(diskDir, i)]
                 \/ /\ diskDir[i].size = 0
                    /\ shown' = [slot |-> i, content |-> <<>>]
    BY <1>2 DEF read_file
  <2>2. shown'.slot = i
    BY <2>1
  <2>3. PICK e \in Files : e = diskDir[i] /\ s.slot = i
    BY <2>2, SavedType
  <2>4. Kept(s)
    BY DEF AllKept
  <2>5. CASE Ends(fat12_table, e.first) /\ shown' = [slot |-> i, content |-> Content(diskDir, i)]
    <3>1. PICK n : n = s.number
      OBVIOUS
    <3>2. Clustered(e.first)
      BY <2>5 DEF Ends, Clustered
    <3>3. Holds(fat12_table, diskFat, data, e, n)
      BY <2>3, <2>4, <3>1, <3>2 DEF Kept
    <3>4. Content(diskDir, i) = Shown(e.size, n)
      BY <2>3, <3>3, HeldShown
    <3> QED BY <2>3, <2>5, <3>1, <3>4
  <2>6. CASE e.size = 0 /\ shown' = [slot |-> i, content |-> <<>>]
    BY <2>3, <2>6, NothingShown
  <2> QED BY <2>1, <2>3, <2>5, <2>6
<1>3. CASE WriteSector \/ Abandon
  BY <1>3 DEF WriteSector, Abandon
<1>4. ASSUME NEW name \in Names, NEW size \in Sizes,
             create_file(name, size) \/ CreateHangs(name, size)
      PROVE  FALSE
  BY <1>4 DEF create_file, CreateHangs
<1>5. ASSUME NEW size \in Sizes, CreateNoSlot(size) PROVE FALSE
  BY <1>5 DEF CreateNoSlot
<1>6. ASSUME NEW name \in Names, CreateNowhere(name) \/ delete_file(name) PROVE FALSE
  BY <1>6 DEF CreateNowhere, delete_file
<1> QED BY <1>1, <1>2, <1>3, <1>4, <1>5, <1>6 DEF Next

\* read_file shows what the last save into the slot has written, before and
\* after boots: nothing of an empty file, and otherwise the first sector, which
\* is the whole of a file of one sector and where the text of a longer one is cut.
THEOREM ReadShowsSaved == Spec => ReadsBack
<1>1. Init => Typed /\ Consistent /\ Keeps
  BY TypedInit, ConsistentInit, KeptInit
<1>2. Typed /\ Consistent /\ Keeps /\ [Next]_vars => (Typed /\ Consistent /\ Keeps)'
  BY TypedNext, ConsistentNext, KeepsNext
<1>3. ASSUME Typed, Keeps, [Next]_vars
      PROVE  [~stale /\ ~blind /\ shown' # shown =>
                \A s \in saved : s.slot = shown'.slot =>
                    shown'.content = [k \in 1 .. IF diskDir[s.slot].size = 0 THEN 0 ELSE 1 |->
                                        <<s.number, k>>]]_vars
  <2> SUFFICES ASSUME Next, ~stale, ~blind, shown' # shown, NEW s \in saved,
                      s.slot = shown'.slot
               PROVE  shown'.content = [k \in 1 .. IF diskDir[s.slot].size = 0 THEN 0 ELSE 1 |->
                                          <<s.number, k>>]
    BY <1>3, Zenon
  <2>1. AllKept
    BY <1>3 DEF Keeps
  <2>2. shown'.content = Shown(diskDir[s.slot].size, s.number)
    BY <1>3, <2>1, ShownKept
  <2> QED BY <2>2, Zenon DEF Shown
<1> QED BY <1>1, <1>2, <1>3, PTL DEF Spec, ReadsBack
=============================================================================
