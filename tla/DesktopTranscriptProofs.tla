----------------------- MODULE DesktopTranscriptProofs -----------------------
(***************************************************************************)
(* What holds of DesktopTranscript for any messages, pages and faults: its *)
(* types, that no message is shown twice, and that the stored cursor of    *)
(* the feed never passes a change the transcript shows the old form of.    *)
(***************************************************************************)
EXTENDS DesktopTranscript, TLAPS, FiniteSetTheorems, WellFoundedInduction

-----------------------------------------------------------------------------
(* Induction over numbers, and functions defined by recursion over them.   *)

LEMMA Minimum ==
  ASSUME NEW T, T \subseteq Nat, T # {}
  PROVE  \E n \in T : \A m \in T : ~ (m < n)
<1> DEFINE R == OpToRel(<, Nat)
<1>1. IsWellFoundedOn(R, Nat)
  BY NatLessThanWellFounded
<1>2. PICK x \in T : \A y \in T : ~ (<<y, x>> \in R)
  <2> HIDE DEF R
  <2> QED BY <1>1, WFMin
<1>3. \A y \in T : ~ (y < x)
  BY <1>2 DEF OpToRel
<1> QED BY <1>3

LEMMA UpTo ==
  ASSUME NEW n \in Nat, NEW S, 0 \in S, \A i \in 1..n : i - 1 \in S => i \in S
  PROVE  0..n \subseteq S
<1> DEFINE T == (0..n) \ S
<1>1. SUFFICES ASSUME T # {} PROVE FALSE
  OBVIOUS
<1>2. T \subseteq Nat
  OBVIOUS
<1> HIDE DEF T
<1>3. PICK k \in T : \A m \in T : ~ (m < k)
  BY <1>1, <1>2, Minimum
<1> USE DEF T
<1>4. k \in 1..n /\ k - 1 \in 0..n /\ k - 1 < k
  BY <1>3
<1>5. k - 1 \in S
  BY <1>3, <1>4
<1> QED BY <1>3, <1>4, <1>5

\* A function into D each of whose values is made of the one before.
Recurs(f, n, D, base, g) ==
  /\ f \in [0..n -> D]
  /\ f[0] = base
  /\ \A i \in 1..n : f[i] = g[i][f[i - 1]]

LEMMA Recursion ==
  ASSUME NEW n \in Nat, NEW D, NEW base \in D, NEW g \in [1..n -> [D -> D]]
  PROVE  \E f : Recurs(f, n, D, base, g)
<1> DEFINE S == {k \in 0..n : \E f : Recurs(f, k, D, base, g)}
<1>1. 0 \in S
  <2> DEFINE f == [i \in 0..0 |-> base]
  <2>1. Recurs(f, 0, D, base, g)
    BY DEF Recurs
  <2> QED BY <2>1
<1>2. ASSUME NEW k \in 1..n, k - 1 \in S PROVE k \in S
  <2>1. PICK f : Recurs(f, k - 1, D, base, g)
    BY <1>2
  <2>2. f \in [0..k - 1 -> D]
    BY <2>1 DEF Recurs
  <2> DEFINE h == [i \in 0..k |-> IF i = k THEN g[k][f[k - 1]] ELSE f[i]]
  <2>3. \A i \in 0..k : i # k => i \in 0..k - 1 /\ (i # 0 => i - 1 \in 0..k - 1)
    OBVIOUS
  <2>4. g[k][f[k - 1]] \in D
    BY <2>2
  <2>5. h \in [0..k -> D]
    BY <2>2, <2>3, <2>4
  <2>6. h[k] = g[k][h[k - 1]]
    OBVIOUS
  <2>7. \A i \in 1..k - 1 : h[i] = g[i][h[i - 1]]
    BY <2>1, <2>3 DEF Recurs
  <2>8. h[0] = base
    BY <2>1 DEF Recurs
  <2>9. \A i \in 1..k : i = k \/ i \in 1..k - 1
    OBVIOUS
  <2> HIDE DEF h
  <2>10. Recurs(h, k, D, base, g)
    BY <2>5, <2>6, <2>7, <2>8, <2>9 DEF Recurs
  <2> QED BY <2>10
<1> HIDE DEF S
<1>3. \A k \in 1..n : k - 1 \in S => k \in S
  BY <1>2
<1>4. 0..n \subseteq S
  BY <1>1, <1>3, UpTo
<1>5. n \in S
  BY <1>4
<1> QED BY <1>5 DEF S

-----------------------------------------------------------------------------
(* The first and the last entry of a message in the log. *)

LEMMA CreatedFirst ==
  ASSUME log \in Seq(Msg), NEW m, Exists(m)
  PROVE  /\ Created(m) \in 1..Len(log)
         /\ log[Created(m)] = m
         /\ \A j \in 1..Created(m) - 1 : log[j] # m
<1> DEFINE T == {i \in 1..Len(log) : log[i] = m}
<1>1. PICK i \in T : \A j \in T : ~ (j < i)
  <2>1. T \subseteq Nat /\ T # {}
    BY DEF Exists
  <2> HIDE DEF T
  <2> QED BY <2>1, Minimum
<1>2. \A j \in 1..i - 1 : log[j] # m
  BY <1>1
<1> QED BY <1>1, <1>2 DEF Created

LEMMA VersionLast ==
  ASSUME log \in Seq(Msg), NEW m, Exists(m)
  PROVE  /\ Version(m) \in 1..Len(log)
         /\ \A i \in 1..Len(log) : log[i] = m => i <= Version(m)
<1> DEFINE n == Len(log)
           T == {k \in Nat : k < n /\ log[n - k] = m}
<1>1. T \subseteq Nat
  OBVIOUS
<1>2. T # {}
  <2>1. PICK i \in 1..n : log[i] = m
    BY DEF Exists
  <2>2. n - i \in T
    BY <2>1
  <2> QED BY <2>2
<1>3. PICK k \in T : \A j \in T : ~ (j < k)
  <2> HIDE DEF T
  <2> QED BY <1>1, <1>2, Minimum
<1>4. n - k \in 1..n /\ log[n - k] = m
  BY <1>3
<1>5. ASSUME NEW j \in n - k + 1..n, log[j] = m PROVE FALSE
  <2>1. n - j \in Nat /\ n - j < k /\ n - (n - j) = j
    BY <1>3
  <2>2. n - j \in T
    BY <1>5, <2>1
  <2> QED BY <1>3, <2>1, <2>2
<1>6. Version(m) \in 1..n /\ \A j \in Version(m) + 1..n : log[j] # m
  BY <1>4, <1>5 DEF Version, LastUpTo
<1>7. n \in Nat /\ Version(m) \in Nat
  BY <1>6
<1> HIDE DEF n
<1>8. \A i \in 1..n : i <= Version(m) \/ i \in Version(m) + 1..n
  BY <1>7
<1> QED BY <1>6, <1>8 DEF n

\* An entry added to the log makes a message of it, and moves no creation.
LEMMA FirstOf ==
  ASSUME NEW l \in Seq(Msg), NEW m, NEW i \in 1..Len(l), l[i] = m, \A j \in 1..i - 1 : l[j] # m
  PROVE  (CHOOSE k \in 1..Len(l) : l[k] = m /\ \A j \in 1..k - 1 : l[j] # m) = i
<1> DEFINE Is(k) == k \in 1..Len(l) /\ l[k] = m /\ \A j \in 1..k - 1 : l[j] # m
           c == CHOOSE k : Is(k)
<1>1. Is(i)
  OBVIOUS
<1>2. Is(c)
  BY <1>1, Zenon
<1> HIDE DEF c
<1>3. c = i
  <2>1. c \in 1..Len(l) /\ i \in 1..Len(l) /\ Len(l) \in Nat
    BY <1>2
  <2>2. ~ (c \in 1..i - 1) /\ ~ (i \in 1..c - 1)
    BY <1>1, <1>2
  <2> QED BY <2>1, <2>2
<1> QED BY <1>3 DEF c

LEMMA LogGrows ==
  ASSUME log \in Seq(Msg), NEW m \in Msg, log' = Append(log, m)
  PROVE  /\ Len(log') = Len(log) + 1 /\ log'[Len(log) + 1] = m
         /\ \A i \in 1..Len(log) : log'[i] = log[i]
         /\ \A x : Exists(x)' <=> Exists(x) \/ x = m
         /\ \A x : Exists(x) => Created(x)' = Created(x)
         /\ ~ Exists(m) => Created(m)' = Len(log) + 1
<1>1. /\ log' \in Seq(Msg) /\ Len(log) \in Nat
      /\ Len(log') = Len(log) + 1 /\ log'[Len(log) + 1] = m
      /\ \A i \in 1..Len(log) : log'[i] = log[i]
  OBVIOUS
<1>2. \A i \in 1..Len(log') : i = Len(log) + 1 \/ i \in 1..Len(log)
  BY <1>1
<1>3. Len(log) + 1 \in 1..Len(log') /\ \A i \in 1..Len(log) : i \in 1..Len(log')
  BY <1>1
<1>4. ASSUME NEW x PROVE Exists(x)' <=> Exists(x) \/ x = m
  BY <1>1, <1>2, <1>3 DEF Exists
<1>5. ASSUME NEW x, Exists(x) PROVE Created(x)' = Created(x)
  <2>1. Created(x) \in 1..Len(log) /\ log[Created(x)] = x
        /\ \A j \in 1..Created(x) - 1 : log[j] # x
    BY <1>5, CreatedFirst
  <2> DEFINE c == Created(x)
  <2> HIDE DEF c
  <2>2. c \in 1..Len(log) /\ log[c] = x /\ \A j \in 1..c - 1 : log[j] # x
    BY <2>1 DEF c
  <2>3. c \in 1..Len(log') /\ log'[c] = x /\ \A j \in 1..c - 1 : log'[j] # x
    <3>1. \A j \in 1..c - 1 : j \in 1..Len(log)
      BY <1>1, <2>2
    <3> QED BY <1>1, <1>3, <2>2, <3>1
  <2>4. (CHOOSE k \in 1..Len(log') : log'[k] = x /\ \A j \in 1..k - 1 : log'[j] # x) = c
    BY <1>1, <2>3, FirstOf
  <2> QED BY <2>4, Zenon DEF Created, c
<1>6. ASSUME ~ Exists(m) PROVE Created(m)' = Len(log) + 1
  <2> DEFINE c == Len(log) + 1
  <2>1. c \in 1..Len(log') /\ log'[c] = m /\ \A j \in 1..c - 1 : log'[j] # m
    <3>1. \A j \in 1..c - 1 : j \in 1..Len(log)
      BY <1>1
    <3> QED BY <1>1, <1>3, <1>6, <3>1 DEF Exists
  <2> HIDE DEF c
  <2>2. (CHOOSE k \in 1..Len(log') : log'[k] = m /\ \A j \in 1..k - 1 : log'[j] # m) = c
    BY <1>1, <2>1, FirstOf
  <2> QED BY <2>2, Zenon DEF Created, c
<1> QED BY <1>1, <1>4, <1>5, <1>6

LEMMA ServerRowGood ==
  ASSUME log \in Seq(Msg), Len(log) <= MaxLog, delivery \in [Msg -> 1..3],
         NEW m \in Msg, Exists(m)
  PROVE  ServerRow(m) \in Row /\ ServerRow(m).msg = m
<1>1. Created(m) \in 1..Len(log) /\ Version(m) \in 1..Len(log)
  BY CreatedFirst, VersionLast
<1>2. 2 * Created(m) \in Nat /\ Version(m) \in 0..MaxLog /\ delivery[m] \in -1..3
  BY <1>1, BoundAssumption
<1> QED BY <1>2 DEF ServerRow, Row

-----------------------------------------------------------------------------
(* Sequences of rows. *)

Distinct(rows) == \A i, j \in 1..Len(rows) : rows[i].msg = rows[j].msg => i = j
Single == {rows \in Seq(Row) : Distinct(rows)}
Known(rows) == \A i \in 1..Len(rows) : rows[i].id
Unrepeated(ms) == \A i, j \in 1..Len(ms) : ms[i] = ms[j] => i = j

LEMMA MergeKeeps ==
  ASSUME NEW list \in Single, NEW row \in Row
  PROVE  /\ mergeMessage(list, row) \in Single
         /\ \A q \in 1..Len(mergeMessage(list, row)) :
              \/ mergeMessage(list, row)[q] = row
              \/ \E j \in 1..Len(list) :
                   mergeMessage(list, row)[q] = list[j] /\ list[j].msg # row.msg
<1>1. list \in Seq(Row) /\ Distinct(list) /\ DOMAIN list = 1..Len(list)
  BY DEF Single
<1>2. CASE \E i \in DOMAIN list : sameMessage(list[i], row)
  <2>1. PICK i \in 1..Len(list) : list[i].msg = row.msg
    BY <1>1, <1>2 DEF sameMessage
  <2>2. \A j \in 1..Len(list) : list[j].msg = row.msg <=> j = i
    BY <1>1, <2>1 DEF Distinct
  <2>3. \A j \in 1..i - 1 : list[j].msg # row.msg
    BY <1>1, <2>2
  <2>4. mergeMessage(list, row) = [list EXCEPT ![i] = row]
    <3> DEFINE first == CHOOSE k \in DOMAIN list :
                 sameMessage(list[k], row) /\ \A j \in 1..k - 1 : ~ sameMessage(list[j], row)
    <3>1. first \in DOMAIN list /\ sameMessage(list[first], row)
      BY <1>1, <2>1, <2>3 DEF sameMessage
    <3>2. first = i
      BY <1>1, <2>2, <3>1 DEF sameMessage
    <3> HIDE DEF first
    <3>3. mergeMessage(list, row) = [list EXCEPT ![first] = row]
      BY <1>2 DEF mergeMessage, first
    <3> QED BY <3>2, <3>3
  <2> DEFINE new == [list EXCEPT ![i] = row]
  <2>5. new \in Seq(Row) /\ Len(new) = Len(list)
    BY <1>1
  <2>6. \A j \in 1..Len(list) : new[j].msg = list[j].msg /\ new[j] = IF j = i THEN row ELSE list[j]
    BY <1>1, <2>1
  <2> HIDE DEF new
  <2>7. Distinct(new)
    BY <1>1, <2>5, <2>6 DEF Distinct
  <2>8. mergeMessage(list, row) = new
    BY <2>4 DEF new
  <2> QED BY <2>2, <2>5, <2>6, <2>7, <2>8 DEF Single
<1>3. CASE ~ \E i \in DOMAIN list : sameMessage(list[i], row)
  <2>1. mergeMessage(list, row) = Append(list, row)
    BY <1>3 DEF mergeMessage
  <2>2. \A i \in 1..Len(list) : list[i].msg # row.msg
    BY <1>1, <1>3 DEF sameMessage
  <2> DEFINE new == Append(list, row)
  <2>3. new \in Seq(Row) /\ Len(new) = Len(list) + 1 /\ new[Len(list) + 1] = row
        /\ \A i \in 1..Len(list) : new[i] = list[i]
    BY <1>1
  <2> HIDE DEF new
  <2>4. Distinct(new)
    BY <1>1, <2>2, <2>3 DEF Distinct
  <2>5. mergeMessage(list, row) = new
    BY <2>1 DEF new
  <2>6. \A q \in 1..Len(new) : q = Len(list) + 1 \/ q \in 1..Len(list)
    BY <1>1, <2>3
  <2> QED BY <2>2, <2>3, <2>4, <2>5, <2>6 DEF Single
<1> QED BY <1>2, <1>3

\* The equation of MergeAll: what each of the rows makes of the list.
LEMMA MergeAllDef ==
  ASSUME NEW list \in Single, NEW rows \in Seq(Row)
  PROVE  \E at : /\ at[0] = list
                 /\ \A i \in 1..Len(rows) : at[i] = mergeMessage(at[i - 1], rows[i])
                 /\ MergeAll(list, rows) = at[Len(rows)]
<1> DEFINE n == Len(rows)
           g == [i \in 1..n |-> [l \in Single |-> mergeMessage(l, rows[i])]]
           Is(at) == at = [i \in 0..n |-> IF i = 0 THEN list ELSE mergeMessage(at[i - 1], rows[i])]
           made == CHOOSE at : Is(at)
<1>1. n \in Nat /\ \A i \in 1..n : rows[i] \in Row
  OBVIOUS
<1>2. g \in [1..n -> [Single -> Single]]
  BY <1>1, MergeKeeps
<1>3. \A i \in 1..n, l \in Single : g[i][l] = mergeMessage(l, rows[i])
  OBVIOUS
<1>4. MergeAll(list, rows) = made[n]
  BY DEF MergeAll
<1> HIDE DEF g, n
<1>5. PICK f : Recurs(f, n, Single, list, g)
  <2>1. n \in Nat
    BY <1>1
  <2> QED BY <1>2, <2>1, Recursion
<1>6. ASSUME NEW i \in 0..n PROVE f[i] = IF i = 0 THEN list ELSE mergeMessage(f[i - 1], rows[i])
  <2>1. CASE i = 0
    BY <1>5, <2>1 DEF Recurs
  <2>2. CASE i # 0
    <3>1. i \in 1..n /\ i - 1 \in 0..n
      BY <1>1, <2>2
    <3>2. f[i - 1] \in Single /\ f[i] = g[i][f[i - 1]]
      BY <1>5, <3>1 DEF Recurs
    <3> QED BY <1>3, <2>2, <3>1, <3>2
  <2> QED BY <2>1, <2>2
<1>7. Is(f)
  <2>1. f \in [0..n -> Single]
    BY <1>5 DEF Recurs
  <2> QED BY <1>6, <2>1
<1>8. Is(made)
  BY <1>7
<1> HIDE DEF made
<1>9. made[0] = list /\ \A i \in 1..n : made[i] = mergeMessage(made[i - 1], rows[i])
  BY <1>1, <1>8
<1> QED BY <1>4, <1>9 DEF n

\* new is old with each of the rows written into it.
Written(old, new, rows) ==
  \A k \in 1..Len(new) :
    \/ \E j \in 1..Len(rows) : new[k] = rows[j]
    \/ \E j \in 1..Len(old) : new[k] = old[j] /\ \A i \in 1..Len(rows) : rows[i].msg # old[j].msg

LEMMA MergeAllKeeps ==
  ASSUME NEW list \in Single, NEW rows \in Seq(Row)
  PROVE  MergeAll(list, rows) \in Single /\ Written(list, MergeAll(list, rows), rows)
<1> DEFINE n == Len(rows)
<1>1. n \in Nat /\ \A i \in 1..n : rows[i] \in Row
  OBVIOUS
<1>2. PICK at : /\ at[0] = list
                /\ \A i \in 1..n : at[i] = mergeMessage(at[i - 1], rows[i])
                /\ MergeAll(list, rows) = at[n]
  BY MergeAllDef
<1> DEFINE Good(l, k) ==
             \A q \in 1..Len(l) :
               \/ \E j \in 1..k : l[q] = rows[j]
               \/ \E j \in 1..Len(list) : l[q] = list[j] /\ \A i \in 1..k : rows[i].msg # list[j].msg
           S == {k \in 0..n : at[k] \in Single /\ Good(at[k], k)}
<1>3. 0 \in S
  <2>1. 0 \in 0..n /\ at[0] \in Single
    BY <1>1, <1>2
  <2>2. Good(list, 0)
    OBVIOUS
  <2> QED BY <1>2, <2>1, <2>2
<1>4. ASSUME NEW k \in 1..n, k - 1 \in S PROVE k \in S
  <2> DEFINE l == at[k - 1]
             w == mergeMessage(l, rows[k])
  <2>1. l \in Single /\ rows[k] \in Row /\ Good(l, k - 1) /\ k \in 0..n /\ at[k] = w
    BY <1>1, <1>2, <1>4
  <2> HIDE DEF l
  <2>2. /\ w \in Single
        /\ \A q \in 1..Len(w) : \/ w[q] = rows[k]
                                \/ \E j \in 1..Len(l) : w[q] = l[j] /\ l[j].msg # rows[k].msg
    BY <2>1, MergeKeeps
  <2> HIDE DEF w
  <2>3. \A i \in 1..k : i = k \/ i \in 1..k - 1
    OBVIOUS
  <2>4. k \in 1..k /\ \A i \in 1..k - 1 : i \in 1..k
    OBVIOUS
  <2>5. ASSUME NEW q \in 1..Len(w)
        PROVE  \/ \E j \in 1..k : w[q] = rows[j]
               \/ \E j \in 1..Len(list) :
                    w[q] = list[j] /\ \A i \in 1..k : rows[i].msg # list[j].msg
    <3>1. CASE w[q] = rows[k]
      BY <2>4, <3>1
    <3>2. ASSUME NEW p \in 1..Len(l), w[q] = l[p], l[p].msg # rows[k].msg
          PROVE  \/ \E j \in 1..k : w[q] = rows[j]
                 \/ \E j \in 1..Len(list) :
                      w[q] = list[j] /\ \A i \in 1..k : rows[i].msg # list[j].msg
      <4>1. \/ \E j \in 1..k - 1 : l[p] = rows[j]
            \/ \E j \in 1..Len(list) :
                 l[p] = list[j] /\ \A i \in 1..k - 1 : rows[i].msg # list[j].msg
        BY <2>1
      <4>2. ASSUME NEW j \in 1..k - 1, l[p] = rows[j] PROVE \E i \in 1..k : w[q] = rows[i]
        BY <2>4, <3>2, <4>2
      <4>3. ASSUME NEW j \in 1..Len(list), l[p] = list[j],
                   \A i \in 1..k - 1 : rows[i].msg # list[j].msg
            PROVE  w[q] = list[j] /\ \A i \in 1..k : rows[i].msg # list[j].msg
        BY <2>3, <3>2, <4>3
      <4> QED BY <4>1, <4>2, <4>3
    <3> QED BY <2>2, <3>1, <3>2
  <2> QED BY <2>1, <2>2, <2>5
<1> HIDE DEF S, n
<1>5. \A k \in 1..n : k - 1 \in S => k \in S
  BY <1>4
<1>6. n \in Nat
  BY <1>1
<1>7. 0..n \subseteq S
  BY <1>3, <1>5, <1>6, UpTo
<1>8. n \in S
  BY <1>6, <1>7
<1> QED BY <1>2, <1>8 DEF S, n, Written

\* Those are what the places of keep have, each once.
LEMMA ThoseGood ==
  ASSUME NEW X, NEW seq \in Seq(X), NEW keep
  PROVE  /\ Those(seq, keep) \in Seq(X)
         /\ \A i \in 1..Len(Those(seq, keep)) :
              \E p \in 1..Len(seq) : p \in keep /\ Those(seq, keep)[i] = seq[p]
         /\ \A p \in 1..Len(seq) : p \in keep =>
              \E i \in 1..Len(Those(seq, keep)) : Those(seq, keep)[i] = seq[p]
         /\ Distinct(seq) => Distinct(Those(seq, keep))
         /\ Unrepeated(seq) => Unrepeated(Those(seq, keep))
<1> DEFINE n == Len(seq)
           g == [i \in 1..n |-> [s \in Seq(X) |-> IF i \in keep THEN Append(s, seq[i]) ELSE s]]
           Is(at) == at = [i \in 0..n |-> IF i = 0 THEN <<>>
                                          ELSE IF i \in keep THEN Append(at[i - 1], seq[i])
                                          ELSE at[i - 1]]
           made == CHOOSE at : Is(at)
<1>1. n \in Nat /\ \A i \in 1..n : seq[i] \in X
  OBVIOUS
<1>2. g \in [1..n -> [Seq(X) -> Seq(X)]]
  BY <1>1
<1>3. \A i \in 1..n, s \in Seq(X) : g[i][s] = IF i \in keep THEN Append(s, seq[i]) ELSE s
  OBVIOUS
<1>4. Those(seq, keep) = made[n]
  BY DEF Those
<1>5. <<>> \in Seq(X) /\ Len(<<>>) = 0
  OBVIOUS
<1> HIDE DEF g, n
<1>6. PICK f : Recurs(f, n, Seq(X), <<>>, g)
  <2>1. n \in Nat /\ <<>> \in Seq(X)
    BY <1>1, <1>5
  <2> QED BY <1>2, <2>1, Recursion
<1>7. ASSUME NEW i \in 0..n
      PROVE  f[i] = IF i = 0 THEN <<>>
                    ELSE IF i \in keep THEN Append(f[i - 1], seq[i])
                    ELSE f[i - 1]
  <2>1. CASE i = 0
    BY <1>6, <2>1 DEF Recurs
  <2>2. CASE i # 0
    <3>1. i \in 1..n /\ i - 1 \in 0..n
      BY <1>1, <2>2
    <3>2. f[i - 1] \in Seq(X) /\ f[i] = g[i][f[i - 1]]
      BY <1>6, <3>1 DEF Recurs
    <3> QED BY <1>3, <2>2, <3>1, <3>2
  <2> QED BY <2>1, <2>2
<1>8. Is(f)
  <2> DEFINE h == [i \in 0..n |-> IF i = 0 THEN <<>>
                            ELSE IF i \in keep THEN Append(f[i - 1], seq[i])
                            ELSE f[i - 1]]
  <2>1. f = [i \in 0..n |-> f[i]]
    BY <1>6 DEF Recurs
  <2>2. h = [i \in 0..n |-> h[i]] /\ \A i \in 0..n : f[i] = h[i]
    BY <1>7
  <2> HIDE DEF h
  <2>3. f = h
    BY <2>1, <2>2
  <2> QED BY <2>3 DEF h
<1>9. Is(made)
  BY <1>8, Zenon
<1> HIDE DEF made
<1>10. /\ made[0] = <<>>
       /\ \A i \in 1..n : made[i] = IF i \in keep THEN Append(made[i - 1], seq[i]) ELSE made[i - 1]
  <2>1. 0 \in 0..n /\ \A i \in 1..n : i \in 0..n /\ i # 0
    BY <1>1
  <2>2. \A i \in 0..n : made[i] = IF i = 0 THEN <<>>
                                  ELSE IF i \in keep THEN Append(made[i - 1], seq[i])
                                  ELSE made[i - 1]
    BY <1>9, Zenon
  <2> QED BY <2>1, <2>2
<1> DEFINE Good(s, k) ==
             /\ s \in Seq(X)
             /\ \A i \in 1..Len(s) : \E p \in 1..k : p \in keep /\ s[i] = seq[p]
             /\ \A p \in 1..k : p \in keep => \E i \in 1..Len(s) : s[i] = seq[p]
             /\ Distinct(seq) => Distinct(s)
             /\ Unrepeated(seq) => Unrepeated(s)
           S == {k \in 0..n : Good(made[k], k)}
<1>11. 0 \in S
  <2>1. 0 \in 0..n /\ made[0] = <<>> /\ <<>> \in Seq(X) /\ Len(<<>>) = 0
    BY <1>1, <1>5, <1>10
  <2>2. Good(made[0], 0)
    BY <2>1 DEF Distinct, Unrepeated
  <2> QED BY <2>1, <2>2
<1>12. ASSUME NEW k \in 1..n, k - 1 \in S PROVE k \in S
  <2> DEFINE s == made[k - 1]
             t == Append(s, seq[k])
  <2>1. s \in Seq(X) /\ seq[k] \in X /\ k \in 0..n /\ n = Len(seq)
    BY <1>1, <1>12 DEF n
  <2>2. \A i \in 1..Len(s) : \E p \in 1..k - 1 : p \in keep /\ s[i] = seq[p]
    BY <1>12
  <2>3. (Distinct(seq) => Distinct(s)) /\ (Unrepeated(seq) => Unrepeated(s))
    BY <1>12
  <2>4. made[k] = IF k \in keep THEN t ELSE s
    BY <1>10
  <2>5. (\A p \in 1..k - 1 : p \in 1..k /\ p # k) /\ \A p \in 1..k : p = k \/ p \in 1..k - 1
    OBVIOUS
  <2>6. \A p \in 1..k - 1 : p \in keep => \E i \in 1..Len(s) : s[i] = seq[p]
    BY <1>12
  <2> HIDE DEF s
  <2>7. CASE k \in keep
    <3>1. t \in Seq(X) /\ Len(t) = Len(s) + 1 /\ t[Len(s) + 1] = seq[k]
          /\ \A i \in 1..Len(s) : t[i] = s[i]
      BY <2>1
    <3>2. k \in 1..k
      OBVIOUS
    <3> HIDE DEF t
    <3>3. \A i \in 1..Len(t) : i = Len(s) + 1 \/ i \in 1..Len(s)
      BY <2>1, <3>1
    <3>4. \A i \in 1..Len(t) : \E p \in 1..k : p \in keep /\ t[i] = seq[p]
      BY <2>2, <2>5, <2>7, <3>1, <3>2, <3>3
    <3>5. ASSUME Distinct(seq) PROVE Distinct(t)
      <4>1. \A i \in 1..Len(s) : s[i].msg # seq[k].msg
        BY <2>1, <2>2, <2>5, <3>5 DEF Distinct
      <4> QED BY <2>1, <2>3, <3>1, <3>3, <3>5, <4>1 DEF Distinct
    <3>6. ASSUME Unrepeated(seq) PROVE Unrepeated(t)
      <4>1. ASSUME NEW i \in 1..Len(s), s[i] = seq[k] PROVE FALSE
        <5>1. PICK p \in 1..k - 1 : s[i] = seq[p]
          BY <2>2
        <5>2. p \in 1..Len(seq) /\ k \in 1..Len(seq) /\ p # k
          BY <2>1, <2>5
        <5> QED BY <3>6, <4>1, <5>1, <5>2 DEF Unrepeated
      <4> QED BY <2>1, <2>3, <3>1, <3>3, <3>6, <4>1 DEF Unrepeated
    <3>7. \A p \in 1..k : p \in keep => \E i \in 1..Len(t) : t[i] = seq[p]
      <4>1. Len(s) + 1 \in 1..Len(t) /\ \A i \in 1..Len(s) : i \in 1..Len(t)
        BY <2>1, <3>1
      <4> QED BY <2>5, <2>6, <3>1, <4>1
    <3>8. Good(t, k)
      BY <3>1, <3>4, <3>5, <3>6, <3>7, ZenonT(60)
    <3> QED BY <2>1, <2>4, <2>7, <3>8
  <2>8. CASE k \notin keep
    <3>1. Good(s, k)
      BY <2>1, <2>2, <2>3, <2>5, <2>8, <2>6
    <3> QED BY <2>1, <2>4, <2>8, <3>1
  <2> QED BY <2>7, <2>8
<1> HIDE DEF S
<1>13. n \in Nat
  BY <1>1
<1>14. \A k \in 1..n : k - 1 \in S => k \in S
  BY <1>12
<1>15. 0..n \subseteq S
  BY <1>11, <1>13, <1>14, UpTo
<1>16. n \in S
  BY <1>13, <1>15
<1> QED BY <1>4, <1>16 DEF S, n

-----------------------------------------------------------------------------
(* What the server answers. *)

LEMMA OldestGood ==
  ASSUME log \in Seq(Msg)
  PROVE  /\ Oldest \in Seq(Msg)
         /\ \A i \in 1..Len(Oldest) : Exists(Oldest[i])
         /\ Unrepeated(Oldest)
<1> DEFINE n == Len(log)
           D == Seq(Msg)
           g == [i \in 1..n |-> [s \in D |-> IF Created(log[i]) = i THEN Append(s, log[i]) ELSE s]]
           Is(at) == at = [i \in 0..n |-> IF i = 0 THEN <<>>
                                          ELSE IF Created(log[i]) = i THEN Append(at[i - 1], log[i])
                                          ELSE at[i - 1]]
           made == CHOOSE at : Is(at)
<1>1. n \in Nat /\ \A i \in 1..n : log[i] \in Msg /\ Exists(log[i])
  BY DEF Exists
<1>2. g \in [1..n -> [D -> D]]
  BY <1>1
<1>3. \A i \in 1..n, s \in D : g[i][s] = IF Created(log[i]) = i THEN Append(s, log[i]) ELSE s
  OBVIOUS
<1>4. Oldest = made[n]
  BY DEF Oldest
<1>5. <<>> \in D /\ Len(<<>>) = 0
  OBVIOUS
<1> HIDE DEF g, n
<1>6. PICK f : Recurs(f, n, D, <<>>, g)
  <2>1. n \in Nat /\ <<>> \in D
    BY <1>1, <1>5
  <2> HIDE DEF D
  <2> QED BY <1>2, <2>1, Recursion
<1>7. ASSUME NEW i \in 0..n
      PROVE  f[i] = IF i = 0 THEN <<>>
                    ELSE IF Created(log[i]) = i THEN Append(f[i - 1], log[i])
                    ELSE f[i - 1]
  <2>1. CASE i = 0
    BY <1>6, <2>1 DEF Recurs
  <2>2. CASE i # 0
    <3>1. i \in 1..n /\ i - 1 \in 0..n
      BY <1>1, <2>2
    <3>2. f[i - 1] \in D /\ f[i] = g[i][f[i - 1]]
      BY <1>6, <3>1 DEF Recurs
    <3> QED BY <1>3, <2>2, <3>1, <3>2
  <2> QED BY <2>1, <2>2
<1>8. Is(f)
  <2> DEFINE h == [i \in 0..n |-> IF i = 0 THEN <<>>
                            ELSE IF Created(log[i]) = i THEN Append(f[i - 1], log[i])
                            ELSE f[i - 1]]
  <2>1. f = [i \in 0..n |-> f[i]]
    BY <1>6 DEF Recurs
  <2>2. h = [i \in 0..n |-> h[i]] /\ \A i \in 0..n : f[i] = h[i]
    BY <1>7
  <2> HIDE DEF h
  <2>3. f = h
    BY <2>1, <2>2
  <2> QED BY <2>3 DEF h
<1>9. Is(made)
  BY <1>8, Zenon
<1> HIDE DEF made
<1>10. /\ made[0] = <<>>
       /\ \A i \in 1..n : made[i] = IF Created(log[i]) = i THEN Append(made[i - 1], log[i])
                                    ELSE made[i - 1]
  <2>1. 0 \in 0..n /\ \A i \in 1..n : i \in 0..n /\ i # 0
    BY <1>1
  <2>2. \A i \in 0..n : made[i] = IF i = 0 THEN <<>>
                                  ELSE IF Created(log[i]) = i THEN Append(made[i - 1], log[i])
                                  ELSE made[i - 1]
    BY <1>9, Zenon
  <2> QED BY <2>1, <2>2
<1> DEFINE Good(s, k) ==
             /\ s \in Seq(Msg)
             /\ \A i \in 1..Len(s) : Exists(s[i]) /\ Created(s[i]) <= k
             /\ \A i, j \in 1..Len(s) : s[i] = s[j] => i = j
           S == {k \in 0..n : Good(made[k], k)}
<1>11. 0 \in S
  <2>1. 0 \in 0..n /\ made[0] = <<>> /\ <<>> \in Seq(Msg) /\ Len(<<>>) = 0
    BY <1>1, <1>5, <1>10
  <2>2. Good(made[0], 0)
    BY <2>1
  <2> QED BY <2>1, <2>2
<1>12. ASSUME NEW k \in 1..n, k - 1 \in S PROVE k \in S
  <2> DEFINE s == made[k - 1]
             t == Append(s, log[k])
  <2>1. s \in Seq(Msg) /\ log[k] \in Msg /\ Exists(log[k]) /\ k \in 0..n
    BY <1>1, <1>12
  <2>2. \A i \in 1..Len(s) : Exists(s[i]) /\ Created(s[i]) <= k - 1
    BY <1>12
  <2>3. \A i, j \in 1..Len(s) : s[i] = s[j] => i = j
    BY <1>12
  <2>4. made[k] = IF Created(log[k]) = k THEN t ELSE s
    BY <1>10
  <2>5. \A i \in 1..Len(s) : Created(s[i]) \in Nat
    BY <2>2, CreatedFirst
  <2> HIDE DEF s
  <2>6. CASE Created(log[k]) = k
    <3>1. t \in Seq(Msg) /\ Len(t) = Len(s) + 1 /\ t[Len(s) + 1] = log[k]
          /\ \A i \in 1..Len(s) : t[i] = s[i]
      BY <2>1
    <3> HIDE DEF t
    <3>2. \A i \in 1..Len(t) : i = Len(s) + 1 \/ i \in 1..Len(s)
      BY <2>1, <3>1
    <3>3. \A i \in 1..Len(t) : Exists(t[i]) /\ Created(t[i]) <= k
      BY <2>1, <2>2, <2>5, <2>6, <3>1, <3>2
    <3>4. \A i \in 1..Len(s) : s[i] # log[k]
      BY <2>2, <2>5, <2>6
    <3>5. \A i, j \in 1..Len(t) : t[i] = t[j] => i = j
      BY <2>1, <2>3, <3>1, <3>2, <3>4
    <3> QED BY <2>1, <2>4, <2>6, <3>1, <3>3, <3>5
  <2>7. CASE Created(log[k]) # k
    <3>1. \A i \in 1..Len(s) : Created(s[i]) <= k
      BY <2>2, <2>5
    <3> QED BY <2>1, <2>2, <2>3, <2>4, <2>7, <3>1
  <2> QED BY <2>6, <2>7
<1> HIDE DEF S
<1>13. n \in Nat
  BY <1>1
<1>14. \A k \in 1..n : k - 1 \in S => k \in S
  BY <1>12
<1>15. 0..n \subseteq S
  BY <1>11, <1>13, <1>14, UpTo
<1>16. n \in S
  BY <1>13, <1>15
<1> QED BY <1>4, <1>16 DEF S, Unrepeated

LEMMA RowsGood ==
  ASSUME log \in Seq(Msg), Len(log) <= MaxLog, delivery \in [Msg -> 1..3],
         NEW ms \in Seq(Msg), \A i \in 1..Len(ms) : Exists(ms[i]), NEW k \in Nat, NEW n \in Nat
  PROVE  /\ Rows(ms, k, n) \in Seq(Row)
         /\ Known(Rows(ms, k, n))
         /\ Unrepeated(ms) => Distinct(Rows(ms, k, n))
         /\ \A i \in 1..Len(Rows(ms, k, n)) :
              \E p \in 1..Len(ms) : Rows(ms, k, n)[i] = ServerRow(ms[p])
         /\ \A p \in 1..Len(ms) : k < p /\ p <= k + n =>
              \E i \in 1..Len(Rows(ms, k, n)) : Rows(ms, k, n)[i] = ServerRow(ms[p])
<1> DEFINE last == IF k + n < Len(ms) THEN k + n ELSE Len(ms)
           part == SubSeq(ms, k + 1, last)
           out == [i \in 1..Len(part) |-> ServerRow(part[i])]
<1>1. last \in Nat /\ last <= Len(ms)
  OBVIOUS
<1>2. \A p \in 1..Len(ms) : p <= k + n => p <= last
  OBVIOUS
<1> HIDE DEF last
<1>3. /\ part \in Seq(Msg)
      /\ \A i \in 1..Len(part) : k + i \in 1..Len(ms) /\ part[i] = ms[k + i]
  BY <1>1
<1>4. \A p \in 1..Len(ms) : k < p /\ p <= last => p - k \in 1..Len(part) /\ k + (p - k) = p
  BY <1>1
<1> HIDE DEF part
<1>5. \A i \in 1..Len(part) : ServerRow(part[i]) \in Row /\ ServerRow(part[i]).msg = part[i]
  BY <1>3, ServerRowGood
<1>6. out \in Seq(Row) /\ Len(out) = Len(part)
  BY <1>3, <1>5
<1>7. Rows(ms, k, n) = out
  <2>1. DOMAIN part = 1..Len(part)
    BY <1>3
  <2> QED BY <2>1 DEF Rows, part, last
<1>8. \A i \in 1..Len(part) : out[i].msg = ms[k + i]
  BY <1>3, <1>5
<1> HIDE DEF out
<1>9. ASSUME Unrepeated(ms) PROVE Distinct(out)
  <2>1. \A i, j \in 1..Len(part) : out[i].msg = out[j].msg => k + i = k + j
    BY <1>3, <1>8, <1>9 DEF Unrepeated
  <2>2. \A i, j \in 1..Len(part) : k + i = k + j => i = j
    OBVIOUS
  <2> QED BY <1>6, <2>1, <2>2 DEF Distinct
<1>10. \A i \in 1..Len(part) : out[i] = ServerRow(ms[k + i])
  BY <1>3 DEF out
<1>11. \A i \in 1..Len(out) : \E p \in 1..Len(ms) : out[i] = ServerRow(ms[p])
  BY <1>3, <1>6, <1>10
<1>12. ASSUME NEW p \in 1..Len(ms), k < p, p <= k + n
       PROVE  \E i \in 1..Len(out) : out[i] = ServerRow(ms[p])
  <2>1. p - k \in 1..Len(out) /\ k + (p - k) = p
    BY <1>2, <1>4, <1>6, <1>12
  <2>2. out[p - k] = ServerRow(ms[p])
    BY <1>6, <1>10, <2>1
  <2> QED BY <2>1, <2>2
<1>13. Known(out)
  <2>1. \A m : ServerRow(m).id
    BY DEF ServerRow
  <2> QED BY <1>11, <2>1 DEF Known
<1> QED BY <1>6, <1>7, <1>9, <1>11, <1>12, <1>13

LEMMA ListPageGood ==
  ASSUME log \in Seq(Msg), Len(log) <= MaxLog, delivery \in [Msg -> 1..3], NEW offset \in Nat
  PROVE  /\ ListPage(offset) \in Answer
         /\ Distinct(ListPage(offset).rows) /\ Known(ListPage(offset).rows)
<1>1. /\ Rows(Oldest, offset, PageSize) \in Seq(Row)
      /\ Distinct(Rows(Oldest, offset, PageSize)) /\ Known(Rows(Oldest, offset, PageSize))
  BY OldestGood, RowsGood, SizeAssumption
<1> QED BY <1>1 DEF ListPage, Answer

\* Whatever the recent list names, the first page has messages that exist, each once.
LEMMA FirstPageGood ==
  ASSUME log \in Seq(Msg), Len(log) <= MaxLog, delivery \in [Msg -> 1..3], NEW keep
  PROVE  /\ FirstPage(keep) \in Answer
         /\ Distinct(FirstPage(keep).rows) /\ Known(FirstPage(keep).rows)
<1> DEFINE ms == Those(Oldest, keep)
<1>1. Oldest \in Seq(Msg) /\ Unrepeated(Oldest) /\ \A i \in 1..Len(Oldest) : Exists(Oldest[i])
  BY OldestGood
<1>2. /\ ms \in Seq(Msg) /\ Unrepeated(ms)
      /\ \A i \in 1..Len(ms) : \E p \in 1..Len(Oldest) : p \in keep /\ ms[i] = Oldest[p]
  BY <1>1, ThoseGood
<1>3. \A i \in 1..Len(ms) : Exists(ms[i])
  BY <1>1, <1>2
<1>4. FirstPage(keep) = [at |-> "here", rows |-> Rows(ms, 0, PageSize)]
  BY DEF FirstPage
<1> HIDE DEF ms
<1>5. /\ Rows(ms, 0, PageSize) \in Seq(Row)
      /\ Distinct(Rows(ms, 0, PageSize)) /\ Known(Rows(ms, 0, PageSize))
  BY <1>2, <1>3, RowsGood, SizeAssumption
<1> QED BY <1>4, <1>5 DEF Answer

LEMMA FeedPageGood ==
  ASSUME log \in Seq(Msg), Len(log) <= MaxLog, delivery \in [Msg -> 1..3],
         NEW from \in 0..MaxLog, NEW left \in Nat
  PROVE  FeedPage(from, left) \in FeedFetch
<1>1. \A i \in 1..Len(log) : Exists(log[i])
  BY DEF Exists
<1>2. Rows(log, from, FeedSize) \in Seq(Row)
  BY <1>1, RowsGood, SizeAssumption
<1>3. (IF from + FeedSize < Len(log) THEN from + FeedSize ELSE Len(log)) \in 0..MaxLog
  BY SizeAssumption, BoundAssumption
<1> QED BY <1>2, <1>3 DEF FeedPage, FeedFetch

-----------------------------------------------------------------------------
(* The invariant, and the steps. *)

\* A page repeats no message; what is merged row by row may.
PageInv == page.at = "here" => Distinct(page.rows)
TranscriptInv == TypeOK /\ Distinct(cache) /\ PageInv

LEMMA CacheSingle == TranscriptInv => cache \in Single
BY DEF TranscriptInv, TypeOK, Single

LEMMA ServerTypes ==
  TypeOK => /\ log \in Seq(Msg) /\ Len(log) \in Nat /\ Len(log) <= MaxLog
            /\ delivery \in [Msg -> 1..3]
BY DEF TypeOK

LEMMA TimeTypes == ASSUME TypeOK, NEW t \in ClientTime PROVE t \in Nat
<1>1. PICK k \in 0..Len(log) + MaxSkew : t = 2 * k + 1
  BY DEF ClientTime
<1> QED BY <1>1

LEMMA SendKeeps ==
  ASSUME TranscriptInv, NEW m \in Msg, NEW t \in ClientTime, Send(m, t) PROVE TranscriptInv'
<1> DEFINE row == [msg |-> m, id |-> FALSE, ver |-> 0, delivery |-> 0, pending |-> TRUE,
                   time |-> t]
<1>1. row \in Row
  <2>1. t \in Nat /\ 0 \in 0..MaxLog /\ 0 \in -1..3
    BY TimeTypes, BoundAssumption DEF TranscriptInv
  <2> QED BY <2>1 DEF Row
<1>2. cache' = mergeMessage(cache, row) /\ m \in Mine
  BY DEF Send
<1> HIDE DEF row
<1>3. cache' \in Seq(Row) /\ Distinct(cache')
  BY <1>1, <1>2, CacheSingle, MergeKeeps DEF Single
<1>4. accepted' \subseteq Mine /\ outbox' \in Seq(Mine)
  BY <1>2 DEF Send, SendFrame, TranscriptInv, TypeOK
<1>5. ahead' \in BOOLEAN
  BY DEF Send
<1>6. TypeOK'
  BY <1>2, <1>3, <1>4, <1>5 DEF Send, fetchVars, TranscriptInv, TypeOK
<1>7. PageInv'
  BY DEF Send, fetchVars, TranscriptInv, PageInv
<1> QED BY <1>3, <1>6, <1>7 DEF TranscriptInv, Distinct

LEMMA RecoverTypes ==
  ASSUME TypeOK, Recover PROVE feed' \in [Slot -> FeedFetch]
<1>1. CASE \E s \in Slot : feed[s] = None
  <2> DEFINE s == CHOOSE s \in Slot : feed[s] = None
  <2>1. s \in Slot
    BY <1>1
  <2>2. feed' = [feed EXCEPT ![s] = [at |-> "asked", from |-> cursor, left |-> MaxPages - 1]]
    BY <1>1 DEF Recover
  <2> HIDE DEF s
  <2>3. [at |-> "asked", from |-> cursor, left |-> MaxPages - 1] \in FeedFetch
    BY SizeAssumption DEF TypeOK, FeedFetch
  <2> QED BY <2>1, <2>2, <2>3 DEF TypeOK
<1>2. CASE ~ \E s \in Slot : feed[s] = None
  BY <1>2 DEF Recover, TypeOK
<1> QED BY <1>1, <1>2

LEMMA LinkKeeps ==
  ASSUME TranscriptInv, Breaks \/ Closed \/ Opens PROVE TranscriptInv'
<1> USE DEF TranscriptInv
<1>1. CASE Breaks
  <2>1. faults' \in 0..MaxFaults /\ inbox' \in Seq(Event)
    BY <1>1, BoundAssumption DEF Breaks, TypeOK
  <2>2. UNCHANGED <<cache, page>>
    BY <1>1 DEF Breaks, fetchVars
  <2>3. TypeOK'
    BY <1>1, <2>1 DEF Breaks, fetchVars, serverVars, TypeOK
  <2> QED BY <2>2, <2>3 DEF PageInv, Distinct
<1>2. CASE Closed
  <2>1. UNCHANGED <<cache, page>>
    BY <1>2 DEF Closed, fetchVars
  <2>2. TypeOK'
    BY <1>2 DEF Closed, fetchVars, serverVars, historyVars, TypeOK
  <2> QED BY <2>1, <2>2 DEF PageInv, Distinct
<1>3. CASE Opens
  <2>1. feed' \in [Slot -> FeedFetch] /\ (page' = page \/ page' = Asked)
    BY <1>3, RecoverTypes DEF Opens, TypeOK
  <2>2. accepted' \subseteq Mine /\ outbox' \in Seq(Mine)
    BY <1>3 DEF Opens, TypeOK
  <2>3. TypeOK'
    BY <1>3, <2>1, <2>2 DEF Opens, historyVars, TypeOK, Fetch
  <2>4. cache' = cache /\ PageInv'
    BY <1>3, <2>1 DEF Opens, PageInv, Asked
  <2> QED BY <2>3, <2>4 DEF Distinct
<1> QED BY <1>1, <1>2, <1>3

\* An acknowledgement, a delivery state or a notice changes no message for another, and
\* neither its version nor its time.
Patched(row, new) ==
  new.msg = row.msg /\ new.ver = row.ver /\ new.time = row.time /\ (row.id => new.id)

LEMMA PatchKeeps ==
  ASSUME cache \in Single, NEW m, NEW patched,
         \A i \in 1..Len(cache) : patched[i] \in Row /\ Patched(cache[i], patched[i])
  PROVE  /\ patchMessage(m, patched) \in Single
         /\ Len(patchMessage(m, patched)) = Len(cache)
         /\ \A i \in 1..Len(cache) : Patched(cache[i], patchMessage(m, patched)[i])
<1> DEFINE new == [i \in 1..Len(cache) |-> IF cache[i].msg = m THEN patched[i] ELSE cache[i]]
<1>1. cache \in Seq(Row) /\ Distinct(cache) /\ DOMAIN cache = 1..Len(cache)
  BY DEF Single
<1>2. new \in Seq(Row) /\ Len(new) = Len(cache)
  BY <1>1
<1>3. \A i \in 1..Len(cache) : Patched(cache[i], new[i])
  BY <1>1 DEF Patched
<1>4. patchMessage(m, patched) = new
  BY <1>1 DEF patchMessage
<1> HIDE DEF new
<1>5. Distinct(new)
  BY <1>1, <1>2, <1>3 DEF Distinct, Patched
<1> QED BY <1>2, <1>3, <1>4, <1>5 DEF Single

LEMMA AckedRow ==
  ASSUME NEW r \in Row
  PROVE  /\ [r EXCEPT !.id = TRUE, !.delivery = 1, !.pending = FALSE] \in Row
         /\ Patched(r, [r EXCEPT !.id = TRUE, !.delivery = 1, !.pending = FALSE])
<1> DEFINE a == [r EXCEPT !.id = TRUE]
           b == [a EXCEPT !.delivery = 1]
           c == [b EXCEPT !.pending = FALSE]
<1>1. a \in Row /\ Patched(r, a) /\ a.id
  BY DEF Row, Patched
<1>2. 1 \in -1..3
  OBVIOUS
<1>3. [r EXCEPT !.id = TRUE, !.delivery = 1, !.pending = FALSE] = c
  OBVIOUS
<1> HIDE DEF a
<1>4. b \in Row /\ Patched(r, b) /\ b.id
  BY <1>1, <1>2 DEF Row, Patched
<1> HIDE DEF b
<1>5. c \in Row /\ Patched(r, c)
  BY <1>4 DEF Row, Patched
<1> HIDE DEF c
<1> QED BY <1>3, <1>5

LEMMA NoticedRow ==
  ASSUME NEW r \in Row
  PROVE  /\ [r EXCEPT !.delivery = 0] \in Row /\ Patched(r, [r EXCEPT !.delivery = 0])
         /\ [r EXCEPT !.delivery = -1, !.pending = FALSE] \in Row
         /\ Patched(r, [r EXCEPT !.delivery = -1, !.pending = FALSE])
<1> DEFINE a == [r EXCEPT !.delivery = -1]
           b == [a EXCEPT !.pending = FALSE]
<1>1. 0 \in -1..3 /\ -1 \in -1..3
  OBVIOUS
<1>2. [r EXCEPT !.delivery = 0] \in Row /\ Patched(r, [r EXCEPT !.delivery = 0])
  BY <1>1 DEF Row, Patched
<1>3. [r EXCEPT !.delivery = -1, !.pending = FALSE] = b
  OBVIOUS
<1>4. a \in Row /\ Patched(r, a)
  BY <1>1 DEF Row, Patched
<1> HIDE DEF a
<1>5. b \in Row /\ Patched(r, b)
  BY <1>4 DEF Row, Patched
<1> HIDE DEF b
<1> QED BY <1>2, <1>3, <1>5

LEMMA HandleWrites ==
  ASSUME TranscriptInv, Handle
  PROVE  /\ cache' \in Single
         /\ \/ HandleRow /\ Head(inbox).row \in Row /\ Head(inbox).kind = "row"
            \/ /\ UNCHANGED overtaken
               /\ Len(cache') = Len(cache)
               /\ \A i \in 1..Len(cache) : Patched(cache[i], cache'[i])
<1>1. inbox \in Seq(Event) /\ inbox # <<>> /\ cache \in Single
  BY CacheSingle DEF Handle, TranscriptInv, TypeOK
<1>2. Head(inbox) \in Event
  BY <1>1
<1>3. Head(inbox).row \in Row /\ Head(inbox).kind \in {"row", "ack", "delivery", "sending", "failed"}
  BY <1>2 DEF Event
<1>4. \A i \in 1..Len(cache) : cache[i] \in Row
  BY <1>1 DEF Single
<1>5. DOMAIN cache = 1..Len(cache)
  BY <1>1 DEF Single
<1>6. CASE HandleRow /\ Head(inbox).kind = "row"
  BY <1>1, <1>3, <1>6, MergeKeeps DEF HandleRow
<1>7. CASE HandleAck
  <2> DEFINE patched == [i \in DOMAIN cache |->
               [cache[i] EXCEPT !.id = TRUE, !.delivery = 1, !.pending = FALSE]]
  <2>1. ASSUME NEW i \in 1..Len(cache)
        PROVE  patched[i] \in Row /\ Patched(cache[i], patched[i])
    <3>1. cache[i] \in Row
      BY <1>4
    <3>2. patched[i] = [cache[i] EXCEPT !.id = TRUE, !.delivery = 1, !.pending = FALSE]
      BY <1>5
    <3> HIDE DEF patched
    <3> QED BY <3>1, <3>2, AckedRow
  <2>2. cache' = patchMessage(Head(inbox).row.msg, patched) /\ UNCHANGED overtaken
    BY <1>7 DEF HandleAck
  <2> HIDE DEF patched
  <2> QED BY <1>1, <2>1, <2>2, PatchKeeps
<1>8. CASE HandleDelivery
  <2> DEFINE patched == [i \in DOMAIN cache |->
               IF cache[i].id
               THEN [cache[i] EXCEPT !.delivery = advanceDelivery(@, Head(inbox).row.delivery)]
               ELSE cache[i]]
  <2>1. Head(inbox).row.delivery \in -1..3
    BY <1>3 DEF Row
  <2>2. \A i \in 1..Len(cache) : patched[i] \in Row /\ Patched(cache[i], patched[i])
    BY <1>4, <1>5, <2>1 DEF Row, Patched, advanceDelivery
  <2>3. cache' = patchMessage(Head(inbox).row.msg, patched) /\ UNCHANGED overtaken
    BY <1>8 DEF HandleDelivery
  <2> HIDE DEF patched
  <2> QED BY <1>1, <2>2, <2>3, PatchKeeps
<1>9. CASE HandleSending
  <2> DEFINE patched == [i \in DOMAIN cache |-> [cache[i] EXCEPT !.delivery = 0]]
  <2>1. ASSUME NEW i \in 1..Len(cache)
        PROVE  patched[i] \in Row /\ Patched(cache[i], patched[i])
    <3>1. cache[i] \in Row /\ patched[i] = [cache[i] EXCEPT !.delivery = 0]
      BY <1>4, <1>5
    <3> HIDE DEF patched
    <3> QED BY <3>1, NoticedRow
  <2>2. cache' = patchMessage(Head(inbox).row.msg, patched) /\ UNCHANGED overtaken
    BY <1>9 DEF HandleSending
  <2> HIDE DEF patched
  <2> QED BY <1>1, <2>1, <2>2, PatchKeeps
<1>10. CASE HandleFailed
  <2> DEFINE patched == [i \in DOMAIN cache |->
               [cache[i] EXCEPT !.delivery = -1, !.pending = FALSE]]
  <2>1. ASSUME NEW i \in 1..Len(cache)
        PROVE  patched[i] \in Row /\ Patched(cache[i], patched[i])
    <3>1. cache[i] \in Row /\ patched[i] = [cache[i] EXCEPT !.delivery = -1, !.pending = FALSE]
      BY <1>4, <1>5
    <3> HIDE DEF patched
    <3> QED BY <3>1, NoticedRow
  <2>2. cache' = patchMessage(Head(inbox).row.msg, patched) /\ UNCHANGED overtaken
    BY <1>10 DEF HandleFailed
  <2> HIDE DEF patched
  <2> QED BY <1>1, <2>1, <2>2, PatchKeeps
<1> QED BY <1>6, <1>7, <1>8, <1>9, <1>10, <1>3 DEF Handle

LEMMA HandleKeeps == ASSUME TranscriptInv, Handle PROVE TranscriptInv'
<1>1. cache' \in Seq(Row) /\ Distinct(cache')
  BY HandleWrites DEF Single
<1>2. inbox' \in Seq(Event)
  BY DEF Handle, TranscriptInv, TypeOK
<1>3. overtaken' \in BOOLEAN
  <2>1. Head(inbox) \in Event
    BY DEF Handle, TranscriptInv, TypeOK
  <2>2. HandleRow \/ HandleAck \/ HandleDelivery \/ HandleSending \/ HandleFailed
    BY <2>1 DEF Handle, Event
  <2>3. overtaken \in BOOLEAN
    BY DEF TranscriptInv, TypeOK
  <2> QED BY <2>2, <2>3 
          DEF HandleRow, HandleAck, HandleDelivery, HandleSending, HandleFailed, Overtakes
<1>4. UNCHANGED <<cursor, typed, connVars, fetchVars, serverVars, faults, ahead>>
  BY DEF Handle
<1>5. TypeOK'
  BY <1>1, <1>2, <1>3, <1>4 DEF connVars, fetchVars, serverVars, TranscriptInv, TypeOK
<1>6. PageInv'
  BY <1>4 DEF fetchVars, TranscriptInv, PageInv
<1> QED BY <1>1, <1>5, <1>6 DEF TranscriptInv, Distinct

\* The rows of the page, and of the transcript those the page does not have.
LEMMA MissingKeeps ==
  ASSUME NEW previous \in Single, NEW next \in Single
  PROVE  /\ mergeMissing(previous, next) \in Single
         /\ Written(previous, mergeMissing(previous, next), next)
<1> DEFINE keep == {i \in DOMAIN previous : \A j \in DOMAIN next : ~ sameMessage(next[j], previous[i])}
           rest == Those(previous, keep)
           new == next \o rest
<1>1. /\ previous \in Seq(Row) /\ DOMAIN previous = 1..Len(previous) /\ Distinct(previous)
      /\ next \in Seq(Row) /\ DOMAIN next = 1..Len(next) /\ Distinct(next)
  BY DEF Single
<1>2. /\ rest \in Seq(Row) /\ Distinct(rest)
      /\ \A i \in 1..Len(rest) : \E p \in 1..Len(previous) : p \in keep /\ rest[i] = previous[p]
  <2> HIDE DEF keep
  <2> QED BY <1>1, ThoseGood
<1>3. mergeMissing(previous, next) = new
  BY DEF mergeMissing
<1>4. /\ \A i \in 1..Len(rest), j \in 1..Len(next) : next[j].msg # rest[i].msg
      /\ \A i \in 1..Len(rest) : \E p \in 1..Len(previous) : rest[i] = previous[p]
  BY <1>1, <1>2 DEF sameMessage
<1> HIDE DEF rest
<1>5. /\ new \in Seq(Row) /\ Len(new) = Len(next) + Len(rest)
      /\ \A i \in 1..Len(next) : new[i] = next[i]
      /\ \A i \in Len(next) + 1..Len(next) + Len(rest) : new[i] = rest[i - Len(next)]
  BY <1>1, <1>2
<1> HIDE DEF new
<1>6. \A k \in 1..Len(new) : k \in 1..Len(next)
           \/ (k \in Len(next) + 1..Len(next) + Len(rest) /\ k - Len(next) \in 1..Len(rest))
  BY <1>1, <1>2, <1>5
<1>7. ASSUME NEW i \in 1..Len(new), NEW j \in 1..Len(new), new[i].msg = new[j].msg PROVE i = j
  <2>1. CASE i \in 1..Len(next) /\ j \in 1..Len(next)
    BY <1>1, <1>5, <1>7, <2>1 DEF Distinct
  <2>2. CASE i \notin 1..Len(next) /\ j \notin 1..Len(next)
    <3>1. /\ i - Len(next) \in 1..Len(rest) /\ new[i] = rest[i - Len(next)]
          /\ j - Len(next) \in 1..Len(rest) /\ new[j] = rest[j - Len(next)]
      BY <1>5, <1>6, <2>2
    <3>2. i - Len(next) = j - Len(next)
      BY <1>2, <1>7, <3>1 DEF Distinct
    <3> QED BY <1>1, <3>2
  <2>3. CASE i \in 1..Len(next) /\ j \notin 1..Len(next)
    <3>1. j - Len(next) \in 1..Len(rest) /\ new[j] = rest[j - Len(next)] /\ new[i] = next[i]
      BY <1>5, <1>6, <2>3
    <3> QED BY <1>4, <1>7, <2>3, <3>1
  <2>4. CASE i \notin 1..Len(next) /\ j \in 1..Len(next)
    <3>1. i - Len(next) \in 1..Len(rest) /\ new[i] = rest[i - Len(next)] /\ new[j] = next[j]
      BY <1>5, <1>6, <2>4
    <3> QED BY <1>4, <1>7, <2>4, <3>1
  <2> QED BY <2>1, <2>2, <2>3, <2>4
<1>8. Written(previous, new, next)
  <2>1. ASSUME NEW k \in 1..Len(new)
        PROVE  \/ \E j \in 1..Len(next) : new[k] = next[j]
               \/ \E j \in 1..Len(previous) :
                    new[k] = previous[j] /\ \A i \in 1..Len(next) : next[i].msg # previous[j].msg
    <3>1. CASE k \in 1..Len(next)
      BY <1>5, <3>1
    <3>2. CASE k \notin 1..Len(next)
      <4>1. k - Len(next) \in 1..Len(rest) /\ new[k] = rest[k - Len(next)]
        BY <1>5, <1>6, <3>2
      <4>2. PICK p \in 1..Len(previous) : rest[k - Len(next)] = previous[p]
        BY <1>4, <4>1
      <4>3. \A i \in 1..Len(next) : next[i].msg # previous[p].msg
        BY <1>4, <4>1, <4>2
      <4> QED BY <4>1, <4>2, <4>3
    <3> QED BY <3>1, <3>2
  <2> QED BY <2>1 DEF Written
<1> QED BY <1>3, <1>5, <1>7, <1>8 DEF Single, Distinct

LEMMA PageKeeps ==
  ASSUME TranscriptInv, Refetch \/ PageAnswers \/ PageApplies PROVE TranscriptInv'
<1>1. CASE Refetch
  <2>1. page' = Asked /\ cache' = cache
    BY <1>1 DEF Refetch
  <2>2. TypeOK'
    BY <1>1 DEF Refetch, connVars, serverVars, historyVars, TranscriptInv, TypeOK, Fetch
  <2> QED BY <2>1, <2>2 DEF TranscriptInv, PageInv, Asked, Distinct
<1>2. CASE PageAnswers
  <2>1. PICK keep : page' = FirstPage(keep)
    BY <1>2 DEF PageAnswers
  <2>5. cache' = cache
    BY <1>2 DEF PageAnswers
  <2>2. FirstPage(keep) \in Answer /\ Distinct(FirstPage(keep).rows)
    BY FirstPageGood, ServerTypes DEF TranscriptInv
  <2>3. page' \in Fetch
    BY <2>1, <2>2 DEF Fetch
  <2>4. TypeOK'
    BY <1>2, <2>3 DEF PageAnswers, connVars, serverVars, historyVars, TranscriptInv, TypeOK
  <2> QED BY <2>1, <2>2, <2>4, <2>5 DEF TranscriptInv, PageInv, Distinct
<1>3. CASE PageApplies
  <2>1. page \in Answer /\ Distinct(page.rows)
    BY <1>3 DEF PageApplies, TranscriptInv, TypeOK, PageInv, Fetch, None, Asked
  <2>2. page.rows \in Single /\ cache \in Single
    BY <2>1, CacheSingle DEF Answer, Single
  <2>3. cache' \in Seq(Row) /\ Distinct(cache')
    BY <1>3, <2>2, MissingKeeps DEF PageApplies, Single
  <2>4. page' = None /\ overtaken' \in BOOLEAN
    BY <1>3 DEF PageApplies, Overtakes
  <2>5. TypeOK'
    BY <1>3, <2>3, <2>4 DEF PageApplies, connVars, serverVars, TranscriptInv, TypeOK, Fetch
  <2>6. PageInv'
    BY <2>4 DEF PageInv, None
  <2> QED BY <2>3, <2>5, <2>6 DEF TranscriptInv, Distinct
<1> QED BY <1>1, <1>2, <1>3

LEMMA OlderKeeps ==
  ASSUME TranscriptInv, LoadOlder \/ OlderAnswers \/ OlderApplies PROVE TranscriptInv'
<1>1. CASE LoadOlder
  <2> DEFINE known == {i \in DOMAIN cache : cache[i].id}
  <2>1. Cardinality(known) \in Nat
    <3>1. IsFiniteSet(1..Len(cache)) /\ known \subseteq 1..Len(cache)
      BY FS_Interval DEF TranscriptInv, TypeOK
    <3> HIDE DEF known
    <3> QED BY <3>1, FS_Subset, FS_CardinalityType
  <2>2. older' = [at |-> "asked", offset |-> Cardinality(known)]
    BY <1>1 DEF LoadOlder
  <2> HIDE DEF known
  <2>3. older' \in OlderFetch
    BY <2>1, <2>2 DEF OlderFetch
  <2>4. UNCHANGED <<cache, page>>
    BY <1>1 DEF LoadOlder
  <2>5. TypeOK'
    BY <1>1, <2>3 DEF LoadOlder, connVars, serverVars, historyVars, TranscriptInv, TypeOK
  <2> QED BY <2>4, <2>5 DEF TranscriptInv, PageInv, Distinct
<1>2. CASE OlderAnswers
  <2>1. older.offset \in Nat
    BY <1>2 DEF OlderAnswers, TranscriptInv, TypeOK, OlderFetch, None, Answer
  <2>2. ListPage(older.offset) \in Answer
    BY <2>1, ListPageGood, ServerTypes DEF TranscriptInv
  <2>3. older' \in OlderFetch
    BY <1>2, <2>2 DEF OlderAnswers, OlderFetch
  <2>4. UNCHANGED <<cache, page>>
    BY <1>2 DEF OlderAnswers
  <2>5. TypeOK'
    BY <1>2, <2>3 DEF OlderAnswers, connVars, serverVars, historyVars, TranscriptInv, TypeOK
  <2> QED BY <2>4, <2>5 DEF TranscriptInv, PageInv, Distinct
<1>3. CASE OlderApplies
  <2>1. older.rows \in Seq(Row)
    BY <1>3 DEF OlderApplies, TranscriptInv, TypeOK, OlderFetch, None, Answer
  <2>2. cache' \in Seq(Row) /\ Distinct(cache')
    BY <1>3, <2>1, CacheSingle, MergeAllKeeps DEF OlderApplies, Single
  <2>3. older' = None /\ overtaken' \in BOOLEAN /\ page' = page
    BY <1>3 DEF OlderApplies, Overtakes
  <2>4. TypeOK'
    BY <1>3, <2>2, <2>3
    DEF OlderApplies, connVars, serverVars, TranscriptInv, TypeOK, OlderFetch
  <2> QED BY <2>2, <2>3, <2>4 DEF TranscriptInv, PageInv, Distinct
<1> QED BY <1>1, <1>2, <1>3

LEMMA RecoverKeeps == ASSUME TranscriptInv, RecoverTimer PROVE TranscriptInv'
<1>1. feed' \in [Slot -> FeedFetch]
  BY RecoverTypes DEF RecoverTimer, TranscriptInv
<1>2. UNCHANGED <<cache, page>>
  BY DEF RecoverTimer
<1>3. TypeOK'
  BY <1>1 DEF RecoverTimer, connVars, serverVars, historyVars, TranscriptInv, TypeOK
<1> QED BY <1>2, <1>3 DEF TranscriptInv, PageInv, Distinct

LEMMA FeedKeeps ==
  ASSUME TranscriptInv, NEW s \in Slot, FeedAnswers(s) \/ FeedFails(s) \/ FeedApplies(s)
  PROVE  TranscriptInv'
<1>1. feed \in [Slot -> FeedFetch] /\ feed[s] \in FeedFetch
  BY DEF TranscriptInv, TypeOK
<1>2. CASE FeedAnswers(s)
  <2>1. feed[s].from \in 0..MaxLog /\ feed[s].left \in Nat
    BY <1>1, <1>2 DEF FeedAnswers, FeedFetch, None
  <2>2. FeedPage(feed[s].from, feed[s].left) \in FeedFetch
    BY <2>1, FeedPageGood, ServerTypes DEF TranscriptInv
  <2>3. feed' \in [Slot -> FeedFetch] /\ UNCHANGED <<cache, page>>
    BY <1>1, <1>2, <2>2 DEF FeedAnswers
  <2>4. TypeOK'
    BY <1>2, <2>3 DEF FeedAnswers, connVars, serverVars, historyVars, TranscriptInv, TypeOK
  <2> QED BY <2>3, <2>4 DEF TranscriptInv, PageInv, Distinct
<1>3. CASE FeedFails(s)
  <2>1. feed' \in [Slot -> FeedFetch] /\ UNCHANGED <<cache, page>>
    BY <1>1, <1>3 DEF FeedFails, FeedFetch
  <2>2. TypeOK'
    BY <1>3, <2>1 DEF FeedFails, connVars, serverVars, historyVars, TranscriptInv, TypeOK
  <2> QED BY <2>1, <2>2 DEF TranscriptInv, PageInv, Distinct
<1>4. CASE FeedApplies(s)
  <2>1. feed[s].rows \in Seq(Row) /\ feed[s].next \in 0..MaxLog /\ feed[s].left \in Nat
    BY <1>1, <1>4 DEF FeedApplies, FeedFetch, None
  <2> DEFINE goesOn == feed[s].more /\ feed[s].left > 0
             next == [at |-> "asked", from |-> feed[s].next, left |-> feed[s].left - 1]
             rows == Those(feed[s].rows, {i \in DOMAIN feed[s].rows : isInScope(feed[s].rows[i], cache)})
  <2>2. rows \in Seq(Row)
    BY <2>1, ThoseGood
  <2>3. cache' = MergeAll(cache, rows) /\ Overtakes(rows)
    BY <1>4 DEF FeedApplies
  <2> HIDE DEF rows
  <2>4. cache' \in Seq(Row) /\ Distinct(cache')
    BY <2>2, <2>3, CacheSingle, MergeAllKeeps DEF Single
  <2>5. cursor' \in 0..MaxLog
    BY <1>4, <2>1 DEF FeedApplies, setCursor, TranscriptInv, TypeOK
  <2>6. (goesOn => next \in FeedFetch) /\ None \in FeedFetch
    BY <2>1 DEF FeedFetch
  <2>7. feed' = [feed EXCEPT ![s] = IF goesOn THEN next ELSE None]
    BY <1>1, <1>4 DEF FeedApplies
  <2> HIDE DEF goesOn, next
  <2>8. feed' \in [Slot -> FeedFetch]
    BY <1>1, <2>6, <2>7
  <2>9. overtaken' \in BOOLEAN /\ page' = page
    BY <1>4, <2>3 DEF FeedApplies, Overtakes
  <2>10. UNCHANGED <<typed, connVars, inbox, page, older, serverVars, faults, ahead>>
    BY <1>4 DEF FeedApplies
  <2>11. TypeOK'
    BY <2>4, <2>5, <2>8, <2>9, <2>10 DEF connVars, serverVars, TranscriptInv, TypeOK
  <2> QED BY <2>4, <2>9, <2>11 DEF TranscriptInv, PageInv, Distinct
<1> QED BY <1>2, <1>3, <1>4

LEMMA RestartKeeps == ASSUME TranscriptInv, Restart PROVE TranscriptInv'
<1>1. cache' = <<>> /\ page' = Asked
  BY DEF Restart
<1>2. faults' \in 0..MaxFaults /\ <<>> \in Seq(Row) /\ <<>> \in Seq(Mine) /\ <<>> \in Seq(Event)
      /\ Len(<<>>) = 0
  BY BoundAssumption DEF Restart, TranscriptInv, TypeOK
<1>3. feed' \in [Slot -> FeedFetch] /\ older' \in OlderFetch
  BY DEF Restart, FeedFetch, OlderFetch
<1>4. TypeOK'
  BY <1>1, <1>2, <1>3 DEF Restart, serverVars, TranscriptInv, TypeOK, Fetch
<1>5. Distinct(cache') /\ PageInv'
  BY <1>1, <1>2 DEF Distinct, PageInv, Asked
<1> QED BY <1>4, <1>5 DEF TranscriptInv, Distinct

-----------------------------------------------------------------------------
(* The server. *)

LEMMA PublishTypes ==
  ASSUME inbox \in Seq(Event), NEW events \in Seq(Event), Publish(events)
  PROVE  inbox' \in Seq(Event)
<1>1. PICK kept \in SUBSET DOMAIN events : inbox' = inbox \o Those(events, kept)
  BY DEF Publish
<1>2. Those(events, kept) \in Seq(Event)
  BY ThoseGood
<1> QED BY <1>1, <1>2

LEMMA ToRowGood ==
  ASSUME TypeOK, NEW m \in Msg, Len(log) < MaxLog, NEW kind \in {"row", "ack"}
  PROVE  ToRow(m, kind) \in Event
<1> DEFINE t == 2 * (IF Exists(m) THEN Created(m) ELSE Len(log) + 1)
<1>1. t \in Nat
  BY CreatedFirst, ServerTypes
<1> HIDE DEF t
<1>2. Len(log) + 1 \in 0..MaxLog /\ delivery[m] \in -1..3
  BY ServerTypes, BoundAssumption
<1>3. ToRow(m, kind) = [kind |-> kind, row |-> [msg |-> m, id |-> TRUE, ver |-> Len(log) + 1,
                         delivery |-> delivery[m], pending |-> FALSE, time |-> t]]
  BY DEF ToRow, t
<1> QED BY <1>1, <1>2, <1>3 DEF Event, Row

LEMMA ChangeFits ==
  ASSUME TypeOK, NEW m \in Msg, Change(m) PROVE Len(log) < MaxLog
<1> DEFINE T == {x \in Mine : ~ Exists(x)}
<1>1. Cardinality(T) \in Nat
  <2>1. T \subseteq Mine
    OBVIOUS
  <2> HIDE DEF T
  <2> QED BY <2>1, BoundAssumption, FS_Subset, FS_CardinalityType
<1>2. Len(log) + Cardinality(T) < MaxLog
  BY DEF Change, Room
<1> HIDE DEF T
<1> QED BY <1>1, <1>2, BoundAssumption, ServerTypes

LEMMA AdvanceFits ==
  ASSUME TypeOK, NEW m \in Msg, Advance(m)
  PROVE  [kind |-> "delivery", row |-> [ServerRow(m) EXCEPT !.delivery = delivery[m] + 1]] \in Event
<1> DEFINE row == [ServerRow(m) EXCEPT !.delivery = delivery[m] + 1]
<1>1. ServerRow(m) \in Row
  BY ServerTypes, ServerRowGood DEF Advance
<1>2. row \in Row
  <2>1. delivery[m] + 1 \in -1..3
    BY ServerTypes, BoundAssumption DEF Advance
  <2> QED BY <1>1, <2>1 DEF Row
<1> HIDE DEF row
<1>3. [kind |-> "delivery", row |-> row] \in Event
  BY <1>2 DEF Event
<1> QED BY <1>3 DEF row

LEMMA NoticeFits ==
  ASSUME NEW m \in Msg, NEW kind \in Notices
  PROVE  [kind |-> kind, row |-> [msg |-> m, id |-> FALSE, ver |-> 0, delivery |-> 0,
                                  pending |-> FALSE, time |-> 0]] \in Event
<1>1. 0 \in 0..MaxLog /\ 0 \in -1..3 /\ 0 \in Nat
  BY BoundAssumption
<1>2. kind \in {"row", "ack", "delivery", "sending", "failed"}
  BY BoundAssumption
<1> QED BY <1>1, <1>2 DEF Event, Row

LEMMA ServerKeeps == ASSUME TranscriptInv, NEW m \in Msg, Server(m) PROVE TranscriptInv'
<1> USE DEF TranscriptInv
<1>1. inbox \in Seq(Event) /\ log \in Seq(Msg) /\ Len(log) \in Nat /\ Len(log) <= MaxLog
      /\ delivery \in [Msg -> 1..3] /\ accepted \subseteq Mine /\ ticks \in 0..MaxTicks
  BY DEF TypeOK
<1>2. CASE Persist(m)
  <2>1. Len(log) < MaxLog
    BY <1>2 DEF Persist
  <2>2. ToRow(m, "row") \in Event /\ ToRow(m, "ack") \in Event
    BY <2>1, ToRowGood
  <2>3. inbox' \in Seq(Event)
    <3>1. <<ToRow(m, "row"), ToRow(m, "ack")>> \in Seq(Event)
          /\ <<ToRow(m, "ack"), ToRow(m, "row")>> \in Seq(Event)
      BY <2>2
    <3> QED BY <1>1, <1>2, <3>1, PublishTypes DEF Persist
  <2>4. log' \in Seq(Msg) /\ Len(log') <= MaxLog
    BY <1>1, <1>2, <2>1, BoundAssumption DEF Persist
  <2>5. delivery' = delivery /\ accepted' \subseteq Mine /\ ticks' = ticks
    BY <1>1, <1>2 DEF Persist
  <2> QED BY <1>1, <2>3, <2>4, <2>5
          DEF Server, connVars, fetchVars, historyVars, TypeOK, PageInv, Distinct
<1>3. CASE Change(m)
  <2>1. Len(log) < MaxLog
    BY <1>3, ChangeFits
  <2>2. ToRow(m, "row") \in Event
    BY <2>1, ToRowGood
  <2>3. inbox' \in Seq(Event)
    <3>1. <<ToRow(m, "row")>> \in Seq(Event)
      BY <2>2
    <3> QED BY <1>1, <1>3, <3>1, PublishTypes DEF Change
  <2>4. log' \in Seq(Msg) /\ Len(log') <= MaxLog
    BY <1>1, <1>3, <2>1, BoundAssumption DEF Change
  <2>5. delivery' = delivery /\ accepted' = accepted /\ ticks' = ticks
    BY <1>3 DEF Change
  <2> QED BY <1>1, <2>3, <2>4, <2>5
          DEF Server, connVars, fetchVars, historyVars, TypeOK, PageInv, Distinct
<1>4. CASE Advance(m)
  <2>1. delivery[m] + 1 \in 1..3
    BY <1>1, <1>4, BoundAssumption DEF Advance
  <2> DEFINE e == [kind |-> "delivery",
                   row |-> [ServerRow(m) EXCEPT !.delivery = delivery[m] + 1]]
  <2>2. e \in Event
    BY <1>4, AdvanceFits
  <2>3. Publish(<<e>>)
    BY <1>4 DEF Advance
  <2> HIDE DEF e
  <2>4. <<e>> \in Seq(Event)
    BY <2>2
  <2>5. inbox' \in Seq(Event)
    BY <1>1, <2>3, <2>4, PublishTypes
  <2>6. delivery' \in [Msg -> 1..3] /\ log' = log /\ accepted' = accepted
        /\ ticks' \in 0..MaxTicks
    BY <1>1, <1>4, <2>1, BoundAssumption DEF Advance
  <2> QED BY <1>1, <2>5, <2>6
          DEF Server, connVars, fetchVars, historyVars, TypeOK, PageInv, Distinct
<1>5. ASSUME NEW kind \in Notices, Notice(m, kind) PROVE TranscriptInv'
  <2> DEFINE e == [kind |-> kind, row |-> [msg |-> m, id |-> FALSE, ver |-> 0, delivery |-> 0,
                                           pending |-> FALSE, time |-> 0]]
  <2>1. e \in Event
    BY NoticeFits
  <2>2. Publish(<<e>>)
    BY <1>5 DEF Notice
  <2> HIDE DEF e
  <2>3. <<e>> \in Seq(Event)
    BY <2>1
  <2>4. inbox' \in Seq(Event)
    BY <1>1, <2>2, <2>3, PublishTypes
  <2>5. UNCHANGED <<log, delivery, accepted>> /\ ticks' \in 0..MaxTicks
    BY <1>1, <1>5, BoundAssumption DEF Notice
  <2> QED BY <1>1, <2>4, <2>5
          DEF Server, connVars, fetchVars, historyVars, TypeOK, PageInv, Distinct
<1> QED BY <1>2, <1>3, <1>4, <1>5 DEF Server

-----------------------------------------------------------------------------

LEMMA TranscriptInit == Init => TranscriptInv
<1> SUFFICES ASSUME Init PROVE TranscriptInv
  OBVIOUS
<1>1. /\ <<>> \in Seq(Row) /\ <<>> \in Seq(Mine) /\ <<>> \in Seq(Event) /\ <<>> \in Seq(Msg)
      /\ Len(<<>>) = 0
  OBVIOUS
<1>2. 0 \in 0..MaxLog /\ 0 \in 0..MaxFaults /\ 0 \in 0..MaxTicks /\ 0 <= MaxLog
  BY BoundAssumption
<1>3. page \in Fetch /\ older \in OlderFetch /\ feed \in [Slot -> FeedFetch]
  BY DEF Init, Fetch, OlderFetch, FeedFetch
<1>4. log = <<>> /\ Len(log) = 0 /\ delivery \in [Msg -> 1..3]
  BY <1>1 DEF Init
<1>5. TypeOK
  BY <1>1, <1>2, <1>3, <1>4 DEF Init, TypeOK
<1> QED BY <1>1, <1>5 DEF Init, TranscriptInv, Distinct, PageInv, Asked

LEMMA TranscriptStep == TranscriptInv /\ [Next]_vars => TranscriptInv'
<1> SUFFICES ASSUME TranscriptInv, [Next]_vars PROVE TranscriptInv'
  OBVIOUS
<1>1. CASE UNCHANGED vars
  BY <1>1 DEF vars, connVars, fetchVars, serverVars, historyVars, TranscriptInv, TypeOK, PageInv,
              Distinct
<1> QED BY <1>1, SendKeeps, ServerKeeps, LinkKeeps, HandleKeeps, PageKeeps, OlderKeeps,
           RecoverKeeps, FeedKeeps, RestartKeeps DEF Next

LEMMA TranscriptCorrect == Spec => []TranscriptInv
BY TranscriptInit, TranscriptStep, PTL DEF Spec

\* The transcript, the fetches, the events on their way and the cursor have their
\* types, for any messages, pages and calls of recoverConversation at once.
THEOREM TranscriptTypes == Spec => []TypeOK
<1>1. TranscriptInv => TypeOK
  BY DEF TranscriptInv
<1> QED BY <1>1, TranscriptCorrect, PTL

\* A message has one row, for any messages, pages and faults, in whatever order its
\* optimistic row, its acknowledgement, its events, the pages of history and those of
\* the feed are written: a page of history repeats no message, and whatever else is
\* written is merged row by row.
THEOREM TranscriptOnce == Spec => []NoDuplicates
<1>1. TranscriptInv => NoDuplicates
  <2>1. TypeOK => DOMAIN cache = 1..Len(cache)
    BY DEF TypeOK
  <2> QED BY <2>1 DEF TranscriptInv, Distinct, NoDuplicates
<1> QED BY <1>1, TranscriptCorrect, PTL

-----------------------------------------------------------------------------
(* The cursor.  The invariant says of each source what makes it safe for   *)
(* the cursor to pass an entry of the log: the rows of a page of the feed  *)
(* are as new as the page, and its rows reach every message of the entries *)
(* that the transcript shows.                                              *)

\* What the server has of this user, the user has sent.
Sent ==
  /\ \A m \in Mine : Exists(m) => m \in typed
  /\ accepted \subseteq typed
  /\ \A i \in 1..Len(outbox) : outbox[i] \in typed

\* A row that comes from the server is known by its id.
KnownIn(events) == \A i \in 1..Len(events) : events[i].kind = "row" => events[i].row.id
FromServer ==
  /\ KnownIn(inbox)
  /\ page.at = "here" => Known(page.rows)
  /\ older.at = "here" => Known(older.rows)

\* As long as the user's clock was not ahead, an optimistic row is older than the
\* message the server makes of it, and so it brings that message into the scope of
\* the feed.
Early(row) ==
  /\ row.time <= 2 * Len(log) + 1
  /\ Exists(row.msg) => row.time < 2 * Created(row.msg)
OwnEarly == ~ ahead => \A k \in 1..Len(cache) : ~ cache[k].id => Early(cache[k])

\* A row of a page of the feed that ends with the entry n.
ReplayRow(row, n) ==
  /\ row.id
  /\ Exists(row.msg)
  /\ row.time = 2 * Created(row.msg)
  /\ \A i \in 1..n : log[i] = row.msg => i <= row.ver

\* A page of the feed starts no later than the cursor, and leaves out no entry after it.
Replay(s) ==
  /\ feed[s].at = "asked" => feed[s].from <= cursor
  /\ feed[s].at = "here" =>
       /\ feed[s].next <= Len(log)
       /\ \A i \in cursor + 1..feed[s].next :
            \E j \in 1..Len(feed[s].rows) : feed[s].rows[j].msg = log[i]
       /\ \A j \in 1..Len(feed[s].rows) : ReplayRow(feed[s].rows[j], feed[s].next)

CursorInv ==
  /\ Sent
  /\ FromServer
  /\ OwnEarly
  /\ \A s \in Slot : Replay(s)
  /\ cursor <= Len(log)
  /\ CursorKept

LEMMA LogSame ==
  ASSUME UNCHANGED log
  PROVE  \A x : Exists(x)' = Exists(x) /\ Created(x)' = Created(x)
BY DEF Exists, Created

LEMMA SentSame == Sent /\ UNCHANGED <<log, typed, accepted, outbox>> => Sent'
BY LogSame DEF Sent

LEMMA FromServerSame == FromServer /\ UNCHANGED <<inbox, page, older>> => FromServer'
BY DEF FromServer, Known, KnownIn

LEMMA OwnEarlySame == OwnEarly /\ UNCHANGED <<cache, log, ahead>> => OwnEarly'
BY LogSame DEF OwnEarly, Early

LEMMA Beyond ==
  \A a, b, n \in Nat : a <= b => \A i \in b + 1..n : i \in a + 1..n
OBVIOUS

\* The cursor does not go back.
LEMMA ReplaySame ==
  ASSUME TypeOK, NEW s \in Slot, Replay(s), feed'[s] = feed[s], UNCHANGED log,
         cursor' \in Nat, cursor <= cursor'
  PROVE  Replay(s)'
<1>1. feed[s] \in FeedFetch /\ cursor \in Nat
  BY DEF TypeOK
<1>2. ASSUME feed[s].at = "asked" PROVE feed[s].from <= cursor'
  <2>1. feed[s].from \in Nat
    BY <1>1, <1>2 DEF FeedFetch, None
  <2> QED BY <1>1, <1>2, <2>1 DEF Replay
<1>3. ASSUME feed[s].at = "here"
      PROVE  /\ feed[s].next <= Len(log)
             /\ \A i \in cursor' + 1..feed[s].next :
                  \E j \in 1..Len(feed[s].rows) : feed[s].rows[j].msg = log[i]
             /\ \A j \in 1..Len(feed[s].rows) : ReplayRow(feed[s].rows[j], feed[s].next)'
  <2>1. feed[s].next \in Nat
    BY <1>1, <1>3 DEF FeedFetch, None
  <2>2. \A i \in cursor' + 1..feed[s].next : i \in cursor + 1..feed[s].next
    BY <1>1, <2>1, Beyond
  <2>3. \A j \in 1..Len(feed[s].rows) : ReplayRow(feed[s].rows[j], feed[s].next)'
    BY <1>3, LogSame DEF Replay, ReplayRow
  <2> QED BY <1>3, <2>2, <2>3 DEF Replay
<1> QED BY <1>2, <1>3 DEF Replay

LEMMA ReplayAllSame ==
  ASSUME TypeOK, \A s \in Slot : Replay(s), UNCHANGED <<feed, cursor, log>>
  PROVE  \A s \in Slot : Replay(s)'
<1>1. cursor' \in Nat /\ cursor <= cursor'
  BY DEF TypeOK
<1>2. \A s \in Slot : feed'[s] = feed[s]
  OBVIOUS
<1> QED BY <1>1, <1>2, ReplaySame

LEMMA CursorKeptSame ==
  CursorKept /\ UNCHANGED <<cache, cursor, log, overtaken, ahead>> => CursorKept'
BY DEF CursorKept, Stale

LEMMA ReplayGrows ==
  ASSUME TypeOK, NEW m \in Msg, log' = Append(log, m), UNCHANGED <<feed, cursor>>,
         NEW s \in Slot, Replay(s)
  PROVE  Replay(s)'
<1>1. log \in Seq(Msg) /\ Len(log) \in Nat /\ cursor \in Nat /\ feed[s] \in FeedFetch
  BY DEF TypeOK
<1>2. /\ Len(log') = Len(log) + 1
      /\ \A i \in 1..Len(log) : log'[i] = log[i]
      /\ \A x : Exists(x) => Exists(x)' /\ Created(x)' = Created(x)
  BY <1>1, LogGrows
<1>3. ASSUME feed[s].at = "here"
      PROVE  /\ feed[s].next <= Len(log')
             /\ \A i \in cursor + 1..feed[s].next :
                  \E j \in 1..Len(feed[s].rows) : feed[s].rows[j].msg = log'[i]
             /\ \A j \in 1..Len(feed[s].rows) : ReplayRow(feed[s].rows[j], feed[s].next)'
  <2>1. feed[s].next \in Nat /\ feed[s].next <= Len(log)
    BY <1>1, <1>3 DEF FeedFetch, None, Replay
  <2>2. \A i \in 1..feed[s].next : log'[i] = log[i]
    BY <1>1, <1>2, <2>1
  <2>3. \A i \in cursor + 1..feed[s].next : i \in 1..feed[s].next
    BY <1>1, <2>1
  <2>4. ASSUME NEW j \in 1..Len(feed[s].rows) PROVE ReplayRow(feed[s].rows[j], feed[s].next)'
    <3>1. ReplayRow(feed[s].rows[j], feed[s].next)
      BY <1>3 DEF Replay
    <3>2. feed' = feed
      OBVIOUS
    <3> QED BY <1>2, <2>2, <3>1, <3>2, Zenon DEF ReplayRow
  <2>5. feed[s].next <= Len(log')
    BY <1>1, <1>2, <2>1
  <2> QED BY <1>3, <2>2, <2>3, <2>4, <2>5 DEF Replay
<1> QED BY <1>3 DEF Replay

\* A change on the server is after every cursor, and creates no message that was
\* there before an optimistic row of it.
LEMMA GrowsCursor ==
  ASSUME TranscriptInv, CursorInv, NEW m \in Msg, log' = Append(log, m),
         UNCHANGED <<cache, cursor, feed, overtaken, ahead>>
  PROVE  OwnEarly' /\ (\A s \in Slot : Replay(s)') /\ cursor' <= Len(log') /\ CursorKept'
<1>1. /\ log \in Seq(Msg) /\ Len(log) \in Nat /\ cursor \in Nat /\ cache \in Seq(Row)
      /\ cursor <= Len(log) /\ TypeOK
  BY DEF TranscriptInv, TypeOK, CursorInv
<1>2. /\ Len(log') = Len(log) + 1
      /\ \A i \in 1..Len(log) : log'[i] = log[i]
      /\ \A x : Exists(x)' <=> Exists(x) \/ x = m
      /\ \A x : Exists(x) => Created(x)' = Created(x)
      /\ ~ Exists(m) => Created(m)' = Len(log) + 1
  BY <1>1, LogGrows
<1>3. ASSUME ~ ahead', NEW k \in 1..Len(cache), ~ cache[k].id PROVE Early(cache[k])'
  <2>1. cache[k] \in Row
    BY <1>1
  <2>2. cache[k].time \in Nat
    BY <2>1 DEF Row
  <2>3. Early(cache[k])
    BY <1>3 DEF CursorInv, OwnEarly
  <2>4. cache[k].time <= 2 * Len(log') + 1
    BY <1>1, <1>2, <2>2, <2>3 DEF Early
  <2>5. CASE Exists(cache[k].msg)
    <3>1. cache[k].time < 2 * Created(cache[k].msg)'
      BY <1>2, <2>3, <2>5 DEF Early
    <3> QED BY <2>4, <3>1 DEF Early
  <2>6. CASE ~ Exists(cache[k].msg)
    <3>1. Exists(cache[k].msg)' => Created(cache[k].msg)' = Len(log) + 1
      BY <1>2, <2>6
    <3>2. cache[k].time < 2 * (Len(log) + 1)
      BY <1>1, <2>2, <2>3 DEF Early
    <3> QED BY <2>4, <3>1, <3>2 DEF Early
  <2> QED BY <2>5, <2>6
<1>4. OwnEarly'
  BY <1>3 DEF OwnEarly
<1>5. \A s \in Slot : Replay(s)'
  BY <1>1, ReplayGrows DEF CursorInv
<1>6. \A i \in DOMAIN log' : i <= cursor => i \in DOMAIN log /\ log'[i] = log[i]
  <2>1. DOMAIN log = 1..Len(log) /\ DOMAIN log' = 1..Len(log) + 1
    BY <1>1
  <2> QED BY <1>1, <1>2, <2>1
<1>7. CursorKept'
  BY <1>6 DEF CursorInv, CursorKept, Stale
<1>8. cursor' <= Len(log')
  BY <1>1, <1>2
<1> QED BY <1>4, <1>5, <1>7, <1>8

LEMMA PublishKnown ==
  ASSUME inbox \in Seq(Event), NEW events \in Seq(Event), Publish(events),
         KnownIn(inbox), KnownIn(events)
  PROVE  KnownIn(inbox')
<1>1. PICK kept \in SUBSET DOMAIN events : inbox' = inbox \o Those(events, kept)
  BY DEF Publish
<1> DEFINE sent == Those(events, kept)
<1>2. sent \in Seq(Event) /\ KnownIn(sent)
  <2>1. /\ sent \in Seq(Event)
        /\ \A i \in 1..Len(sent) : \E p \in 1..Len(events) : sent[i] = events[p]
    BY ThoseGood
  <2> HIDE DEF sent
  <2> QED BY <2>1 DEF KnownIn
<1>3. inbox' = inbox \o sent
  BY <1>1
<1> HIDE DEF sent
<1>4. /\ Len(inbox') = Len(inbox) + Len(sent)
      /\ \A i \in 1..Len(inbox) : inbox'[i] = inbox[i]
      /\ \A i \in Len(inbox) + 1..Len(inbox) + Len(sent) : inbox'[i] = sent[i - Len(inbox)]
  BY <1>2, <1>3
<1>5. ASSUME NEW i \in 1..Len(inbox') PROVE inbox'[i].kind = "row" => inbox'[i].row.id
  <2>1. CASE i \in 1..Len(inbox)
    BY <1>4, <2>1 DEF KnownIn
  <2>2. CASE i \notin 1..Len(inbox)
    <3>1. i - Len(inbox) \in 1..Len(sent) /\ inbox'[i] = sent[i - Len(inbox)]
      BY <1>2, <1>4, <2>2
    <3> QED BY <1>2, <3>1 DEF KnownIn
  <2> QED BY <2>1, <2>2
<1> QED BY <1>5 DEF KnownIn

LEMMA ToRowKnown == \A m, kind : ToRow(m, kind).row.id
BY DEF ToRow

LEMMA ServerCursor ==
  ASSUME TranscriptInv, CursorInv, NEW m \in Msg, Server(m) PROVE CursorInv'
<1>1. /\ inbox \in Seq(Event) /\ log \in Seq(Msg) /\ Len(log) \in Nat /\ Len(log) <= MaxLog
      /\ delivery \in [Msg -> 1..3] /\ accepted \subseteq Mine /\ TypeOK /\ cursor \in Nat
  BY DEF TranscriptInv, TypeOK
<1>2. UNCHANGED <<cache, cursor, typed, outbox, page, older, feed, overtaken, ahead>>
  BY DEF Server, connVars, fetchVars, historyVars
<1>3. KnownIn(inbox)
  BY DEF CursorInv, FromServer
<1>4. ASSUME KnownIn(inbox') PROVE FromServer'
  BY <1>2, <1>4 DEF CursorInv, FromServer, Known
<1>5. CASE Persist(m)
  <2>1. m \in typed /\ log' = Append(log, m) /\ accepted' \subseteq accepted /\ Len(log) < MaxLog
    BY <1>5 DEF Persist, CursorInv, Sent
  <2>2. Sent'
    <3>1. \A x : Exists(x)' => Exists(x) \/ x = m
      BY <1>1, <2>1, LogGrows
    <3> QED BY <1>2, <2>1, <3>1 DEF CursorInv, Sent
  <2>3. OwnEarly' /\ (\A s \in Slot : Replay(s)') /\ cursor' <= Len(log') /\ CursorKept'
    BY <1>2, <2>1, GrowsCursor
  <2>4. FromServer'
    <3> DEFINE r == ToRow(m, "row")
               a == ToRow(m, "ack")
    <3>1. r \in Event /\ a \in Event /\ r.row.id /\ a.row.id
      BY <1>1, <2>1, ToRowGood, ToRowKnown
    <3>2. Publish(<<r, a>>) \/ Publish(<<a, r>>)
      BY <1>5 DEF Persist
    <3> HIDE DEF r, a
    <3>3. /\ <<r, a>> \in Seq(Event) /\ <<a, r>> \in Seq(Event)
          /\ KnownIn(<<r, a>>) /\ KnownIn(<<a, r>>)
      BY <3>1 DEF KnownIn
    <3> QED BY <1>1, <1>3, <1>4, <3>2, <3>3, PublishKnown
  <2> QED BY <2>2, <2>3, <2>4 DEF CursorInv
<1>6. CASE Change(m)
  <2>1. (m \in Mine => Exists(m)) /\ log' = Append(log, m) /\ accepted' = accepted
    BY <1>6, MsgAssumption DEF Change
  <2>2. Sent'
    <3>1. \A x : Exists(x)' => Exists(x) \/ x = m
      BY <1>1, <2>1, LogGrows
    <3> QED BY <1>2, <2>1, <3>1 DEF CursorInv, Sent
  <2>3. OwnEarly' /\ (\A s \in Slot : Replay(s)') /\ cursor' <= Len(log') /\ CursorKept'
    BY <1>2, <2>1, GrowsCursor
  <2>4. FromServer'
    <3> DEFINE r == ToRow(m, "row")
    <3>1. r \in Event /\ r.row.id
      BY <1>1, <1>6, ChangeFits, ToRowGood, ToRowKnown
    <3>2. Publish(<<r>>)
      BY <1>6 DEF Change
    <3> HIDE DEF r
    <3>3. <<r>> \in Seq(Event) /\ KnownIn(<<r>>)
      BY <3>1 DEF KnownIn
    <3> QED BY <1>1, <1>3, <1>4, <3>2, <3>3, PublishKnown
  <2> QED BY <2>2, <2>3, <2>4 DEF CursorInv
<1>7. ASSUME NEW e \in Event, Publish(<<e>>), e.kind # "row", UNCHANGED <<log, accepted>>
      PROVE  CursorInv'
  <2>1. <<e>> \in Seq(Event) /\ KnownIn(<<e>>)
    BY <1>7 DEF KnownIn
  <2>2. FromServer'
    BY <1>1, <1>3, <1>4, <1>7, <2>1, PublishKnown
  <2>3. Sent' /\ OwnEarly' /\ CursorKept' /\ cursor' <= Len(log')
    BY <1>2, <1>7, SentSame, OwnEarlySame, CursorKeptSame DEF CursorInv
  <2>4. \A s \in Slot : Replay(s)'
    BY <1>1, <1>2, <1>7, ReplayAllSame DEF CursorInv
  <2> QED BY <2>2, <2>3, <2>4 DEF CursorInv
<1>8. CASE Advance(m)
  <2> DEFINE e == [kind |-> "delivery",
                   row |-> [ServerRow(m) EXCEPT !.delivery = delivery[m] + 1]]
  <2>1. e \in Event /\ e.kind # "row"
    BY <1>1, <1>8, AdvanceFits
  <2>2. Publish(<<e>>) /\ UNCHANGED <<log, accepted>>
    BY <1>8 DEF Advance
  <2> HIDE DEF e
  <2> QED BY <1>7, <2>1, <2>2
<1>9. ASSUME NEW kind \in Notices, Notice(m, kind) PROVE CursorInv'
  <2> DEFINE e == [kind |-> kind, row |-> [msg |-> m, id |-> FALSE, ver |-> 0, delivery |-> 0,
                                           pending |-> FALSE, time |-> 0]]
  <2>1. e \in Event /\ e.kind # "row"
    BY NoticeFits, BoundAssumption
  <2>2. Publish(<<e>>) /\ UNCHANGED <<log, accepted>>
    BY <1>9 DEF Notice
  <2> HIDE DEF e
  <2> QED BY <1>7, <2>1, <2>2
<1> QED BY <1>5, <1>6, <1>8, <1>9 DEF Server

-----------------------------------------------------------------------------

\* Rows of the server are written: none of them is optimistic.
LEMMA WrittenEarly ==
  ASSUME OwnEarly, NEW rows, Known(rows), Written(cache, cache', rows), UNCHANGED <<log, ahead>>
  PROVE  OwnEarly'
<1>1. ASSUME ~ ahead', NEW k \in 1..Len(cache'), ~ cache'[k].id PROVE Early(cache[k])'
  <2>1. PICK j \in 1..Len(cache) : cache'[k] = cache[j]
    BY <1>1 DEF Known, Written
  <2>2. Early(cache[j])
    BY <1>1, <2>1 DEF OwnEarly
  <2> QED BY <2>1, <2>2, LogSame DEF Early
<1> QED BY <1>1 DEF OwnEarly

\* And none of them is stale.
LEMMA WrittenKept ==
  ASSUME CursorKept, NEW rows \in Seq(Row), Overtakes(rows), Written(cache, cache', rows),
         UNCHANGED <<cursor, log, ahead>>
  PROVE  CursorKept'
<1>1. ASSUME ~ overtaken', ~ ahead', NEW k \in 1..Len(cache') PROVE ~ Stale(cache[k])'
  <2>1. ~ overtaken /\ \A j \in 1..Len(rows) : ~ Stale(rows[j])
    <3>1. DOMAIN rows = 1..Len(rows)
      OBVIOUS
    <3>2. overtaken' = (overtaken \/ \E j \in 1..Len(rows) : Stale(rows[j]))
      BY <3>1, Zenon DEF Overtakes
    <3> QED BY <1>1, <3>2, Zenon
  <2>2. \A j \in 1..Len(cache) : ~ Stale(cache[j])
    BY <1>1, <2>1 DEF CursorKept
  <2>3. \/ \E j \in 1..Len(rows) : cache'[k] = rows[j]
        \/ \E j \in 1..Len(cache) : cache'[k] = cache[j]
    BY DEF Written
  <2> QED BY <2>1, <2>2, <2>3 DEF Stale
<1> QED BY <1>1 DEF CursorKept

LEMMA SendCursor ==
  ASSUME TranscriptInv, CursorInv, NEW m \in Msg, NEW t \in ClientTime, Send(m, t)
  PROVE  CursorInv'
<1> DEFINE row == [msg |-> m, id |-> FALSE, ver |-> 0, delivery |-> 0, pending |-> TRUE,
                   time |-> t]
<1>1. /\ cache \in Single /\ Len(log) \in Nat /\ cursor \in Nat /\ outbox \in Seq(Mine)
      /\ m \in Mine \ typed /\ ~ Exists(m)
      /\ UNCHANGED <<cursor, log, inbox, page, older, feed, overtaken>>
  BY CacheSingle DEF Send, fetchVars, TranscriptInv, TypeOK, CursorInv, Sent
<1>2. row \in Row /\ ~ row.id /\ row.msg = m /\ row.time = t
  <2>1. t \in Nat /\ 0 \in 0..MaxLog /\ 0 \in -1..3
    BY TimeTypes, BoundAssumption DEF TranscriptInv
  <2> QED BY <1>1, <2>1 DEF Row
<1>3. cache' = mergeMessage(cache, row)
  BY DEF Send
<1> HIDE DEF row
<1>4. \A k \in 1..Len(cache') : cache'[k] = row \/ \E j \in 1..Len(cache) : cache'[k] = cache[j]
  BY <1>1, <1>2, <1>3, MergeKeeps
<1>5. Sent'
  <2>1. typed' = typed \cup {m}
    BY DEF Send
  <2>2. accepted' \subseteq accepted \cup {m}
    BY DEF Send, SendFrame
  <2>3. outbox' = outbox \/ outbox' = Append(outbox, m)
    BY DEF Send, SendFrame
  <2>4. \A i \in 1..Len(outbox') : outbox'[i] = m \/ \E j \in 1..Len(outbox) : outbox'[i] = outbox[j]
    BY <1>1, <2>3
  <2> QED BY <1>1, <2>1, <2>2, <2>4, LogSame DEF CursorInv, Sent
<1>6. ahead \in BOOLEAN /\ t \in Nat /\ ahead' = (ahead \/ t > 2 * Len(log) + 1)
  BY TimeTypes DEF Send, TranscriptInv, TypeOK
<1>7. ~ ahead' => ~ ahead /\ ~ (t > 2 * Len(log) + 1)
  BY <1>6, Zenon
<1>8. ~ ahead' => t <= 2 * Len(log) + 1
  BY <1>1, <1>6, <1>7
<1>9. ASSUME ~ ahead', NEW k \in 1..Len(cache'), ~ cache'[k].id PROVE Early(cache[k])'
  <2>1. CASE cache'[k] = row
    <3>1. row.time <= 2 * Len(log') + 1
      BY <1>1, <1>2, <1>9, <1>8
    <3> QED BY <1>1, <1>2, <2>1, <3>1, LogSame DEF Early
  <2>2. CASE \E j \in 1..Len(cache) : cache'[k] = cache[j]
    <3>1. PICK j \in 1..Len(cache) : cache'[k] = cache[j]
      BY <2>2
    <3>2. Early(cache[j])
      BY <1>9, <1>7, <3>1 DEF CursorInv, OwnEarly
    <3> QED BY <1>1, <3>1, <3>2, LogSame DEF Early
  <2> QED BY <1>4, <2>1, <2>2
<1>10. ASSUME ~ overtaken', ~ ahead', NEW k \in 1..Len(cache') PROVE ~ Stale(cache[k])'
  <2>1. \A j \in 1..Len(cache) : ~ Stale(cache[j])
    BY <1>1, <1>10, <1>7 DEF CursorInv, CursorKept
  <2>2. ~ Stale(row)
    <3>1. DOMAIN log = 1..Len(log)
      BY DEF TranscriptInv, TypeOK
    <3> QED BY <1>1, <1>2, <3>1 DEF Stale, Exists
  <2> QED BY <1>1, <1>4, <2>1, <2>2 DEF Stale
<1>11. \A s \in Slot : Replay(s)'
  <2>1. \A s \in Slot : Replay(s) /\ feed'[s] = feed[s]
    BY <1>1 DEF CursorInv
  <2>2. TypeOK /\ cursor' \in Nat /\ cursor <= cursor'
    BY <1>1 DEF TranscriptInv
  <2> QED BY <1>1, <2>1, <2>2, ReplaySame
<1>12. FromServer' /\ cursor' <= Len(log')
  BY <1>1, FromServerSame DEF CursorInv
<1> QED BY <1>5, <1>9, <1>10, <1>11, <1>12 DEF CursorInv, OwnEarly, CursorKept

\* A slot whose fetch has not been answered holds no page.
LEMMA AskedCursor ==
  ASSUME NEW s \in Slot, feed'[s].at # "here", feed'[s].at = "asked" => feed'[s].from <= cursor'
  PROVE  Replay(s)'
BY DEF Replay

LEMMA RecoverCursor ==
  ASSUME TypeOK, \A s \in Slot : Replay(s), Recover, UNCHANGED <<cursor, log>>
  PROVE  \A s \in Slot : Replay(s)'
<1>1. cursor' \in Nat /\ cursor <= cursor' /\ feed \in [Slot -> FeedFetch] /\ cursor <= cursor
  BY DEF TypeOK
<1>2. CASE \E s \in Slot : feed[s] = None
  <2> DEFINE free == CHOOSE s \in Slot : feed[s] = None
             fetch == [at |-> "asked", from |-> cursor, left |-> MaxPages - 1]
  <2>1. free \in Slot
    BY <1>2
  <2>2. feed' = [feed EXCEPT ![free] = fetch]
    BY <1>2 DEF Recover
  <2>3. fetch.at = "asked" /\ fetch.from = cursor
    OBVIOUS
  <2> HIDE DEF free, fetch
  <2>4. ASSUME NEW s \in Slot PROVE Replay(s)'
    <3>1. CASE s = free
      <4>1. feed'[s] = fetch
        BY <1>1, <2>1, <2>2, <3>1
      <4> QED BY <1>1, <2>3, <4>1, AskedCursor
    <3>2. CASE s # free
      <4>1. feed'[s] = feed[s]
        BY <1>1, <2>1, <2>2, <3>2
      <4> QED BY <1>1, <4>1, ReplaySame
    <3> QED BY <3>1, <3>2
  <2> QED BY <2>4
<1>3. CASE ~ \E s \in Slot : feed[s] = None
  <2>1. \A s \in Slot : feed'[s] = feed[s]
    BY <1>3 DEF Recover
  <2> QED BY <1>1, <2>1, ReplaySame
<1> QED BY <1>2, <1>3

LEMMA LinkCursor ==
  ASSUME TranscriptInv, CursorInv, Breaks \/ Closed \/ Opens PROVE CursorInv'
<1> USE DEF CursorInv
<1>1. TypeOK /\ outbox \in Seq(Mine)
  BY DEF TranscriptInv, TypeOK
<1>2. CASE Breaks
  <2>1. UNCHANGED <<cache, cursor, typed, outbox, page, older, feed, log, accepted, overtaken,
                  ahead>>
        /\ inbox' = <<>>
    BY <1>2 DEF Breaks, fetchVars, serverVars
  <2>2. Sent' /\ OwnEarly' /\ CursorKept' /\ (\A s \in Slot : Replay(s)') /\ cursor' <= Len(log')
    BY <1>1, <2>1, SentSame, OwnEarlySame, CursorKeptSame, ReplayAllSame
  <2>3. FromServer'
    BY <2>1 DEF FromServer, Known, KnownIn
  <2> QED BY <2>2, <2>3
<1>3. CASE Closed
  <2>1. UNCHANGED <<cache, cursor, typed, outbox, inbox, page, older, feed, log, accepted, overtaken,
                  ahead>>
    BY <1>3 DEF Closed, fetchVars, serverVars, historyVars
  <2> QED BY <1>1, <2>1, SentSame, FromServerSame, OwnEarlySame, CursorKeptSame, ReplayAllSame
<1>4. CASE Opens
  <2>1. UNCHANGED <<cache, cursor, typed, inbox, older, log, overtaken, ahead>>
    BY <1>4 DEF Opens, historyVars
  <2>2. outbox' = <<>> /\ accepted' = accepted \cup {outbox[i] : i \in DOMAIN outbox}
    BY <1>4 DEF Opens
  <2>3. Sent'
    <3>1. accepted' \subseteq typed
      <4>1. DOMAIN outbox = 1..Len(outbox)
        BY <1>1
      <4> QED BY <2>2, <4>1 DEF Sent
    <3>2. Len(outbox') = 0
      BY <2>2
    <3> QED BY <2>1, <3>1, <3>2, LogSame DEF Sent
  <2>4. page' = page \/ page' = Asked
    BY <1>4 DEF Opens
  <2>5. FromServer'
    BY <2>1, <2>4 DEF FromServer, Known, KnownIn, Asked
  <2>6. OwnEarly' /\ CursorKept' /\ cursor' <= Len(log')
    BY <2>1, OwnEarlySame, CursorKeptSame
  <2>7. \A s \in Slot : Replay(s)'
    <3>1. Recover \/ feed' = feed
      BY <1>4 DEF Opens
    <3> QED BY <1>1, <2>1, <3>1, RecoverCursor, ReplayAllSame
  <2> QED BY <2>3, <2>5, <2>6, <2>7
<1> QED BY <1>2, <1>3, <1>4

LEMMA RecoverTimerCursor ==
  ASSUME TranscriptInv, CursorInv, RecoverTimer PROVE CursorInv'
<1>1. UNCHANGED <<cache, cursor, typed, outbox, inbox, page, older, log, accepted, overtaken, ahead>>
      /\ Recover
  BY DEF RecoverTimer, connVars, serverVars, historyVars
<1>2. \A s \in Slot : Replay(s)'
  BY <1>1, RecoverCursor DEF TranscriptInv, CursorInv
<1> QED BY <1>1, <1>2, SentSame, FromServerSame, OwnEarlySame, CursorKeptSame DEF CursorInv

LEMMA RestartCursor ==
  ASSUME TranscriptInv, CursorInv, Restart PROVE CursorInv'
<1>1. UNCHANGED <<cursor, typed, log, accepted, overtaken, ahead>> /\ cache' = <<>> /\ outbox' = <<>>
      /\ inbox' = <<>> /\ page' = Asked /\ older' = None /\ Len(<<>>) = 0
  BY DEF Restart, serverVars
<1>2. \A s \in Slot : feed'[s] = None
  BY DEF Restart
<1>3. \A s \in Slot : Replay(s)'
  BY <1>2, AskedCursor DEF None
<1>4. Sent'
  BY <1>1, LogSame DEF CursorInv, Sent
<1>5. FromServer' /\ OwnEarly' /\ CursorKept'
  BY <1>1 DEF FromServer, KnownIn, OwnEarly, CursorKept, Asked, None
<1> QED BY <1>1, <1>3, <1>4, <1>5 DEF CursorInv

LEMMA HandleCursor ==
  ASSUME TranscriptInv, CursorInv, Handle PROVE CursorInv'
<1>1. UNCHANGED <<cursor, typed, outbox, page, older, feed, log, accepted, ahead>>
  BY DEF Handle, connVars, fetchVars, serverVars
<1>2. /\ inbox \in Seq(Event) /\ inbox # <<>> /\ inbox' = Tail(inbox)
      /\ cache \in Single /\ cache \in Seq(Row) /\ TypeOK
  BY CacheSingle DEF Handle, TranscriptInv, TypeOK
<1>3. Sent' /\ (\A s \in Slot : Replay(s)') /\ cursor' <= Len(log')
  BY <1>1, <1>2, SentSame, ReplayAllSame DEF CursorInv
<1>4. FromServer'
  <2>1. \A i \in 1..Len(inbox') : i + 1 \in 1..Len(inbox) /\ inbox'[i] = inbox[i + 1]
    BY <1>2
  <2>2. KnownIn(inbox')
    BY <2>1 DEF CursorInv, FromServer, KnownIn
  <2> QED BY <1>1, <2>2 DEF CursorInv, FromServer, Known
<1>5. CASE HandleRow /\ Head(inbox).row \in Row /\ Head(inbox).kind = "row"
  <2> DEFINE row == Head(inbox).row
             rows == <<row>>
  <2>1. row \in Row /\ row.id
    <3>1. Head(inbox) = inbox[1] /\ 1 \in 1..Len(inbox)
      BY <1>2
    <3> QED BY <1>5, <3>1 DEF CursorInv, FromServer, KnownIn
  <2>2. cache' = mergeMessage(cache, row) /\ Overtakes(rows)
    BY <1>5 DEF HandleRow
  <2> HIDE DEF row
  <2>3. rows \in Seq(Row) /\ Len(rows) = 1 /\ rows[1] = row
    BY <2>1
  <2> HIDE DEF rows
  <2>4. Known(rows)
    BY <2>1, <2>3 DEF Known
  <2>5. Written(cache, cache', rows)
    <3>1. 1 \in 1..Len(rows) /\ \A i \in 1..Len(rows) : rows[i] = row
      BY <2>3
    <3>2. \A k \in 1..Len(cache') :
            cache'[k] = row \/ \E j \in 1..Len(cache) : cache'[k] = cache[j] /\ cache[j].msg # row.msg
      BY <1>2, <2>1, <2>2, MergeKeeps
    <3>3. ASSUME NEW k \in 1..Len(cache')
          PROVE  \/ \E j \in 1..Len(rows) : cache'[k] = rows[j]
                 \/ \E j \in 1..Len(cache) :
                      cache'[k] = cache[j] /\ \A i \in 1..Len(rows) : rows[i].msg # cache[j].msg
      <4>1. CASE cache'[k] = row
        BY <3>1, <4>1
      <4>2. ASSUME NEW j \in 1..Len(cache), cache'[k] = cache[j], cache[j].msg # row.msg
            PROVE  \A i \in 1..Len(rows) : rows[i].msg # cache[j].msg
        BY <3>1, <4>2
      <4> QED BY <3>2, <4>1, <4>2
    <3> QED BY <3>3 DEF Written
  <2> QED BY <1>1, <1>3, <1>4, <2>2, <2>3, <2>4, <2>5, WrittenEarly, WrittenKept DEF CursorInv
<1>6. CASE /\ UNCHANGED overtaken
           /\ Len(cache') = Len(cache)
           /\ \A i \in 1..Len(cache) : Patched(cache[i], cache'[i])
  <2>1. ASSUME ~ ahead', NEW k \in 1..Len(cache'), ~ cache'[k].id PROVE Early(cache[k])'
    <3>1. Early(cache[k]) /\ cache'[k].msg = cache[k].msg /\ cache'[k].time = cache[k].time
      BY <1>1, <1>6, <2>1 DEF CursorInv, OwnEarly, Patched
    <3> QED BY <1>1, <3>1, LogSame DEF Early
  <2>2. ASSUME ~ overtaken', ~ ahead', NEW k \in 1..Len(cache') PROVE ~ Stale(cache[k])'
    <3>1. ~ Stale(cache[k]) /\ cache'[k].msg = cache[k].msg /\ cache'[k].ver = cache[k].ver
      BY <1>1, <1>6, <2>2 DEF CursorInv, CursorKept, Patched
    <3> QED BY <1>1, <3>1 DEF Stale
  <2> QED BY <1>3, <1>4, <2>1, <2>2 DEF CursorInv, OwnEarly, CursorKept
<1> QED BY <1>5, <1>6, HandleWrites

LEMMA PageCursor ==
  ASSUME TranscriptInv, CursorInv, Refetch \/ PageAnswers \/ PageApplies PROVE CursorInv'
<1> USE DEF CursorInv
<1>1. UNCHANGED <<cursor, typed, outbox, inbox, older, feed, log, accepted, ahead>>
  BY DEF Refetch, PageAnswers, PageApplies, connVars, serverVars, historyVars
<1>2. Sent' /\ (\A s \in Slot : Replay(s)') /\ cursor' <= Len(log')
  BY <1>1, SentSame, ReplayAllSame DEF TranscriptInv
<1>3. CASE Refetch \/ PageAnswers
  <2>1. UNCHANGED <<cache, overtaken>> /\ (page' = Asked \/ \E keep : page' = FirstPage(keep))
    BY <1>3 DEF Refetch, PageAnswers, historyVars
  <2>2. \A keep : Known(FirstPage(keep).rows)
    BY FirstPageGood, ServerTypes DEF TranscriptInv
  <2>3. FromServer'
    <3>1. page'.at = "here" => Known(page'.rows)
      BY <2>1, <2>2 DEF Asked
    <3> QED BY <1>1, <3>1 DEF FromServer, Known
  <2> QED BY <1>1, <1>2, <2>1, <2>3, OwnEarlySame, CursorKeptSame
<1>4. CASE PageApplies
  <2>1. page \in Answer /\ page.at = "here" /\ Distinct(page.rows)
    BY <1>4 DEF PageApplies, TranscriptInv, TypeOK, PageInv, Fetch, None, Asked
  <2>2. page.rows \in Single /\ page.rows \in Seq(Row) /\ cache \in Single /\ Known(page.rows)
    BY <2>1, CacheSingle DEF Answer, Single, FromServer
  <2>3. page' = None /\ cache' = mergeMissing(cache, page.rows) /\ Overtakes(page.rows)
    BY <1>4 DEF PageApplies
  <2>4. Written(cache, cache', page.rows)
    BY <2>2, <2>3, MissingKeeps
  <2>5. OwnEarly' /\ CursorKept'
    BY <1>1, <2>2, <2>3, <2>4, WrittenEarly, WrittenKept
  <2>6. FromServer'
    BY <1>1, <2>3 DEF FromServer, Known, None
  <2> QED BY <1>2, <2>5, <2>6
<1> QED BY <1>3, <1>4

LEMMA OlderCursor ==
  ASSUME TranscriptInv, CursorInv, LoadOlder \/ OlderAnswers \/ OlderApplies PROVE CursorInv'
<1> USE DEF CursorInv
<1>1. UNCHANGED <<cursor, typed, outbox, inbox, page, feed, log, accepted, ahead>>
  BY DEF LoadOlder, OlderAnswers, OlderApplies, connVars, serverVars, historyVars
<1>2. Sent' /\ (\A s \in Slot : Replay(s)') /\ cursor' <= Len(log')
  BY <1>1, SentSame, ReplayAllSame DEF TranscriptInv
<1>3. CASE LoadOlder
  <2>1. UNCHANGED <<cache, overtaken>> /\ older'.at = "asked"
    BY <1>3 DEF LoadOlder, historyVars
  <2>2. FromServer'
    BY <1>1, <2>1 DEF FromServer, Known
  <2> QED BY <1>1, <1>2, <2>1, <2>2, OwnEarlySame, CursorKeptSame
<1>4. CASE OlderAnswers
  <2>1. older.offset \in Nat
    BY <1>4 DEF OlderAnswers, TranscriptInv, TypeOK, OlderFetch, None, Answer
  <2>2. UNCHANGED <<cache, overtaken>> /\ older' = ListPage(older.offset)
    BY <1>4 DEF OlderAnswers, historyVars
  <2>3. Known(older'.rows)
    BY <2>1, <2>2, ListPageGood, ServerTypes DEF TranscriptInv
  <2>4. FromServer'
    BY <1>1, <2>3 DEF FromServer, Known
  <2> QED BY <1>1, <1>2, <2>2, <2>4, OwnEarlySame, CursorKeptSame
<1>5. CASE OlderApplies
  <2>1. older.rows \in Seq(Row) /\ older.at = "here" /\ cache \in Single
    BY <1>5, CacheSingle DEF OlderApplies, TranscriptInv, TypeOK, OlderFetch, None, Answer
  <2>2. Known(older.rows)
    BY <2>1 DEF FromServer
  <2>3. older' = None /\ cache' = MergeAll(cache, older.rows) /\ Overtakes(older.rows)
    BY <1>5 DEF OlderApplies
  <2>4. Written(cache, cache', older.rows)
    BY <2>1, <2>3, MergeAllKeeps
  <2>5. OwnEarly' /\ CursorKept'
    BY <1>1, <2>1, <2>2, <2>3, <2>4, WrittenEarly, WrittenKept
  <2>6. FromServer'
    BY <1>1, <2>3 DEF FromServer, Known, None
  <2> QED BY <1>2, <2>5, <2>6
<1> QED BY <1>3, <1>4, <1>5

LEMMA ServerRowIs ==
  \A m : /\ ServerRow(m).msg = m /\ ServerRow(m).id
         /\ ServerRow(m).ver = Version(m) /\ ServerRow(m).time = 2 * Created(m)
BY DEF ServerRow

\* A page of the feed that starts no later than the cursor.
LEMMA FeedPageReplay ==
  ASSUME TypeOK, NEW from \in 0..MaxLog, from <= cursor, NEW left \in Nat
  PROVE  LET p == FeedPage(from, left)
         IN /\ p.at = "here"
            /\ p.next <= Len(log)
            /\ \A i \in cursor + 1..p.next : \E j \in 1..Len(p.rows) : p.rows[j].msg = log[i]
            /\ \A j \in 1..Len(p.rows) : ReplayRow(p.rows[j], p.next)
<1> DEFINE n == IF from + FeedSize < Len(log) THEN from + FeedSize ELSE Len(log)
           rows == Rows(log, from, FeedSize)
<1>1. /\ log \in Seq(Msg) /\ Len(log) \in Nat /\ Len(log) <= MaxLog /\ delivery \in [Msg -> 1..3]
      /\ cursor \in Nat /\ from \in Nat /\ FeedSize \in Nat
  BY SizeAssumption, BoundAssumption DEF TypeOK
<1>2. n \in Nat /\ n <= Len(log) /\ n <= from + FeedSize
  BY <1>1
<1>3. /\ FeedPage(from, left).at = "here" /\ FeedPage(from, left).next = n
      /\ FeedPage(from, left).rows = rows
  BY DEF FeedPage
<1>4. /\ \A j \in 1..Len(rows) : \E p \in 1..Len(log) : rows[j] = ServerRow(log[p])
      /\ \A p \in 1..Len(log) : from < p /\ p <= from + FeedSize =>
           \E j \in 1..Len(rows) : rows[j] = ServerRow(log[p])
  <2>1. \A i \in 1..Len(log) : Exists(log[i])
    BY DEF Exists
  <2> QED BY <1>1, <2>1, RowsGood
<1> HIDE DEF n, rows
<1>5. ASSUME NEW i \in cursor + 1..n PROVE \E j \in 1..Len(rows) : rows[j].msg = log[i]
  <2>1. i \in 1..Len(log) /\ from < i /\ i <= from + FeedSize
    BY <1>1, <1>2
  <2> QED BY <1>4, <2>1, ServerRowIs
<1>6. ASSUME NEW j \in 1..Len(rows) PROVE ReplayRow(rows[j], n)
  <2>1. PICK p \in 1..Len(log) : rows[j] = ServerRow(log[p])
    BY <1>4
  <2>2. rows[j].msg = log[p] /\ rows[j].id /\ rows[j].ver = Version(log[p])
        /\ rows[j].time = 2 * Created(log[p])
    BY <2>1, ServerRowIs
  <2>3. Exists(log[p])
    BY DEF Exists
  <2>4. \A i \in 1..n : log[i] = log[p] => i <= Version(log[p])
    <3>1. \A i \in 1..n : i \in 1..Len(log)
      BY <1>1, <1>2
    <3> QED BY <1>1, <2>3, <3>1, VersionLast
  <2> QED BY <2>2, <2>3, <2>4 DEF ReplayRow
<1> QED BY <1>2, <1>3, <1>5, <1>6

\* The page is applied: an entry of the feed that is left out of the transcript is of
\* a message the transcript does not show, so the cursor may pass it.
LEMMA FeedApplied ==
  ASSUME TranscriptInv, CursorInv, NEW s \in Slot, FeedApplies(s)
  PROVE  OwnEarly' /\ CursorKept'
<1> DEFINE entries == feed[s].rows
           next == feed[s].next
           keep == {i \in DOMAIN entries : isInScope(entries[i], cache)}
           rows == Those(entries, keep)
<1>1. /\ log \in Seq(Msg) /\ Len(log) \in Nat /\ cursor \in Nat /\ cursor <= Len(log)
      /\ cache \in Single /\ cache \in Seq(Row) /\ overtaken \in BOOLEAN
  BY CacheSingle DEF TranscriptInv, TypeOK, CursorInv
<1>2. feed[s] \in FeedFetch /\ feed[s].at = "here"
  BY DEF TranscriptInv, TypeOK, FeedApplies
<1>3. entries \in Seq(Row) /\ next \in Nat
  BY <1>2 DEF FeedFetch, None
<1>4. /\ next <= Len(log)
      /\ \A i \in cursor + 1..next : \E j \in 1..Len(entries) : entries[j].msg = log[i]
      /\ \A j \in 1..Len(entries) : ReplayRow(entries[j], next)
  BY <1>2 DEF CursorInv, Replay
<1>5. cache' = MergeAll(cache, rows) /\ Overtakes(rows) /\ UNCHANGED <<log, ahead>>
  BY DEF FeedApplies, serverVars
<1>6. cursor' = IF next > cursor THEN next ELSE cursor
  BY DEF FeedApplies, setCursor
<1>7. \A j \in 1..Len(entries) : j \in keep <=> isInScope(entries[j], cache)
  BY <1>3
<1> HIDE DEF entries, next, keep
<1>8. /\ rows \in Seq(Row)
      /\ \A j \in 1..Len(rows) : \E p \in 1..Len(entries) : rows[j] = entries[p]
      /\ \A p \in 1..Len(entries) : p \in keep => \E j \in 1..Len(rows) : rows[j] = entries[p]
  BY <1>3, ThoseGood
<1> HIDE DEF rows
<1>9. \A j \in 1..Len(rows) : ReplayRow(rows[j], next)
  BY <1>4, <1>8
<1>10. Written(cache, cache', rows)
  BY <1>1, <1>5, <1>8, MergeAllKeeps
<1>11. OwnEarly'
  <2>1. Known(rows)
    BY <1>9 DEF Known, ReplayRow
  <2> QED BY <1>5, <1>10, <2>1, WrittenEarly DEF CursorInv
<1>12. ASSUME ~ ahead, NEW j \in 1..Len(cache), NEW i \in cursor + 1..next,
              cache[j].msg = log[i]
       PROVE  \E q \in 1..Len(rows) : rows[q].msg = cache[j].msg
  <2>1. PICK p \in 1..Len(entries) : entries[p].msg = cache[j].msg
    BY <1>4, <1>12
  <2>2. ReplayRow(entries[p], next)
    BY <1>4
  <2>3. j \in DOMAIN cache
    BY <1>1
  <2>4. isInScope(entries[p], cache)
    <3>1. CASE cache[j].id
      BY <2>1, <2>3, <3>1 DEF isInScope
    <3>2. CASE ~ cache[j].id
      <4>1. Exists(cache[j].msg)
        BY <2>1, <2>2 DEF ReplayRow
      <4>2. cache[j].time < entries[p].time
        BY <1>12, <2>1, <2>2, <3>2, <4>1 DEF CursorInv, OwnEarly, Early, ReplayRow
      <4>3. cache[j].time \in Nat /\ entries[p].time \in Nat
        <5>1. cache[j] \in Row /\ entries[p] \in Row
          BY <1>1, <1>3
        <5> QED BY <5>1 DEF Row
      <4>4. cache[j].time <= entries[p].time
        BY <4>2, <4>3
      <4> QED BY <2>3, <4>4 DEF isInScope
    <3> QED BY <3>1, <3>2
  <2>5. p \in keep
    BY <1>7, <2>4
  <2> QED BY <1>8, <2>1, <2>5
<1>13. ASSUME ~ overtaken', ~ ahead', NEW k \in 1..Len(cache') PROVE ~ Stale(cache[k])'
  <2>1. DOMAIN log = 1..Len(log) /\ DOMAIN rows = 1..Len(rows)
    BY <1>1, <1>8
  <2>2. ~ overtaken /\ \A j \in 1..Len(rows) : ~ Stale(rows[j])
    <3>1. overtaken' = (overtaken \/ \E j \in 1..Len(rows) : Stale(rows[j]))
      BY <1>5, <2>1, Zenon DEF Overtakes
    <3> QED BY <1>13, <3>1, Zenon
  <2>3. ~ ahead /\ \A j \in 1..Len(cache) : ~ Stale(cache[j])
    BY <1>5, <1>13, <2>2 DEF CursorInv, CursorKept
  <2>4. ASSUME NEW i \in 1..Len(log), i <= cursor', log[i] = cache'[k].msg, i > cache'[k].ver
        PROVE  FALSE
    <3>1. CASE i <= cursor
      <4>1. (\E j \in 1..Len(rows) : cache'[k] = rows[j]) \/ \E j \in 1..Len(cache) : cache'[k] = cache[j]
        BY <1>10 DEF Written
      <4> QED BY <2>1, <2>2, <2>3, <2>4, <3>1, <4>1 DEF Stale
    <3>2. CASE ~ (i <= cursor)
      <4>1. i \in cursor + 1..next /\ i \in 1..next
        BY <1>1, <1>3, <1>6, <2>4, <3>2
      <4>2. ASSUME NEW j \in 1..Len(rows), cache'[k] = rows[j] PROVE FALSE
        <5>1. i <= rows[j].ver
          BY <1>9, <2>4, <4>1, <4>2 DEF ReplayRow
        <5>2. rows[j].ver \in Nat
          <6>1. rows[j] \in Row
            BY <1>8
          <6> QED BY <6>1, BoundAssumption DEF Row
        <5> QED BY <2>4, <4>2, <5>1, <5>2
      <4>3. ASSUME NEW j \in 1..Len(cache), cache'[k] = cache[j],
                   \A q \in 1..Len(rows) : rows[q].msg # cache[j].msg
            PROVE  FALSE
        BY <1>12, <2>3, <2>4, <4>1, <4>3
      <4> QED BY <1>10, <4>2, <4>3 DEF Written
    <3> QED BY <3>1, <3>2
  <2> QED BY <1>5, <2>1, <2>4 DEF Stale
<1> QED BY <1>11, <1>13 DEF CursorKept

LEMMA FeedCursor ==
  ASSUME TranscriptInv, CursorInv, NEW s \in Slot, FeedAnswers(s) \/ FeedFails(s) \/ FeedApplies(s)
  PROVE  CursorInv'
<1> USE DEF CursorInv
<1>1. TypeOK /\ feed \in [Slot -> FeedFetch] /\ cursor \in 0..MaxLog /\ cursor \in Nat
      /\ feed[s] \in FeedFetch /\ cursor <= Len(log) /\ Len(log) \in Nat
  BY DEF TranscriptInv, TypeOK
<1>2. UNCHANGED <<typed, outbox, inbox, page, older, log, accepted, ahead>>
  BY DEF FeedAnswers, FeedFails, FeedApplies, connVars, serverVars, historyVars
<1>3. Sent' /\ FromServer'
  BY <1>2, SentSame, FromServerSame
<1>4. ASSUME cursor' \in Nat, cursor <= cursor', NEW fetch, feed' = [feed EXCEPT ![s] = fetch], Replay(s)'
      PROVE  \A r \in Slot : Replay(r)'
  <2> SUFFICES ASSUME NEW r \in Slot, r # s PROVE Replay(r)'
    BY <1>4
  <2>1. feed'[r] = feed[r]
    BY <1>1, <1>4
  <2> QED BY <1>1, <1>2, <1>4, <2>1, ReplaySame
<1>5. CASE FeedAnswers(s)
  <2>1. UNCHANGED <<cache, cursor, overtaken>> /\ feed' = [feed EXCEPT ![s] = FeedPage(feed[s].from, feed[s].left)]
    BY <1>5 DEF FeedAnswers, historyVars
  <2>2. feed[s].from \in 0..MaxLog /\ feed[s].from <= cursor /\ feed[s].left \in Nat
    BY <1>1, <1>5 DEF FeedAnswers, FeedFetch, None, Replay
  <2>3. feed'[s] = FeedPage(feed[s].from, feed[s].left)
    BY <1>1, <2>1
  <2>4. Replay(s)'
    <3> DEFINE p == FeedPage(feed[s].from, feed[s].left)
    <3>1. /\ p.at = "here"
          /\ p.next <= Len(log)
          /\ \A i \in cursor + 1..p.next : \E j \in 1..Len(p.rows) : p.rows[j].msg = log[i]
          /\ \A j \in 1..Len(p.rows) : ReplayRow(p.rows[j], p.next)
      BY <1>1, <2>2, FeedPageReplay
    <3>2. feed'[s] = p
      BY <2>3
    <3> HIDE DEF p
    <3>3. \A j \in 1..Len(p.rows) : ReplayRow(feed[s].rows[j], feed[s].next)'
      BY <1>2, <3>1, <3>2, LogSame DEF ReplayRow
    <3> QED BY <1>2, <2>1, <3>1, <3>2, <3>3 DEF Replay
  <2>5. \A r \in Slot : Replay(r)'
    <3>1. cursor' \in Nat /\ cursor <= cursor'
      BY <1>1, <2>1
    <3> QED BY <1>4, <2>1, <2>4, <3>1
  <2>6. OwnEarly' /\ CursorKept' /\ cursor' <= Len(log')
    BY <1>2, <2>1, OwnEarlySame, CursorKeptSame
  <2> QED BY <1>3, <2>5, <2>6
<1>6. CASE FeedFails(s)
  <2>1. UNCHANGED <<cache, cursor, overtaken>> /\ feed' = [feed EXCEPT ![s] = None]
    BY <1>6 DEF FeedFails, historyVars
  <2>2. feed'[s].at = "none"
    BY <1>1, <2>1 DEF None
  <2>3. Replay(s)'
    BY <2>2, AskedCursor
  <2>4. \A r \in Slot : Replay(r)'
    <3>1. cursor' \in Nat /\ cursor <= cursor'
      BY <1>1, <2>1
    <3> QED BY <1>4, <2>1, <2>3, <3>1
  <2>5. OwnEarly' /\ CursorKept' /\ cursor' <= Len(log')
    BY <1>2, <2>1, OwnEarlySame, CursorKeptSame
  <2> QED BY <1>3, <2>4, <2>5
<1>7. CASE FeedApplies(s)
  <2> DEFINE next == feed[s].next
             fetch == IF feed[s].more /\ feed[s].left > 0
                      THEN [at |-> "asked", from |-> next, left |-> feed[s].left - 1]
                      ELSE None
  <2>1. next \in Nat /\ next <= Len(log)
    BY <1>1, <1>7 DEF FeedApplies, FeedFetch, None, Replay
  <2>2. cursor' = (IF next > cursor THEN next ELSE cursor) /\ feed' = [feed EXCEPT ![s] = fetch]
    BY <1>1, <1>7 DEF FeedApplies, setCursor
  <2> HIDE DEF next
  <2>3. cursor' \in Nat /\ cursor <= cursor' /\ next <= cursor' /\ cursor' <= Len(log')
    BY <1>1, <1>2, <2>1, <2>2
  <2>4. fetch.at # "here" /\ (fetch.at = "asked" => fetch.from = next)
    BY DEF None
  <2> HIDE DEF fetch
  <2>5. feed'[s] = fetch
    BY <1>1, <2>2
  <2>6. Replay(s)'
    BY <2>3, <2>4, <2>5, AskedCursor
  <2>7. \A r \in Slot : Replay(r)'
    BY <1>4, <2>2, <2>3, <2>6
  <2>8. OwnEarly' /\ CursorKept'
    BY <1>7, FeedApplied
  <2> QED BY <1>3, <2>3, <2>7, <2>8
<1> QED BY <1>5, <1>6, <1>7

-----------------------------------------------------------------------------

LEMMA CursorInit == Init => CursorInv
<1> SUFFICES ASSUME Init PROVE CursorInv
  OBVIOUS
<1>1. /\ Len(log) = 0 /\ Len(cache) = 0 /\ Len(inbox) = 0 /\ Len(outbox) = 0
      /\ cursor = 0 /\ typed = {} /\ accepted = {}
      /\ page.at = "asked" /\ older.at = "none" /\ \A s \in Slot : feed[s].at = "none"
  BY DEF Init, Asked, None
<1>2. Sent /\ FromServer /\ OwnEarly /\ CursorKept
  BY <1>1 DEF Sent, Exists, FromServer, KnownIn, OwnEarly, CursorKept
<1>3. \A s \in Slot : Replay(s)
  BY <1>1 DEF Replay
<1> QED BY <1>1, <1>2, <1>3 DEF CursorInv

LEMMA CursorStep == TranscriptInv /\ CursorInv /\ [Next]_vars => CursorInv'
<1> SUFFICES ASSUME TranscriptInv, CursorInv, [Next]_vars PROVE CursorInv'
  OBVIOUS
<1>1. CASE UNCHANGED vars
  <2>1. UNCHANGED <<cache, cursor, typed, outbox, inbox, page, older, feed, log, accepted, overtaken,
                  ahead>>
    BY <1>1 DEF vars, connVars, fetchVars, serverVars, historyVars
  <2> QED BY <2>1, SentSame, FromServerSame, OwnEarlySame, CursorKeptSame, ReplayAllSame
          DEF TranscriptInv, CursorInv
<1> QED BY <1>1, SendCursor, ServerCursor, LinkCursor, HandleCursor, PageCursor, OlderCursor,
           RecoverTimerCursor, FeedCursor, RestartCursor DEF Next

\* Nothing the transcript shows is older than what the stored cursor says it has
\* recovered, for any messages, pages, overlapping replays, lost events and faults,
\* unless something older than the cursor was itself written (overtaken), or the user
\* sent by a clock ahead of the server's, by however much (ahead): otherwise a replay
\* that leaves an entry out because it is out of scope, and still moves the cursor
\* past it, never leaves a row of that message behind (recoverConversation, setCursor).
THEOREM CursorCorrect == Spec => []CursorKept
<1>1. Init => TranscriptInv /\ CursorInv
  BY TranscriptInit, CursorInit
<1>2. TranscriptInv /\ CursorInv /\ [Next]_vars => (TranscriptInv /\ CursorInv)'
  BY TranscriptStep, CursorStep
<1>3. CursorInv => CursorKept
  BY DEF CursorInv
<1> QED BY <1>1, <1>2, <1>3, PTL DEF Spec

=============================================================================
