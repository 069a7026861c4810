----------------------------- MODULE FramingProofs -----------------------------
(***************************************************************************)
(* Proofs about Framing: whatever is torn apart or dropped on the bytes of *)
(* a connection, for any sizes of messages, queues and connections and any *)
(* number of messages.                                                     *)
(***************************************************************************)
EXTENDS Framing, Induction, FiniteSetTheorems

UnitSet == {u \in Messages \X Nat : u[2] \in 1..(HeaderLen + u[1].len)}

\* Of two units on their way, the first belongs to the message that was sent first;
\* after a message's last unit no unit of it comes again.
Before(u, v) == u[1].id <= v[1].id /\ (IsLastUnit(u) => u[1].id < v[1].id)
Ordered(s) == \A i, j \in 1..Len(s) : i < j => Before(s[i], s[j])

\* No unit is missing between two, and none is there twice.
Follows(u, v) ==
    IF IsLastUnit(u) THEN v[2] = 1 /\ v[1].id = u[1].id + 1
    ELSE v[1] = u[1] /\ v[2] = u[2] + 1
Contiguous(s) == \A i \in 1..(Len(s) - 1) : Follows(s[i], s[i + 1])

-----------------------------------------------------------------------------
(* Units and sequences of them *)

LEMMA TwoNodes ==
    \A n \in Node : Other(n) \in Node /\ Other(n) # n /\ Other(Other(n)) = n
                    /\ \A m \in Node : m = n \/ m = Other(n)
<1>1. PICK a, b : Node = {a, b} /\ a # b
  <2>1. Node # {}
    BY FS_EmptySet, FramingAssumption
  <2>2. PICK a \in Node : TRUE
    BY <2>1
  <2>3. IsFiniteSet(Node \ {a}) /\ Cardinality(Node \ {a}) = 1
    BY <2>2, FS_RemoveElement, FramingAssumption
  <2>4. PICK b : Node \ {a} = {b}
    BY <2>3, FS_Singleton
  <2> QED
    BY <2>2, <2>4
<1> QED
  BY <1>1 DEF Other

LEMMA MessageType ==
    ASSUME NEW m \in Messages
    PROVE  /\ m.id \in Nat \ {0} /\ m.len \in PayloadLens /\ m.len \in 0..MaxPayload
           /\ m.len \in Nat
<1>1. m.id \in UNION {1..MaxMessages[n] : n \in Node} /\ m.len \in PayloadLens
  BY DEF Messages
<1>2. m.id \in Nat \ {0}
  <2>1. PICK n \in Node : m.id \in 1..MaxMessages[n]
    BY <1>1
  <2> QED
    BY <2>1, FramingAssumption
<1>3. PayloadLens \subseteq 0..MaxPayload /\ MaxPayload \in Nat
  BY FramingAssumption
<1>4. m.len \in 0..MaxPayload
  BY <1>1, <1>3
<1>5. m.len \in Nat
  BY <1>3, <1>4
<1> QED
  BY <1>1, <1>2, <1>4, <1>5

LEMMA UnitsType ==
    ASSUME NEW m \in Messages
    PROVE  /\ Units(m) \in Seq(UnitSet) /\ Len(Units(m)) = HeaderLen + m.len
           /\ \A i \in 1..(HeaderLen + m.len) : Units(m)[i] = <<m, i>>
           /\ Ordered(Units(m)) /\ Contiguous(Units(m))
<1>1. HeaderLen + m.len \in Nat /\ m.id \in Nat
  BY MessageType DEF HeaderLen
<1>2. \A i \in 1..(HeaderLen + m.len) : <<m, i>> \in UnitSet
  BY <1>1 DEF UnitSet
<1>3. Units(m) \in [1..(HeaderLen + m.len) -> UnitSet]
  BY <1>2 DEF Units
<1>4. /\ Units(m) \in Seq(UnitSet) /\ Len(Units(m)) = HeaderLen + m.len
      /\ \A i \in 1..(HeaderLen + m.len) : Units(m)[i] = <<m, i>>
  <2>1. Units(m) \in Seq(UnitSet)
    BY <1>1, <1>3
  <2>2. DOMAIN Units(m) = 1..(HeaderLen + m.len)
    BY <1>3
  <2>3. Len(Units(m)) = HeaderLen + m.len
    BY <1>1, <2>1, <2>2, LenProperties
  <2> QED
    BY <2>1, <2>3 DEF Units
<1>5. Ordered(Units(m))
  BY <1>1, <1>4 DEF Ordered, Before, IsLastUnit
<1>6. Contiguous(Units(m))
  BY <1>1, <1>4 DEF Contiguous, Follows, IsLastUnit
<1> QED
  BY <1>4, <1>5, <1>6

LEMMA UnitType ==
    ASSUME NEW u \in UnitSet
    PROVE  /\ u[1] \in Messages /\ u[2] \in Nat /\ u[2] \in 1..(HeaderLen + u[1].len)
           /\ u = <<u[1], u[2]>>
  BY DEF UnitSet

LEMMA UnitIds ==
    \A s \in Seq(UnitSet) : \A i \in 1..Len(s) : s[i] \in UnitSet /\ s[i][1].id \in Nat
<1> TAKE s \in Seq(UnitSet)
<1> TAKE i \in 1..Len(s)
<1>1. s[i] \in UnitSet
  BY LenProperties
<1>2. s[i][1] \in Messages
  BY <1>1, UnitType
<1> QED
  BY <1>1, <1>2, MessageType

LEMMA ConcatOrdered ==
    ASSUME NEW s \in Seq(UnitSet), NEW t \in Seq(UnitSet), Ordered(s), Ordered(t),
           \A i \in 1..Len(s), j \in 1..Len(t) : Before(s[i], t[j])
    PROVE  Ordered(s \o t)
<1>1. /\ Len(s \o t) = Len(s) + Len(t) /\ Len(s) \in Nat /\ Len(t) \in Nat
      /\ \A i \in 1..(Len(s) + Len(t)) :
            (s \o t)[i] = IF i <= Len(s) THEN s[i] ELSE t[i - Len(s)]
  BY ConcatProperties, LenProperties
<1> SUFFICES ASSUME NEW i \in 1..(Len(s) + Len(t)), NEW j \in 1..(Len(s) + Len(t)), i < j
             PROVE  Before((s \o t)[i], (s \o t)[j])
  BY <1>1 DEF Ordered
<1>2. CASE j <= Len(s)
  BY <1>1, <1>2 DEF Ordered
<1>3. CASE i <= Len(s) /\ j > Len(s)
  BY <1>1, <1>3
<1>4. CASE i > Len(s)
  <2>1. i - Len(s) \in 1..Len(t) /\ j - Len(s) \in 1..Len(t) /\ i - Len(s) < j - Len(s)
    BY <1>1, <1>4
  <2>2. Before(t[i - Len(s)], t[j - Len(s)])
    BY <2>1 DEF Ordered
  <2> QED
    BY <1>1, <1>4, <2>2
<1> QED
  BY <1>1, <1>2, <1>3, <1>4

LEMMA ConcatContiguous ==
    ASSUME NEW s \in Seq(UnitSet), NEW t \in Seq(UnitSet), Contiguous(s), Contiguous(t),
           Len(s) > 0 /\ Len(t) > 0 => Follows(s[Len(s)], t[1])
    PROVE  Contiguous(s \o t)
<1>1. /\ Len(s \o t) = Len(s) + Len(t) /\ Len(s) \in Nat /\ Len(t) \in Nat
      /\ \A i \in 1..(Len(s) + Len(t)) :
            (s \o t)[i] = IF i <= Len(s) THEN s[i] ELSE t[i - Len(s)]
  BY ConcatProperties, LenProperties
<1> SUFFICES ASSUME NEW i \in 1..(Len(s) + Len(t) - 1)
             PROVE  Follows((s \o t)[i], (s \o t)[i + 1])
  BY <1>1 DEF Contiguous
<1>2. CASE i + 1 <= Len(s)
  BY <1>1, <1>2 DEF Contiguous
<1>3. CASE i = Len(s)
  <2>1. Len(s) > 0 /\ Len(t) > 0 /\ (i + 1) - Len(s) = 1
    BY <1>1, <1>3
  <2> QED
    BY <1>1, <1>3, <2>1
<1>4. CASE i > Len(s)
  <2>1. i - Len(s) \in 1..(Len(t) - 1) /\ (i + 1) - Len(s) = (i - Len(s)) + 1
    BY <1>1, <1>4
  <2>2. Follows(t[i - Len(s)], t[(i - Len(s)) + 1])
    BY <2>1 DEF Contiguous
  <2> QED
    BY <1>1, <1>4, <2>1, <2>2
<1> QED
  BY <1>1, <1>2, <1>3, <1>4
LEMMA PartType ==
    ASSUME NEW s \in Seq(UnitSet), NEW a \in 1..(Len(s) + 1), NEW b \in (a - 1)..Len(s)
    PROVE  /\ SubSeq(s, a, b) \in Seq(UnitSet) /\ Len(SubSeq(s, a, b)) = b - a + 1
           /\ \A i \in 1..(b - a + 1) : SubSeq(s, a, b)[i] = s[a + i - 1]
           /\ Ordered(s) => Ordered(SubSeq(s, a, b))
           /\ Contiguous(s) => Contiguous(SubSeq(s, a, b))
<1>1. Len(s) \in Nat /\ a \in Int /\ b \in Int /\ \A i \in a..b : s[i] \in UnitSet
  BY LenProperties
<1>2. /\ SubSeq(s, a, b) \in Seq(UnitSet) /\ Len(SubSeq(s, a, b)) = b - a + 1
      /\ \A i \in 1..(b - a + 1) : SubSeq(s, a, b)[i] = s[a + i - 1]
  BY <1>1, SubSeqProperties
<1>3. ASSUME Ordered(s)
      PROVE  Ordered(SubSeq(s, a, b))
  <2> SUFFICES ASSUME NEW i \in 1..(b - a + 1), NEW j \in 1..(b - a + 1), i < j
               PROVE  Before(SubSeq(s, a, b)[i], SubSeq(s, a, b)[j])
    BY <1>2 DEF Ordered
  <2>1. a + i - 1 \in 1..Len(s) /\ a + j - 1 \in 1..Len(s) /\ a + i - 1 < a + j - 1
    BY <1>1
  <2> QED
    BY <1>2, <1>3, <2>1 DEF Ordered
<1>4. ASSUME Contiguous(s)
      PROVE  Contiguous(SubSeq(s, a, b))
  <2> SUFFICES ASSUME NEW i \in 1..(b - a)
               PROVE  Follows(SubSeq(s, a, b)[i], SubSeq(s, a, b)[i + 1])
    BY <1>1, <1>2 DEF Contiguous
  <2>1. a + i - 1 \in 1..(Len(s) - 1) /\ a + (i + 1) - 1 = (a + i - 1) + 1
        /\ i \in 1..(b - a + 1) /\ i + 1 \in 1..(b - a + 1)
    BY <1>1
  <2>2. Follows(s[a + i - 1], s[(a + i - 1) + 1])
    BY <1>4, <2>1 DEF Contiguous
  <2> QED
    BY <1>2, <2>1, <2>2
<1> QED
  BY <1>2, <1>3, <1>4

\* The messages of a list are numbered from k + 1 on.
Numbered(list, k) == \A i \in 1..Len(list) : list[i].id = k + i

\* What the units of the first j messages of a list are.
UnitsOf(s, list, j) ==
    /\ s \in Seq(UnitSet) /\ Len(s) > 0
    /\ s[1] = <<list[1], 1>>
    /\ s[Len(s)][1] = list[j] /\ IsLastUnit(s[Len(s)])
    /\ \A p \in 1..Len(s) : \E i \in 1..j : s[p][1] = list[i]
    /\ Ordered(s) /\ Contiguous(s)

LEMMA FirstUnits ==
    ASSUME NEW list \in Seq(Messages), Len(list) > 0
    PROVE  UnitsOf(Units(list[1]), list, 1)
<1>1. list[1] \in Messages
  BY LenProperties
<1> DEFINE m == list[1]
           s == Units(m)
<1>2. /\ s \in Seq(UnitSet) /\ Len(s) = HeaderLen + m.len
      /\ \A i \in 1..(HeaderLen + m.len) : s[i] = <<m, i>>
      /\ Ordered(s) /\ Contiguous(s)
  BY <1>1, UnitsType
<1>3. HeaderLen + m.len \in Nat /\ HeaderLen + m.len > 0
  BY <1>1, MessageType DEF HeaderLen
<1> QED
  BY <1>2, <1>3 DEF UnitsOf, IsLastUnit

LEMMA MoreUnits ==
    ASSUME NEW list \in Seq(Messages), NEW k \in Nat, Numbered(list, k),
           NEW j \in 1..(Len(list) - 1), NEW s, UnitsOf(s, list, j)
    PROVE  UnitsOf(s \o Units(list[j + 1]), list, j + 1)
<1> DEFINE m == list[j + 1]
           t == Units(m)
<1>1. Len(list) \in Nat /\ j + 1 \in 1..Len(list) /\ m \in Messages /\ m.id = k + (j + 1)
  BY LenProperties DEF Numbered
<1> HIDE DEF m
<1>2. /\ t \in Seq(UnitSet) /\ Len(t) = HeaderLen + m.len
      /\ \A i \in 1..(HeaderLen + m.len) : t[i] = <<m, i>>
      /\ Ordered(t) /\ Contiguous(t) /\ Len(t) \in Nat /\ Len(t) > 0
  <2>1. /\ t \in Seq(UnitSet) /\ Len(t) = HeaderLen + m.len
        /\ \A i \in 1..(HeaderLen + m.len) : t[i] = <<m, i>>
        /\ Ordered(t) /\ Contiguous(t)
    BY <1>1, UnitsType
  <2>2. HeaderLen + m.len \in Nat /\ HeaderLen + m.len > 0
    BY <1>1, MessageType DEF HeaderLen
  <2> HIDE DEF t
  <2> QED
    BY <2>1, <2>2
<1>3. s \in Seq(UnitSet) /\ Len(s) \in Nat /\ Len(s) > 0
  BY LenProperties DEF UnitsOf
<1>4. /\ s \o t \in Seq(UnitSet) /\ Len(s \o t) = Len(s) + Len(t)
      /\ \A i \in 1..(Len(s) + Len(t)) :
            (s \o t)[i] = IF i <= Len(s) THEN s[i] ELSE t[i - Len(s)]
  BY <1>2, <1>3, ConcatProperties
<1> HIDE DEF t
<1>5. Ordered(s \o t)
  <2>1. ASSUME NEW p \in 1..Len(s), NEW q \in 1..Len(t)
        PROVE  Before(s[p], t[q])
    <3>1. PICK i \in 1..j : s[p][1] = list[i]
      BY DEF UnitsOf
    <3>2. list[i].id = k + i
      BY <1>1 DEF Numbered
    <3>3. t[q] = <<m, q>>
      BY <1>2
    <3> QED
      BY <1>1, <3>1, <3>2, <3>3 DEF Before
  <2> QED
    BY <1>2, <1>3, <2>1, ConcatOrdered DEF UnitsOf
<1>6. Contiguous(s \o t)
  <2>1. Follows(s[Len(s)], t[1])
    <3>1. s[Len(s)][1] = list[j] /\ IsLastUnit(s[Len(s)]) /\ list[j].id = k + j
      BY <1>1 DEF UnitsOf, Numbered
    <3>2. t[1] = <<m, 1>>
      BY <1>2
    <3> QED
      BY <1>1, <3>1, <3>2 DEF Follows
  <2> QED
    BY <1>2, <1>3, <2>1, ConcatContiguous DEF UnitsOf
<1>7. (s \o t)[1] = <<list[1], 1>>
  BY <1>2, <1>3, <1>4 DEF UnitsOf
<1>8. (s \o t)[Len(s) + Len(t)] = <<m, HeaderLen + m.len>>
  <2>1. Len(s) + Len(t) \in 1..(Len(s) + Len(t)) /\ ~(Len(s) + Len(t) <= Len(s))
        /\ (Len(s) + Len(t)) - Len(s) = Len(t)
    BY <1>2, <1>3
  <2>2. (s \o t)[Len(s) + Len(t)] = t[Len(t)]
    BY <1>4, <2>1
  <2>3. t[Len(t)] = <<m, Len(t)>>
    BY <1>2
  <2> QED
    BY <1>2, <2>2, <2>3
<1>9. ASSUME NEW p \in 1..(Len(s) + Len(t))
      PROVE  \E i \in 1..(j + 1) : (s \o t)[p][1] = list[i]
  <2>1. CASE p <= Len(s)
    <3>1. PICK i \in 1..j : s[p][1] = list[i]
      BY <1>3, <2>1 DEF UnitsOf
    <3>2. i \in 1..(j + 1) /\ (s \o t)[p] = s[p]
      BY <1>1, <1>4, <2>1
    <3> QED
      BY <3>1, <3>2
  <2>2. CASE p > Len(s)
    <3>1. p - Len(s) \in 1..Len(t) /\ (s \o t)[p] = t[p - Len(s)]
      BY <1>2, <1>3, <1>4, <2>2
    <3>2. t[p - Len(s)][1] = m
      BY <1>2, <3>1
    <3> QED
      BY <1>1, <3>1, <3>2 DEF m
  <2> QED
    BY <1>3, <2>1, <2>2
<1>10. Len(s \o t) > 0 /\ Len(s \o t) = Len(s) + Len(t)
  BY <1>2, <1>3, <1>4
<1>11. (s \o t)[Len(s \o t)][1] = m /\ IsLastUnit((s \o t)[Len(s \o t)])
  BY <1>8, <1>10 DEF IsLastUnit
<1>12. UnitsOf(s \o t, list, j + 1)
  BY <1>4, <1>5, <1>6, <1>7, <1>9, <1>10, <1>11 DEF UnitsOf, m
<1> QED
  BY <1>12 DEF t, m

LEMMA StreamUnits ==
    ASSUME NEW list \in Seq(Messages), list # <<>>, NEW k \in Nat, Numbered(list, k)
    PROVE  UnitsOf(Stream(list), list, Len(list))
<1> DEFINE L == Len(list)
           ss == [i \in DOMAIN list |-> Units(list[i])]
<1>1. L \in Nat /\ L > 0 /\ DOMAIN list = 1..L /\ \A i \in 1..L : list[i] \in Messages
  BY EmptySeq, LenProperties
<1>2. ss \in Seq(Seq(UnitSet)) /\ Len(ss) = L /\ \A i \in 1..L : ss[i] = Units(list[i])
  <2>1. ss \in [1..L -> Seq(UnitSet)]
    BY <1>1, UnitsType
  <2>2. ss \in Seq(Seq(UnitSet)) /\ DOMAIN ss = 1..L
    BY <1>1, <2>1
  <2> HIDE DEF ss
  <2>3. Len(ss) = L
    BY <1>1, <2>2, LenProperties
  <2> QED
    BY <1>1, <2>2, <2>3 DEF ss
<1> HIDE DEF ss
<1>3. PICK f \in [1..L -> Seq(UnitSet)] :
        /\ f[1] = ss[1]
        /\ \A i \in 2..L : f[i] = f[i - 1] \o ss[i]
        /\ FlattenSeq(ss) = f[L]
  <2>1. Len(ss) > 0 /\ ss \in Seq(Seq(UnitSet))
    BY <1>1, <1>2
  <2>2. \E f \in [1..Len(ss) -> Seq(UnitSet)] :
          /\ f[1] = ss[1]
          /\ \A i \in 2..Len(ss) : f[i] = f[i - 1] \o ss[i]
          /\ FlattenSeq(ss) = f[Len(ss)]
    BY <2>1, FlattenRecursion
  <2>3. Len(ss) = L
    BY <1>2
  <2> HIDE DEF L
  <2> QED
    BY <2>2, <2>3
<1> DEFINE T == {j \in 1..L : UnitsOf(f[j], list, j)}
<1>4. 1 \in T
  BY <1>1, <1>2, <1>3, FirstUnits
<1>5. \A j \in 1..(L - 1) : j \in T => j + 1 \in T
  <2> SUFFICES ASSUME NEW j \in 1..(L - 1), UnitsOf(f[j], list, j)
               PROVE  j + 1 \in 1..L /\ UnitsOf(f[j + 1], list, j + 1)
    OBVIOUS
  <2>1. j + 1 \in 2..L /\ (j + 1) - 1 = j /\ j + 1 \in 1..L
    BY <1>1
  <2>2. f[j + 1] = f[j] \o Units(list[j + 1])
    <3>1. f[j + 1] = f[(j + 1) - 1] \o ss[j + 1]
      BY <1>3, <2>1
    <3> QED
      BY <1>2, <2>1, <3>1
  <2> QED
    BY <2>1, <2>2, MoreUnits
<1>6. 1..L \subseteq T
  <2>1. 1 \in Int /\ L \in Int
    BY <1>1
  <2> HIDE DEF T, L
  <2> QED
    BY <1>4, <1>5, <2>1, UpInduction
<1>7. UnitsOf(f[L], list, L)
  BY <1>1, <1>6
<1> QED
  BY <1>3, <1>7 DEF Stream, ss
\* What is sent of the messages numbered from k + 1 on, and what stays.
LEMMA SentUnits ==
    ASSUME NEW list \in Seq(Messages), NEW k \in Nat, Numbered(list, k),
           list # <<>>, NEW t \in 1..Len(Stream(list))
    PROVE  LET s == SubSeq(Stream(list), 1, t)
               j == LastOf(list, t)
               gone == IF SentInPart(list, t) THEN j - 1 ELSE j
           IN /\ s \in Seq(UnitSet) /\ Len(s) = t /\ Ordered(s) /\ Contiguous(s)
              /\ s[1] = <<list[1], 1>>
              /\ j \in 1..Len(list) /\ s[t][1] = list[j]
              /\ gone \in 0..Len(list) /\ Unsent(list, t) = SubSeq(list, gone + 1, Len(list))
              /\ \A i \in 1..t : /\ s[i][1].id <= k + gone + 1
                                 /\ IsLastUnit(s[i]) => s[i][1].id <= k + gone
              /\ SentInPart(list, t) = ~IsLastUnit(s[t])
<1> DEFINE u == Stream(list)
           s == SubSeq(u, 1, t)
           j == LastOf(list, t)
           gone == IF SentInPart(list, t) THEN j - 1 ELSE j
<1>1. UnitsOf(u, list, Len(list))
  BY StreamUnits
<1>2. u \in Seq(UnitSet) /\ Len(u) \in Nat /\ Len(list) \in Nat /\ DOMAIN list = 1..Len(list)
  BY <1>1, LenProperties DEF UnitsOf
<1> HIDE DEF u
<1>3. t \in 1..Len(u)
  BY DEF u
<1>4. /\ s \in Seq(UnitSet) /\ Len(s) = t /\ Ordered(s) /\ Contiguous(s)
      /\ \A i \in 1..t : s[i] = u[i]
  <2>1. 1 \in 1..(Len(u) + 1) /\ t \in (1 - 1)..Len(u)
    BY <1>2, <1>3
  <2>2. /\ s \in Seq(UnitSet) /\ Len(s) = t - 1 + 1 /\ Ordered(s) /\ Contiguous(s)
        /\ \A i \in 1..(t - 1 + 1) : s[i] = u[1 + i - 1]
    BY <1>1, <1>2, <2>1, PartType DEF UnitsOf
  <2> QED
    BY <1>2, <1>3, <2>2
<1> HIDE DEF s
<1>5. j \in 1..Len(list) /\ u[t][1] = list[j]
  <2>1. \E i \in DOMAIN list : list[i] = u[t][1]
    BY <1>1, <1>2, <1>3 DEF UnitsOf
  <2> QED
    BY <1>2, <2>1 DEF LastOf, u
<1> HIDE DEF j
<1>6. list[j].id = k + j
  BY <1>5 DEF Numbered
<1>7. SentInPart(list, t) = ~IsLastUnit(u[t])
  BY DEF SentInPart, u
<1>8. Unsent(list, t) = SubSeq(list, gone + 1, Len(list))
  <2>1. Unsent(list, t) = SubSeq(list, j + (IF SentInPart(list, t) THEN 0 ELSE 1), Len(list))
    BY DEF Unsent, j
  <2>2. gone + 1 = j + (IF SentInPart(list, t) THEN 0 ELSE 1)
    BY <1>2, <1>5
  <2> QED
    BY <2>1, <2>2, Zenon
<1>9. gone \in 0..Len(list)
  BY <1>2, <1>5
<1>10. ASSUME NEW i \in 1..t
       PROVE  s[i][1].id <= k + gone + 1 /\ (IsLastUnit(s[i]) => s[i][1].id <= k + gone)
  <2>1. s[i] = u[i] /\ i \in 1..Len(u) /\ u[i] \in UnitSet
    BY <1>2, <1>3, <1>4, LenProperties
  <2>2. u[i][1].id \in Nat
    BY <2>1, UnitType, MessageType
  <2>3. CASE i = t
    <3>1. s[i] = u[t] /\ u[t][1].id = k + j /\ j \in Nat
      BY <1>2, <1>5, <1>6, <2>1, <2>3
    <3>2. CASE SentInPart(list, t)
      <4>1. ~IsLastUnit(u[t])
        BY <1>7, <3>2
      <4> QED
        BY <3>1, <3>2, <4>1
    <3>3. CASE ~SentInPart(list, t)
      BY <3>1, <3>3
    <3> QED
      BY <3>2, <3>3
  <2>4. CASE i < t
    <3>1. Before(u[i], u[t])
      BY <1>1, <1>3, <2>1, <2>4 DEF UnitsOf, Ordered
    <3> QED
      BY <1>2, <1>5, <1>6, <1>7, <2>1, <2>2, <3>1 DEF Before
  <2> QED
    BY <1>3, <2>3, <2>4
<1>11. s[1] = <<list[1], 1>>
  BY <1>1, <1>2, <1>3, <1>4 DEF UnitsOf
<1>12. s[t] = u[t]
  BY <1>2, <1>3, <1>4
<1> QED
  BY <1>4, <1>5, <1>7, <1>8, <1>9, <1>10, <1>11, <1>12 DEF s, j, u
-----------------------------------------------------------------------------
(* The inductive invariant *)

NodeType ==
    /\ listSend \in [Node -> Seq(Messages)]
    /\ wire \in [Node -> Seq(UnitSet)]
    /\ chunk \in [Node -> Seq(UnitSet)]
    /\ netMsg \in [Node -> [units : Seq(UnitSet), size : 0..MaxPayload]]
    /\ queue \in [Node -> Seq(Messages \cup {Noise})]
    /\ received \in [Node -> Seq(Messages \cup {Noise})]
    /\ disturbed \in [Node -> BOOLEAN]
    /\ open \in BOOLEAN
    /\ DOMAIN submitted = Node

BoundInv ==
    /\ parts \in 0..MaxParts
    /\ \A n \in Node : /\ submitted[n] \in 0..MaxMessages[n]
                       /\ Len(wire[n]) <= Capacity
                       /\ Len(queue[n]) <= MaxQueue

\* A message that is being read is not complete, and its size is what was read of it.
ReadInv ==
    \A n \in Node :
        LET units == netMsg[n].units
        IN /\ InHeader(n) => netMsg[n].size = 0
           /\ ~InHeader(n) => /\ netMsg[n].size \in Sizes(units) /\ netMsg[n].size > 0
                              /\ Len(units) < HeaderLen + netMsg[n].size

\* Messages of a node that were sent as a whole.
Sent(n) == submitted[n] - Len(listSend[n])

\* Messages are numbered in the order in which they were submitted.
ListInv == \A n \in Node : Sent(n) \in Nat /\ Numbered(listSend[n], Sent(n))

\* What is on its way to a node.
Flow(n) == netMsg[n].units \o (chunk[n] \o wire[Other(n)])

\* Units are on their way in the order of their messages, and a message that has
\* arrived has none left there; all that is there was sent.
Way(flow, arrived, sent) ==
    /\ Ordered(flow)
    /\ \A i \in 1..Len(flow) : /\ flow[i][1].id <= sent + 1
                               /\ IsLastUnit(flow[i]) => flow[i][1].id <= sent
    /\ \A i \in 1..Len(arrived) : HasPayload(arrived[i]) =>
         /\ arrived[i].id <= sent
         /\ \A j \in 1..Len(flow) : arrived[i].id < flow[j][1].id

\* Undisturbed, the units on the way are those of the messages that follow the ones
\* which have arrived, up to the last that was sent.
NothingMissing(flow, arrived, sent) ==
    /\ Contiguous(flow)
    /\ Len(flow) > 0 => /\ flow[1][2] = 1 /\ flow[1][1].id = Len(arrived) + 1
                        /\ IsLastUnit(flow[Len(flow)])
                        /\ flow[Len(flow)][1].id = sent
    /\ Len(flow) = 0 => sent = Len(arrived)

PayloadOrder(arrived) ==
    \A i, j \in 1..Len(arrived) :
        i < j /\ HasPayload(arrived[i]) /\ HasPayload(arrived[j])
            => arrived[i].id < arrived[j].id

Exact(arrived) == \A i \in 1..Len(arrived) : arrived[i] # Noise /\ arrived[i].id = i

\* One direction of the connection: to node n.
Direction(isOpen, torn, flow, arrived, sent) ==
    /\ PayloadOrder(arrived)
    /\ isOpen => Way(flow, arrived, sent)
    /\ ~torn => Exact(arrived) /\ (isOpen => NothingMissing(flow, arrived, sent))

DirectionOf(n) == Direction(open, disturbed[n], Flow(n), Arrived(n), Sent(Other(n)))

DirectionInv == \A n \in Node : DirectionOf(n)

\* A connection that nothing has disturbed is not destroyed.
OpenInv == open \/ \E n \in Node : disturbed[n]

IndInv == NodeType /\ BoundInv /\ ReadInv /\ ListInv /\ DirectionInv /\ OpenInv

LEMMA FlowType ==
    ASSUME NodeType, NEW n \in Node
    PROVE  /\ netMsg[n].units \in Seq(UnitSet) /\ netMsg[n].size \in 0..MaxPayload
           /\ chunk[n] \in Seq(UnitSet) /\ wire[n] \in Seq(UnitSet)
           /\ wire[Other(n)] \in Seq(UnitSet)
           /\ chunk[n] \o wire[Other(n)] \in Seq(UnitSet)
           /\ Flow(n) \in Seq(UnitSet) /\ Len(Flow(n)) \in Nat
           /\ queue[n] \in Seq(Messages \cup {Noise})
           /\ received[n] \in Seq(Messages \cup {Noise})
           /\ Arrived(n) \in Seq(Messages \cup {Noise}) /\ Len(Arrived(n)) \in Nat
           /\ DOMAIN Arrived(n) = 1..Len(Arrived(n))
           /\ listSend[n] \in Seq(Messages)
<1>1. /\ netMsg[n].units \in Seq(UnitSet) /\ netMsg[n].size \in 0..MaxPayload
      /\ chunk[n] \in Seq(UnitSet) /\ wire[n] \in Seq(UnitSet)
      /\ wire[Other(n)] \in Seq(UnitSet) /\ listSend[n] \in Seq(Messages)
      /\ queue[n] \in Seq(Messages \cup {Noise})
      /\ received[n] \in Seq(Messages \cup {Noise})
  BY TwoNodes DEF NodeType
<1>2. chunk[n] \o wire[Other(n)] \in Seq(UnitSet)
  BY <1>1, ConcatProperties
<1>3. Flow(n) \in Seq(UnitSet)
  BY <1>1, <1>2, ConcatProperties DEF Flow
<1>4. Arrived(n) \in Seq(Messages \cup {Noise})
  BY <1>1, ConcatProperties DEF Arrived
<1> QED
  BY <1>1, <1>2, <1>3, <1>4, LenProperties

LEMMA InitInd == Init => IndInv
<1> SUFFICES ASSUME Init
             PROVE  IndInv
  OBVIOUS
<1>1. <<>> \in Seq(Messages) /\ <<>> \in Seq(UnitSet) /\ <<>> \in Seq(Messages \cup {Noise})
      /\ Len(<<>>) = 0
  OBVIOUS
<1>2. Fresh \in [units : Seq(UnitSet), size : 0..MaxPayload]
  BY <1>1, FramingAssumption DEF Fresh
<1>3. NodeType
  BY <1>1, <1>2 DEF Init, NodeType
<1>4. BoundInv
  BY <1>1, FramingAssumption DEF Init, BoundInv
<1>5. ReadInv
  BY <1>1 DEF Init, ReadInv, InHeader, Fresh, HeaderLen
<1>6. ListInv
  BY <1>1 DEF Init, ListInv, Sent, Numbered
<1>7. \A n \in Node : Flow(n) = <<>> /\ Arrived(n) = <<>>
  <2> TAKE n \in Node
  <2>1. Other(n) \in Node
    BY TwoNodes
  <2>2. netMsg[n].units = <<>> /\ chunk[n] = <<>> /\ wire[Other(n)] = <<>>
    BY <2>1 DEF Init, Fresh
  <2>3. received[n] = <<>> /\ queue[n] = <<>>
    BY DEF Init
  <2>4. <<>> \o <<>> = <<>>
    BY <1>1, ConcatEmptySeq
  <2> QED
    BY <2>2, <2>3, <2>4 DEF Flow, Arrived
<1>8. DirectionInv
  <2> SUFFICES ASSUME NEW n \in Node
               PROVE  DirectionOf(n)
    BY DEF DirectionInv
  <2>1. Sent(Other(n)) = 0 /\ Flow(n) = <<>> /\ Arrived(n) = <<>>
    BY <1>1, <1>7, TwoNodes DEF Init, Sent
  <2>2. Direction(TRUE, FALSE, <<>>, <<>>, 0)
    BY <1>1 DEF Direction, PayloadOrder, Way, NothingMissing, Exact, Ordered, Contiguous
  <2> QED
    BY <2>1, <2>2 DEF DirectionOf, Init
<1> QED
  BY <1>3, <1>4, <1>5, <1>6, <1>8 DEF IndInv, OpenInv, Init
-----------------------------------------------------------------------------
(* What a step does to one direction *)

LEMMA MoreSent ==
    ASSUME NEW flow \in Seq(UnitSet), NEW s \in Seq(UnitSet),
           NEW arrived \in Seq(Messages \cup {Noise}), NEW sent \in Nat, NEW gone \in Nat,
           NEW torn \in BOOLEAN, NEW torn2 \in BOOLEAN,
           Direction(TRUE, torn, flow, arrived, sent),
           Len(s) > 0, Ordered(s), Contiguous(s), s[1][2] = 1, s[1][1].id = sent + 1,
           \A i \in 1..Len(s) : /\ s[i][1].id <= sent + gone + 1
                                /\ IsLastUnit(s[i]) => s[i][1].id <= sent + gone,
           ~torn2 => /\ ~torn /\ IsLastUnit(s[Len(s)])
                     /\ s[Len(s)][1].id = sent + gone
    PROVE  Direction(TRUE, torn2, flow \o s, arrived, sent + gone)
<1>1. /\ Len(flow) \in Nat /\ Len(s) \in Nat /\ Len(arrived) \in Nat
      /\ flow \o s \in Seq(UnitSet) /\ Len(flow \o s) = Len(flow) + Len(s)
      /\ \A i \in 1..(Len(flow) + Len(s)) :
            (flow \o s)[i] = IF i <= Len(flow) THEN flow[i] ELSE s[i - Len(flow)]
  BY ConcatProperties, LenProperties
<1>2. \A i \in 1..Len(s) : s[i][1].id \in Nat /\ s[i][1].id > sent
  <2> TAKE i \in 1..Len(s)
  <2>1. s[i][1].id \in Nat
    BY UnitIds
  <2>2. CASE i = 1
    BY <2>1, <2>2
  <2>3. CASE i > 1
    <3>1. Before(s[1], s[i])
      BY <1>1, <2>3 DEF Ordered
    <3> QED
      BY <2>1, <3>1 DEF Before
  <2> QED
    BY <1>1, <2>2, <2>3
<1>3. \A i \in 1..Len(flow) : flow[i] \in UnitSet /\ flow[i][1].id \in Nat
  BY UnitIds
<1>4. Way(flow, arrived, sent)
  BY DEF Direction
<1>5. Ordered(flow \o s)
  <2>1. ASSUME NEW i \in 1..Len(flow), NEW j \in 1..Len(s)
        PROVE  Before(flow[i], s[j])
    <3>1. /\ flow[i][1].id <= sent + 1
          /\ IsLastUnit(flow[i]) => flow[i][1].id <= sent
      BY <1>4 DEF Way
    <3>2. flow[i][1].id \in Nat /\ s[j][1].id \in Nat /\ s[j][1].id > sent
      BY <1>2, <1>3
    <3> QED
      BY <3>1, <3>2 DEF Before
  <2> QED
    BY <1>4, <2>1, ConcatOrdered DEF Way
<1>6. ASSUME NEW i \in 1..(Len(flow) + Len(s))
      PROVE  /\ (flow \o s)[i][1].id <= sent + gone + 1
             /\ IsLastUnit((flow \o s)[i]) => (flow \o s)[i][1].id <= sent + gone
  <2>1. CASE i <= Len(flow)
    <3>1. i \in 1..Len(flow) /\ (flow \o s)[i] = flow[i]
      BY <1>1, <2>1
    <3>2. /\ flow[i][1].id <= sent + 1
          /\ IsLastUnit(flow[i]) => flow[i][1].id <= sent
      BY <1>4, <3>1 DEF Way
    <3>3. flow[i][1].id \in Nat
      BY <1>3, <3>1
    <3>4. \A x \in Nat : /\ x <= sent + 1 => x <= sent + gone + 1
                         /\ x <= sent => x <= sent + gone
      OBVIOUS
    <3> QED
      BY <3>1, <3>2, <3>3, <3>4, Zenon
  <2>2. CASE i > Len(flow)
    <3>1. i - Len(flow) \in 1..Len(s) /\ (flow \o s)[i] = s[i - Len(flow)]
      BY <1>1, <2>2
    <3> QED
      BY <3>1
  <2> QED
    BY <1>1, <2>1, <2>2
<1>7. ASSUME NEW i \in 1..Len(arrived), HasPayload(arrived[i])
      PROVE  /\ arrived[i].id <= sent + gone
             /\ \A j \in 1..(Len(flow) + Len(s)) : arrived[i].id < (flow \o s)[j][1].id
  <2>1. arrived[i].id \in Nat
    BY <1>7, LenProperties, MessageType DEF HasPayload
  <2>2. arrived[i].id <= sent /\ \A j \in 1..Len(flow) : arrived[i].id < flow[j][1].id
    BY <1>4, <1>7 DEF Way
  <2>3. ASSUME NEW j \in 1..(Len(flow) + Len(s))
        PROVE  arrived[i].id < (flow \o s)[j][1].id
    <3>1. CASE j <= Len(flow)
      BY <1>1, <2>2, <3>1
    <3>2. CASE j > Len(flow)
      <4>1. j - Len(flow) \in 1..Len(s) /\ (flow \o s)[j] = s[j - Len(flow)]
        BY <1>1, <3>2
      <4>2. s[j - Len(flow)][1].id \in Nat /\ s[j - Len(flow)][1].id > sent
        BY <1>2, <4>1
      <4>3. arrived[i].id < s[j - Len(flow)][1].id
        <5>1. \A x, y \in Nat : x <= sent /\ y > sent => x < y
          OBVIOUS
        <5> QED
          BY <2>1, <2>2, <4>2, <5>1, Zenon
      <4> QED
        BY <4>1, <4>3
    <3> QED
      BY <1>1, <3>1, <3>2
  <2> QED
    BY <2>1, <2>2, <2>3
<1>8. Way(flow \o s, arrived, sent + gone)
  BY <1>1, <1>5, <1>6, <1>7 DEF Way
<1>9. ASSUME ~torn2
      PROVE  NothingMissing(flow \o s, arrived, sent + gone)
  <2>1. NothingMissing(flow, arrived, sent)
    BY <1>9 DEF Direction
  <2>2. Contiguous(flow \o s)
    <3>1. Len(flow) > 0 => Follows(flow[Len(flow)], s[1])
      BY <2>1 DEF NothingMissing, Follows
    <3> QED
      BY <2>1, <3>1, ConcatContiguous DEF NothingMissing
  <2>3. (flow \o s)[Len(flow) + Len(s)] = s[Len(s)]
    <3>1. Len(flow) + Len(s) \in 1..(Len(flow) + Len(s)) /\ ~(Len(flow) + Len(s) <= Len(flow))
          /\ (Len(flow) + Len(s)) - Len(flow) = Len(s)
      BY <1>1
    <3> QED
      BY <1>1, <3>1
  <2>4. (flow \o s)[1][2] = 1 /\ (flow \o s)[1][1].id = Len(arrived) + 1
    <3>1. CASE Len(flow) = 0
      <4>1. (flow \o s)[1] = s[1]
        BY <1>1, <3>1
      <4> QED
        BY <2>1, <3>1, <4>1 DEF NothingMissing
    <3>2. CASE Len(flow) > 0
      <4>1. (flow \o s)[1] = flow[1]
        BY <1>1, <3>2
      <4> QED
        BY <2>1, <3>2, <4>1 DEF NothingMissing
    <3> QED
      BY <1>1, <3>1, <3>2
  <2>5. Len(flow \o s) > 0
    BY <1>1
  <2> QED
    BY <1>1, <1>9, <2>2, <2>3, <2>4, <2>5 DEF NothingMissing
<1> QED
  BY <1>8, <1>9 DEF Direction

LEMMA UnitsDropped ==
    ASSUME NEW a \in Seq(UnitSet), NEW b \in Seq(UnitSet), NEW c \in Seq(UnitSet),
           NEW arrived, NEW sent, NEW torn, Direction(TRUE, torn, a \o (b \o c), arrived, sent)
    PROVE  Direction(TRUE, TRUE, a \o c, arrived, sent)
<1> DEFINE flow == a \o (b \o c)
           p(i) == IF i <= Len(a) THEN i ELSE i + Len(b)
<1>1. /\ Len(a) \in Nat /\ Len(b) \in Nat /\ Len(c) \in Nat
      /\ Len(flow) = Len(a) + Len(b) + Len(c) /\ Len(a \o c) = Len(a) + Len(c)
      /\ \A i \in 1..(Len(a) + Len(c)) :
            (a \o c)[i] = IF i <= Len(a) THEN a[i] ELSE c[i - Len(a)]
      /\ \A i \in 1..(Len(a) + Len(b) + Len(c)) :
            flow[i] = IF i <= Len(a) THEN a[i] ELSE (b \o c)[i - Len(a)]
      /\ \A i \in 1..(Len(b) + Len(c)) :
            (b \o c)[i] = IF i <= Len(b) THEN b[i] ELSE c[i - Len(b)]
  <2>1. b \o c \in Seq(UnitSet) /\ Len(b \o c) = Len(b) + Len(c)
    BY ConcatProperties
  <2>2. Len(a) \in Nat /\ Len(b) \in Nat /\ Len(c) \in Nat
    BY LenProperties
  <2>3. Len(flow) = Len(a) + (Len(b) + Len(c))
        /\ \A i \in 1..(Len(a) + (Len(b) + Len(c))) :
              flow[i] = IF i <= Len(a) THEN a[i] ELSE (b \o c)[i - Len(a)]
    BY <2>1, ConcatProperties
  <2> HIDE DEF flow
  <2>4. Len(a) + (Len(b) + Len(c)) = Len(a) + Len(b) + Len(c)
    BY <2>2
  <2>5. \A i \in 1..(Len(b) + Len(c)) : (b \o c)[i] = IF i <= Len(b) THEN b[i] ELSE c[i - Len(b)]
    BY ConcatProperties
  <2>6. /\ Len(a \o c) = Len(a) + Len(c)
        /\ \A i \in 1..(Len(a) + Len(c)) :
              (a \o c)[i] = IF i <= Len(a) THEN a[i] ELSE c[i - Len(a)]
    BY ConcatProperties
  <2>7. /\ Len(flow) = Len(a) + Len(b) + Len(c)
        /\ \A i \in 1..(Len(a) + Len(b) + Len(c)) :
              flow[i] = IF i <= Len(a) THEN a[i] ELSE (b \o c)[i - Len(a)]
    BY <2>3, <2>4, Zenon
  <2> QED
    BY <2>2, <2>5, <2>6, <2>7, Zenon
<1> HIDE DEF flow
<1>2. ASSUME NEW i \in 1..(Len(a) + Len(c))
      PROVE  p(i) \in 1..Len(flow) /\ (a \o c)[i] = flow[p(i)]
  <2>1. CASE i <= Len(a)
    BY <1>1, <2>1
  <2>2. CASE i > Len(a)
    <3>1. /\ i + Len(b) \in 1..(Len(a) + Len(b) + Len(c)) /\ ~(i + Len(b) <= Len(a))
          /\ (i + Len(b)) - Len(a) \in 1..(Len(b) + Len(c))
          /\ ~((i + Len(b)) - Len(a) <= Len(b))
          /\ ((i + Len(b)) - Len(a)) - Len(b) = i - Len(a)
      BY <1>1, <2>2
    <3>2. flow[i + Len(b)] = c[i - Len(a)]
      BY <1>1, <3>1
    <3> QED
      BY <1>1, <2>2, <3>1, <3>2
  <2> QED
    BY <1>1, <2>1, <2>2
<1>3. \A i, j \in 1..(Len(a) + Len(c)) : i < j => p(i) < p(j)
  BY <1>1
<1> HIDE DEF p
<1>4. Way(flow, arrived, sent) /\ PayloadOrder(arrived)
  BY DEF Direction, flow
<1>5. Ordered(a \o c)
  BY <1>1, <1>2, <1>3, <1>4 DEF Way, Ordered
<1>6. Way(a \o c, arrived, sent)
  BY <1>1, <1>2, <1>4, <1>5 DEF Way
<1> QED
  BY <1>4, <1>6 DEF Direction

\* The message with a header of its own is the one its first two units name.
LEMMA OwnHeader ==
    ASSUME NEW r
    PROVE  /\ \A m \in Messages : IsHeaderOf(r, m) => Sizes(r) = {m.len} /\ Meaning(r) = m
           /\ (\A m \in Messages : ~IsHeaderOf(r, m)) => Sizes(r) = WrongLens /\ Meaning(r) = Noise
           /\ Meaning(r) \in Messages \cup {Noise}
           /\ Sizes(r) \subseteq Nat
<1> DEFINE own == {m \in Messages : IsHeaderOf(r, m)}
<1>1. ASSUME NEW m \in Messages, IsHeaderOf(r, m)
      PROVE  Sizes(r) = {m.len} /\ Meaning(r) = m
  <2>1. own = {m}
    BY <1>1 DEF IsHeaderOf
  <2>2. Sizes(r) = {m.len}
    BY <2>1 DEF Sizes
  <2>3. Meaning(r) = m
    BY <2>1 DEF Meaning
  <2> QED
    BY <2>2, <2>3
<1>2. ASSUME \A m \in Messages : ~IsHeaderOf(r, m)
      PROVE  Sizes(r) = WrongLens /\ Meaning(r) = Noise
  <2>1. own = {}
    BY <1>2
  <2> QED
    BY <2>1 DEF Sizes, Meaning
<1>3. Meaning(r) \in Messages \cup {Noise} /\ Sizes(r) \subseteq Nat
  <2>1. CASE \E m \in Messages : IsHeaderOf(r, m)
    BY <1>1, <2>1, MessageType
  <2>2. CASE \A m \in Messages : ~IsHeaderOf(r, m)
    BY <1>2, <2>2, FramingAssumption
  <2> QED
    BY <2>1, <2>2
<1> QED
  BY <1>1, <1>2, <1>3

\* What is taken for a message with a payload ends with the last unit of it: the
\* checksum was compared.
LEMMA CompletedMessage ==
    ASSUME NEW r \in Seq(UnitSet), NEW size \in Sizes(r), Len(r) = HeaderLen + size,
           size > 0 => PayloadIntact(r), HasPayload(Meaning(r))
    PROVE  /\ Meaning(r) \in Messages
           /\ r[Len(r)] = <<Meaning(r), HeaderLen + Meaning(r).len>>
<1>1. PICK m \in Messages : IsHeaderOf(r, m)
  BY OwnHeader DEF HasPayload
<1>2. Sizes(r) = {m.len} /\ Meaning(r) = m
  BY <1>1, OwnHeader
<1>3. size = m.len /\ m.len \in Nat /\ m.len > 0
  BY <1>2, MessageType DEF HasPayload
<1>4. SubSeq(r, HeaderLen + 1, Len(r)) = SubSeq(Units(m), HeaderLen + 1, HeaderLen + m.len)
  <2>1. ChecksumOf(r) = {m}
    <3>1. r[2] = <<m, 2>>
      BY <1>1 DEF IsHeaderOf
    <3> QED
      BY <3>1 DEF ChecksumOf
  <2>2. SubSeq(r, HeaderLen + 1, Len(r)) = SubSeq(Units(m), HeaderLen + 1, HeaderLen + m.len)
    BY <1>3, <2>1 DEF PayloadIntact
  <2> QED
    BY <2>2
<1>5. /\ Units(m) \in Seq(UnitSet) /\ Len(Units(m)) = HeaderLen + m.len
      /\ \A i \in 1..(HeaderLen + m.len) : Units(m)[i] = <<m, i>>
  BY UnitsType
<1>6. SubSeq(r, HeaderLen + 1, Len(r))[m.len] = r[Len(r)]
  <2>1. /\ HeaderLen + 1 \in 1..(Len(r) + 1) /\ Len(r) \in ((HeaderLen + 1) - 1)..Len(r)
        /\ m.len \in 1..(Len(r) - (HeaderLen + 1) + 1) /\ (HeaderLen + 1) + m.len - 1 = Len(r)
    BY <1>3 DEF HeaderLen
  <2> QED
    BY <2>1, PartType
<1>7. SubSeq(Units(m), HeaderLen + 1, HeaderLen + m.len)[m.len] = <<m, HeaderLen + m.len>>
  <2>1. /\ HeaderLen + 1 \in 1..(HeaderLen + m.len + 1)
        /\ HeaderLen + m.len \in ((HeaderLen + 1) - 1)..(HeaderLen + m.len)
        /\ m.len \in 1..((HeaderLen + m.len) - (HeaderLen + 1) + 1)
        /\ (HeaderLen + 1) + m.len - 1 = HeaderLen + m.len
        /\ HeaderLen + m.len \in 1..(HeaderLen + m.len)
    BY <1>3 DEF HeaderLen
  <2>2. SubSeq(Units(m), HeaderLen + 1, HeaderLen + m.len)[m.len]
          = Units(m)[(HeaderLen + 1) + m.len - 1]
    BY <1>5, <2>1, PartType
  <2> QED
    BY <1>5, <2>1, <2>2
<1> QED
  BY <1>2, <1>4, <1>6, <1>7

\* Where nothing is missing, the first message is there as a whole.
LEMMA FirstMessage ==
    ASSUME NEW flow \in Seq(UnitSet), Len(flow) > 0, Contiguous(flow),
           flow[1][2] = 1, IsLastUnit(flow[Len(flow)])
    PROVE  LET m == flow[1][1]
           IN /\ m \in Messages
              /\ HeaderLen + m.len <= Len(flow)
              /\ \A p \in 1..(HeaderLen + m.len) : flow[p] = <<m, p>>
<1> DEFINE m == flow[1][1]
           K == HeaderLen + m.len
           T == {p \in 1..K : p <= Len(flow) /\ flow[p] = <<m, p>>}
<1>1. Len(flow) \in Nat /\ \A p \in 1..Len(flow) : flow[p] \in UnitSet
  BY LenProperties
<1>2. flow[1] = <<m, 1>> /\ m \in Messages
  BY <1>1, UnitType
<1>3. K \in Nat /\ K > 1
  BY <1>2, MessageType DEF HeaderLen
<1>4. 1 \in T
  BY <1>1, <1>2, <1>3
<1>5. \A p \in 1..(K - 1) : p \in T => p + 1 \in T
  <2> SUFFICES ASSUME NEW p \in 1..(K - 1), p <= Len(flow), flow[p] = <<m, p>>
               PROVE  p + 1 \in 1..K /\ p + 1 <= Len(flow) /\ flow[p + 1] = <<m, p + 1>>
    OBVIOUS
  <2>1. p \in 1..K /\ p + 1 \in 1..K /\ p # K
    BY <1>3
  <2>2. ~IsLastUnit(flow[p])
    BY <2>1 DEF IsLastUnit
  <2>3. p \in 1..(Len(flow) - 1) /\ p + 1 \in 1..Len(flow)
    BY <1>1, <2>1, <2>2
  <2>4. flow[p + 1][1] = m /\ flow[p + 1][2] = p + 1
    <3>1. Follows(flow[p], flow[p + 1])
      BY <2>3 DEF Contiguous
    <3>2. flow[p + 1][1] = flow[p][1] /\ flow[p + 1][2] = flow[p][2] + 1
      BY <2>2, <3>1 DEF Follows
    <3>3. flow[p][1] = m /\ flow[p][2] = p
      OBVIOUS
    <3> HIDE DEF m
    <3> QED
      BY <3>2, <3>3
  <2>5. flow[p + 1] = <<m, p + 1>>
    BY <1>1, <2>3, <2>4, UnitType
  <2> QED
    BY <2>1, <2>3, <2>5
<1>6. 1..K \subseteq T
  <2>1. 1 \in Int /\ K \in Int
    BY <1>3
  <2> HIDE DEF T, K
  <2> QED
    BY <1>4, <1>5, <2>1, UpInduction
<1>7. K \in T
  BY <1>3, <1>6
<1> QED
  BY <1>2, <1>6, <1>7

\* Undisturbed, what is read is the message that was sent next, and its checksum is
\* right.
LEMMA ExactRead ==
    ASSUME NEW r \in Seq(UnitSet), NEW rest \in Seq(UnitSet), Len(r) >= HeaderLen,
           NEW arrived, NEW sent, NothingMissing(r \o rest, arrived, sent)
    PROVE  LET m == r[1][1]
           IN /\ m \in Messages /\ m.id = Len(arrived) + 1
              /\ Sizes(r) = {m.len} /\ Meaning(r) = m
              /\ Len(r) = HeaderLen + m.len =>
                    PayloadIntact(r) /\ r[Len(r)] = <<m, HeaderLen + m.len>>
<1> DEFINE flow == r \o rest
           m == r[1][1]
<1>1. /\ Len(r) \in Nat /\ Len(rest) \in Nat /\ Len(r) > 0
      /\ flow \in Seq(UnitSet) /\ Len(flow) = Len(r) + Len(rest)
      /\ \A i \in 1..Len(r) : flow[i] = r[i]
  BY ConcatProperties, LenProperties DEF HeaderLen
<1>2. /\ Contiguous(flow) /\ flow[1][2] = 1 /\ flow[1][1].id = Len(arrived) + 1
      /\ IsLastUnit(flow[Len(flow)]) /\ Len(flow) > 0
  BY <1>1 DEF NothingMissing
<1>3. flow[1][1] = m
  BY <1>1
<1> HIDE DEF flow
<1>4. /\ m \in Messages /\ HeaderLen + m.len <= Len(flow)
      /\ \A p \in 1..(HeaderLen + m.len) : flow[p] = <<m, p>>
  BY <1>1, <1>2, <1>3, FirstMessage
<1> HIDE DEF m
<1>5. m.len \in Nat
  BY <1>4, MessageType
<1>6. \A p \in 1..(HeaderLen + m.len) : p <= Len(r) => r[p] = <<m, p>>
  BY <1>1, <1>4, <1>5
<1>7. IsHeaderOf(r, m)
  BY <1>1, <1>5, <1>6 DEF IsHeaderOf, HeaderLen
<1>8. Sizes(r) = {m.len} /\ Meaning(r) = m
  BY <1>4, <1>7, OwnHeader
<1>9. ASSUME Len(r) = HeaderLen + m.len
      PROVE  PayloadIntact(r) /\ r[Len(r)] = <<m, HeaderLen + m.len>>
  <2>1. /\ Units(m) \in Seq(UnitSet) /\ Len(Units(m)) = HeaderLen + m.len
        /\ \A i \in 1..(HeaderLen + m.len) : Units(m)[i] = <<m, i>>
    BY <1>4, UnitsType
  <2>2. r = Units(m)
    <3>1. ASSUME NEW i \in 1..Len(r)
          PROVE  r[i] = Units(m)[i]
      <4>1. i \in 1..(HeaderLen + m.len) /\ i <= Len(r)
        BY <1>9
      <4> QED
        BY <1>6, <2>1, <4>1
    <3> QED
      BY <1>9, <2>1, <3>1, SeqEqual
  <2>3. m \in ChecksumOf(r)
    <3>1. r[2] = <<m, 2>>
      BY <1>7 DEF IsHeaderOf
    <3> QED
      BY <3>1 DEF ChecksumOf
  <2>4. PayloadIntact(r)
    BY <1>9, <2>2, <2>3 DEF PayloadIntact
  <2>5. r[Len(r)] = <<m, HeaderLen + m.len>>
    BY <1>5, <1>6, <1>9, <1>1
  <2> QED
    BY <2>4, <2>5
<1>10. m.id = Len(arrived) + 1
  BY <1>2, <1>3
<1> QED
  BY <1>4, <1>8, <1>9, <1>10 DEF m

LEMMA MessageCompleted ==
    ASSUME NEW r \in Seq(UnitSet), NEW rest \in Seq(UnitSet), NEW size \in Sizes(r),
           Len(r) = HeaderLen + size, size > 0 => PayloadIntact(r),
           NEW arrived \in Seq(Messages \cup {Noise}), NEW sent \in Nat,
           NEW torn \in BOOLEAN, Direction(TRUE, torn, r \o rest, arrived, sent)
    PROVE  Direction(TRUE, torn, rest, Append(arrived, Meaning(r)), sent)
<1> DEFINE flow == r \o rest
           m == Meaning(r)
           after == Append(arrived, m)
<1>1. size \in Nat /\ m \in Messages \cup {Noise}
  BY OwnHeader
<1>2. /\ Len(r) \in Nat /\ Len(rest) \in Nat /\ Len(r) >= HeaderLen /\ Len(r) > 0
      /\ Len(arrived) \in Nat
      /\ flow \in Seq(UnitSet) /\ Len(flow) = Len(r) + Len(rest)
      /\ \A i \in 1..Len(r) : flow[i] = r[i]
      /\ \A i \in 1..Len(rest) : flow[Len(r) + i] = rest[i]
  <2>1. Len(r) \in Nat /\ Len(rest) \in Nat /\ Len(r) >= HeaderLen /\ Len(r) > 0
        /\ Len(arrived) \in Nat
    BY <1>1, LenProperties DEF HeaderLen
  <2>2. /\ flow \in Seq(UnitSet) /\ Len(flow) = Len(r) + Len(rest)
        /\ \A i \in 1..(Len(r) + Len(rest)) :
              flow[i] = IF i <= Len(r) THEN r[i] ELSE rest[i - Len(r)]
    BY ConcatProperties
  <2> HIDE DEF flow
  <2>3. \A i \in 1..Len(rest) : Len(r) + i \in 1..(Len(r) + Len(rest)) /\ ~(Len(r) + i <= Len(r))
          /\ (Len(r) + i) - Len(r) = i
    BY <2>1
  <2>4. \A i \in 1..Len(r) : i \in 1..(Len(r) + Len(rest)) /\ i <= Len(r)
    BY <2>1
  <2> QED
    BY <2>1, <2>2, <2>3, <2>4
<1>3. /\ after \in Seq(Messages \cup {Noise}) /\ Len(after) = Len(arrived) + 1
      /\ \A i \in 1..Len(arrived) : after[i] = arrived[i]
      /\ after[Len(arrived) + 1] = m
  BY <1>1, <1>2, AppendProperties
<1>4. HasPayload(m) => m \in Messages /\ r[Len(r)] = <<m, HeaderLen + m.len>>
  BY CompletedMessage
<1> HIDE DEF flow, m, after
<1>5. Way(flow, arrived, sent) /\ PayloadOrder(arrived)
  BY DEF Direction, flow
<1>6. \A i \in 1..Len(rest) : Len(r) + i \in 1..Len(flow) /\ Len(r) \in 1..Len(flow)
                             /\ Len(r) < Len(r) + i
  BY <1>2
<1>7. HasPayload(m) => m.id <= sent /\ \A j \in 1..Len(rest) : m.id < rest[j][1].id
  <2> SUFFICES ASSUME HasPayload(m)
               PROVE  m.id <= sent /\ \A j \in 1..Len(rest) : m.id < rest[j][1].id
    OBVIOUS
  <2>1. Len(r) \in 1..Len(flow) /\ flow[Len(r)] = <<m, HeaderLen + m.len>>
    BY <1>2, <1>4
  <2>2. IsLastUnit(flow[Len(r)]) /\ flow[Len(r)][1] = m
    BY <2>1 DEF IsLastUnit
  <2>3. m.id <= sent
    BY <1>5, <2>1, <2>2 DEF Way
  <2>4. ASSUME NEW j \in 1..Len(rest)
        PROVE  m.id < rest[j][1].id
    <3>1. Before(flow[Len(r)], flow[Len(r) + j])
      BY <1>5, <1>6 DEF Way, Ordered
    <3> QED
      BY <1>2, <2>2, <3>1 DEF Before
  <2> QED
    BY <2>3, <2>4
<1>8. Ordered(rest)
  BY <1>2, <1>5, <1>6 DEF Way, Ordered
<1>9. Way(rest, after, sent)
  <2>1. ASSUME NEW i \in 1..(Len(arrived) + 1), HasPayload(after[i])
        PROVE  after[i].id <= sent /\ \A j \in 1..Len(rest) : after[i].id < rest[j][1].id
    <3>1. CASE i = Len(arrived) + 1
      BY <1>3, <1>7, <2>1, <3>1
    <3>2. CASE i # Len(arrived) + 1
      <4>1. i \in 1..Len(arrived) /\ after[i] = arrived[i]
        BY <1>2, <1>3, <3>2
      <4> QED
        BY <1>2, <1>5, <1>6, <2>1, <4>1 DEF Way
    <3> QED
      BY <3>1, <3>2
  <2>2. ASSUME NEW i \in 1..Len(rest)
        PROVE  /\ rest[i][1].id <= sent + 1
               /\ IsLastUnit(rest[i]) => rest[i][1].id <= sent
    BY <1>2, <1>5, <1>6 DEF Way
  <2> QED
    BY <1>3, <1>8, <2>1, <2>2 DEF Way
<1>10. PayloadOrder(after)
  <2> SUFFICES ASSUME NEW i \in 1..(Len(arrived) + 1), NEW j \in 1..(Len(arrived) + 1), i < j,
                      HasPayload(after[i]), HasPayload(after[j])
               PROVE  after[i].id < after[j].id
    BY <1>3 DEF PayloadOrder
  <2>1. i \in 1..Len(arrived) /\ after[i] = arrived[i]
    BY <1>2, <1>3
  <2>2. CASE j = Len(arrived) + 1
    <3>1. after[j] = m /\ flow[Len(r)][1] = m
      BY <1>2, <1>3, <1>4, <2>2
    <3>2. Len(r) \in 1..Len(flow)
      BY <1>2
    <3>3. arrived[i].id < flow[Len(r)][1].id
      BY <1>5, <2>1, <3>2 DEF Way
    <3> QED
      BY <2>1, <3>1, <3>3
  <2>3. CASE j # Len(arrived) + 1
    <3>1. j \in 1..Len(arrived)
      <4>1. Len(arrived) \in Nat
        BY <1>2
      <4> QED
        BY <2>3, <4>1
    <3>2. after[j] = arrived[j]
      BY <1>3, <3>1
    <3> QED
      BY <1>5, <2>1, <3>1, <3>2 DEF PayloadOrder
  <2> QED
    BY <2>2, <2>3
<1>11. ASSUME ~torn
       PROVE  Exact(after) /\ NothingMissing(rest, after, sent)
  <2>1. Exact(arrived) /\ NothingMissing(flow, arrived, sent)
    BY <1>11 DEF Direction, flow
  <2>2. /\ m = r[1][1] /\ m \in Messages /\ m.id = Len(arrived) + 1 /\ Sizes(r) = {m.len}
        /\ Len(r) = HeaderLen + m.len => r[Len(r)] = <<m, HeaderLen + m.len>>
    BY <1>2, <2>1, ExactRead DEF flow, m
  <2>3. r[Len(r)] = <<m, HeaderLen + m.len>>
    BY <2>2
  <2>4. m # Noise
    BY <2>2, NoiseAssumption
  <2>5. Exact(after)
    <3> SUFFICES ASSUME NEW i \in 1..(Len(arrived) + 1)
                 PROVE  after[i] # Noise /\ after[i].id = i
      BY <1>3 DEF Exact
    <3>1. CASE i = Len(arrived) + 1
      BY <1>3, <2>2, <2>4, <3>1
    <3>2. CASE i # Len(arrived) + 1
      <4>1. i \in 1..Len(arrived)
        BY <1>2, <3>2
      <4> QED
        BY <1>3, <2>1, <4>1 DEF Exact
    <3> QED
      BY <3>1, <3>2
  <2>6. flow[Len(r)] = <<m, HeaderLen + m.len>> /\ IsLastUnit(flow[Len(r)])
    BY <1>2, <2>3 DEF IsLastUnit
  <2>7. Contiguous(rest)
    <3>1. \A i \in 1..(Len(rest) - 1) :
            /\ Len(r) + i \in 1..(Len(flow) - 1) /\ Len(r) + (i + 1) = (Len(r) + i) + 1
            /\ i \in 1..Len(rest) /\ i + 1 \in 1..Len(rest)
      <4>1. Len(r) \in Nat /\ Len(rest) \in Nat /\ Len(r) > 0 /\ Len(flow) = Len(r) + Len(rest)
        BY <1>2
      <4> DEFINE x == Len(r)
                 y == Len(rest)
                 z == Len(flow)
      <4>2. x \in Nat /\ y \in Nat /\ z \in Nat /\ x > 0 /\ z = x + y
        BY <4>1
      <4> HIDE DEF x, y, z
      <4>3. \A i \in 1..(y - 1) : /\ x + i \in 1..(z - 1) /\ x + (i + 1) = (x + i) + 1
                                  /\ i \in 1..y /\ i + 1 \in 1..y
        BY <4>2
      <4> QED
        BY <4>3 DEF x, y, z
    <3>2. \A i \in 1..(Len(rest) - 1) : Follows(flow[Len(r) + i], flow[(Len(r) + i) + 1])
      BY <2>1, <3>1 DEF NothingMissing, Contiguous
    <3>3. \A i \in 1..(Len(rest) - 1) :
            flow[Len(r) + i] = rest[i] /\ flow[(Len(r) + i) + 1] = rest[i + 1]
      BY <1>2, <3>1
    <3> QED
      BY <3>2, <3>3 DEF Contiguous
  <2>8. CASE Len(rest) = 0
    <3>1. Len(flow) = Len(r) /\ Len(flow) > 0
      BY <1>2, <2>8
    <3>2. flow[Len(flow)][1].id = sent
      BY <2>1, <3>1 DEF NothingMissing
    <3>3. sent = Len(arrived) + 1
      BY <2>2, <2>6, <3>1, <3>2
    <3> QED
      BY <1>3, <2>5, <2>7, <2>8, <3>3 DEF NothingMissing
  <2>9. CASE Len(rest) > 0
    <3>1. Len(r) \in 1..(Len(flow) - 1) /\ Len(flow) > 0
      BY <1>2, <2>9
    <3>2. Follows(flow[Len(r)], flow[Len(r) + 1])
      BY <2>1, <3>1 DEF NothingMissing, Contiguous
    <3>3. flow[Len(r) + 1] = rest[1] /\ flow[Len(flow)] = rest[Len(rest)]
      BY <1>2, <2>9
    <3>4. rest[1][2] = 1 /\ rest[1][1].id = (Len(arrived) + 1) + 1
      BY <2>2, <2>6, <3>2, <3>3 DEF Follows
    <3>5. IsLastUnit(rest[Len(rest)]) /\ rest[Len(rest)][1].id = sent
      BY <2>1, <3>1, <3>3 DEF NothingMissing
    <3> QED
      BY <1>3, <2>5, <2>7, <2>9, <3>4, <3>5 DEF NothingMissing
  <2> QED
    BY <1>2, <2>8, <2>9
<1> QED
  BY <1>9, <1>10, <1>11 DEF Direction, m, after
-----------------------------------------------------------------------------
(* Every step keeps the invariant *)

LEMMA HeadMoved ==
    ASSUME NEW S, NEW r \in Seq(S), NEW s \in Seq(S), s # <<>>
    PROVE  Append(r, Head(s)) \o Tail(s) = r \o s
<1> DEFINE h == <<Head(s)>>
           t == Tail(s)
<1>1. Head(s) \in S /\ t \in Seq(S)
  BY HeadTailProperties
<1>2. Append(r, Head(s)) = r \o h
  BY <1>1, AppendIsConcat
<1>3. s = h \o t
  <2>1. 1 \in 1..Len(s) /\ Len(s) \in 1..Len(s)
    BY EmptySeq
  <2>2. SubSeq(s, 1, Len(s)) = <<s[1]>> \o SubSeq(s, 1 + 1, Len(s))
    BY <2>1, SubSeqRecursiveFirst
  <2>3. SubSeq(s, 1, Len(s)) = s
    BY SubSeqFull
  <2>4. t = SubSeq(s, 2, Len(s)) /\ Head(s) = s[1]
    BY TailIsSubSeq
  <2> QED
    BY <2>2, <2>3, <2>4
<1>4. h \in Seq(S)
  BY <1>1
<1> HIDE DEF h, t
<1>5. (r \o h) \o t = r \o (h \o t)
  BY <1>1, <1>4, ConcatAssociative
<1> QED
  BY <1>2, <1>3, <1>5 DEF t

LEMMA AppendMoved ==
    ASSUME NEW S, NEW r \in Seq(S), NEW s \in Seq(S), NEW e \in S
    PROVE  r \o Append(s, e) = Append(r \o s, e)
<1> DEFINE h == <<e>>
<1>1. Append(s, e) = s \o h /\ r \o s \in Seq(S)
  BY AppendIsConcat, ConcatProperties
<1>2. Append(r \o s, e) = (r \o s) \o h
  BY <1>1, AppendIsConcat
<1>3. h \in Seq(S)
  OBVIOUS
<1> HIDE DEF h
<1>4. (r \o s) \o h = r \o (s \o h)
  BY <1>3, ConcatAssociative
<1> QED
  BY <1>1, <1>2, <1>4

\* A direction in which nothing moves.
LEMMA Unmoved ==
    ASSUME NEW n \in Node, DirectionOf(n), Flow(n)' = Flow(n), Arrived(n)' = Arrived(n),
           Sent(Other(n))' = Sent(Other(n)), disturbed'[n] = disturbed[n],
           open' => open
    PROVE  DirectionOf(n)'
  BY DEF DirectionOf, Direction

LEMMA SubmitInd ==
    ASSUME IndInv, NEW n \in Node, NEW len \in PayloadLens, Submit(n, len)
    PROVE  IndInv'
<1> DEFINE m == [id |-> submitted[n] + 1, len |-> len]
<1>1. /\ NodeType /\ BoundInv /\ ReadInv /\ ListInv /\ DirectionInv /\ OpenInv
      /\ listSend[n] \in Seq(Messages) /\ submitted[n] \in 0..MaxMessages[n]
      /\ MaxMessages[n] \in Nat
  BY FramingAssumption DEF IndInv, NodeType, BoundInv
<1>2. /\ submitted[n] < MaxMessages[n] /\ submitted'[n] = submitted[n] + 1
      /\ listSend'[n] = Append(listSend[n], m)
      /\ \A k \in Node : k # n => submitted'[k] = submitted[k] /\ listSend'[k] = listSend[k]
      /\ DOMAIN submitted' = Node
      /\ UNCHANGED <<wire, chunk, netMsg, queue, parts, received, disturbed, open>>
  BY <1>1 DEF Submit, NodeType
<1>3. m \in Messages
  <2>1. m.id \in 1..MaxMessages[n]
    BY <1>1, <1>2
  <2>2. m.id \in UNION {1..MaxMessages[k] : k \in Node}
    BY <2>1
  <2> QED
    BY <2>2 DEF Messages
<1> HIDE DEF m
<1>4. /\ listSend'[n] \in Seq(Messages) /\ Len(listSend'[n]) = Len(listSend[n]) + 1
      /\ \A i \in 1..Len(listSend[n]) : listSend'[n][i] = listSend[n][i]
      /\ listSend'[n][Len(listSend[n]) + 1] = m /\ Len(listSend[n]) \in Nat
  BY <1>1, <1>2, <1>3, AppendProperties, LenProperties
<1>5. NodeType'
  <2>1. listSend' = [listSend EXCEPT ![n] = Append(listSend[n], m)]
    BY <1>2 DEF Submit, m
  <2>2. listSend' \in [Node -> Seq(Messages)]
    BY <1>1, <1>2, <1>4, <2>1 DEF NodeType
  <2> QED
    BY <1>1, <1>2, <2>2 DEF NodeType
<1>6. BoundInv'
  BY <1>1, <1>2 DEF BoundInv
<1>7. ReadInv'
  BY <1>1, <1>2 DEF ReadInv, InHeader
<1>8. \A k \in Node : Sent(k)' = Sent(k)
  <2> TAKE k \in Node
  <2>1. CASE k = n
    <3>1. submitted[n] \in Nat
      BY <1>1
    <3>2. Sent(k)' = (submitted[n] + 1) - (Len(listSend[n]) + 1)
      BY <1>2, <1>4, <2>1 DEF Sent
    <3> QED
      BY <1>4, <2>1, <3>1, <3>2 DEF Sent
  <2>2. CASE k # n
    BY <1>2, <2>2 DEF Sent
  <2> QED
    BY <2>1, <2>2
<1>9. ListInv'
  <2> SUFFICES ASSUME NEW k \in Node
               PROVE  Sent(k)' \in Nat /\ Numbered(listSend'[k], Sent(k)')
    BY DEF ListInv
  <2>1. Sent(k) \in Nat /\ Numbered(listSend[k], Sent(k)) /\ Sent(k)' = Sent(k)
    BY <1>1, <1>8 DEF ListInv
  <2>2. CASE k = n
    <3>1. m.id = Sent(n) + (Len(listSend[n]) + 1)
      BY <1>1, <1>4 DEF m, Sent
    <3>2. Numbered(listSend'[n], Sent(n))
      <4> SUFFICES ASSUME NEW i \in 1..(Len(listSend[n]) + 1)
                   PROVE  listSend'[n][i].id = Sent(n) + i
        BY <1>4 DEF Numbered
      <4>1. CASE i = Len(listSend[n]) + 1
        BY <1>4, <3>1, <4>1
      <4>2. CASE i # Len(listSend[n]) + 1
        <5>1. i \in 1..Len(listSend[n])
          BY <1>4, <4>2
        <5> QED
          BY <1>4, <2>1, <2>2, <5>1 DEF Numbered
      <4> QED
        BY <4>1, <4>2
    <3> QED
      BY <2>1, <2>2, <3>2
  <2>3. CASE k # n
    BY <1>2, <2>1, <2>3
  <2> QED
    BY <2>2, <2>3
<1>10. DirectionInv'
  <2> SUFFICES ASSUME NEW k \in Node
               PROVE  DirectionOf(k)'
    BY DEF DirectionInv
  <2>1. Flow(k)' = Flow(k) /\ Arrived(k)' = Arrived(k) /\ Sent(Other(k))' = Sent(Other(k))
    BY <1>2, <1>8, TwoNodes DEF Flow, Arrived
  <2> QED
    BY <1>1, <1>2, <2>1, Unmoved DEF DirectionInv
<1> QED
  BY <1>1, <1>2, <1>5, <1>6, <1>7, <1>9, <1>10 DEF IndInv, OpenInv

LEMMA ProcessInd ==
    ASSUME IndInv, NEW n \in Node, Process(n)
    PROVE  IndInv'
<1>1. /\ NodeType /\ BoundInv /\ ReadInv /\ ListInv /\ DirectionInv /\ OpenInv
      /\ queue[n] \in Seq(Messages \cup {Noise}) /\ received[n] \in Seq(Messages \cup {Noise})
  BY DEF IndInv, NodeType
<1>2. /\ queue[n] # <<>>
      /\ received' = [received EXCEPT ![n] = Append(received[n], Head(queue[n]))]
      /\ queue' = [queue EXCEPT ![n] = Tail(queue[n])]
      /\ UNCHANGED <<listSend, submitted, wire, chunk, netMsg, parts, disturbed, open>>
  BY DEF Process
<1>3. /\ Head(queue[n]) \in Messages \cup {Noise} /\ Tail(queue[n]) \in Seq(Messages \cup {Noise})
      /\ Len(Tail(queue[n])) = Len(queue[n]) - 1 /\ Len(queue[n]) \in Nat
      /\ Append(received[n], Head(queue[n])) \in Seq(Messages \cup {Noise})
  BY <1>1, <1>2, HeadTailProperties, LenProperties, AppendProperties
<1>4. NodeType'
  BY <1>1, <1>2, <1>3 DEF NodeType
<1>5. BoundInv'
  <2>1. \A k \in Node : Len(queue'[k]) <= MaxQueue
    <3> TAKE k \in Node
    <3>1. CASE k = n
      <4>1. queue'[n] = Tail(queue[n])
        BY <1>1, <1>2 DEF NodeType
      <4> QED
        BY <1>1, <1>3, <3>1, <4>1, FramingAssumption DEF BoundInv
    <3>2. CASE k # n
      BY <1>1, <1>2, <3>2 DEF BoundInv, NodeType
    <3> QED
      BY <3>1, <3>2
  <2> QED
    BY <1>1, <1>2, <2>1 DEF BoundInv
<1>6. ReadInv' /\ ListInv'
  BY <1>1, <1>2 DEF ReadInv, InHeader, ListInv, Sent
<1>7. Append(received[n], Head(queue[n])) \o Tail(queue[n]) = received[n] \o queue[n]
  BY <1>1, <1>2, HeadMoved
<1>8. DirectionInv'
  <2> SUFFICES ASSUME NEW k \in Node
               PROVE  DirectionOf(k)'
    BY DEF DirectionInv
  <2>1. Flow(k)' = Flow(k) /\ Sent(Other(k))' = Sent(Other(k))
    BY <1>2 DEF Flow, Sent
  <2>2. Arrived(k)' = Arrived(k)
    BY <1>1, <1>2, <1>7 DEF Arrived, NodeType
  <2> QED
    BY <1>1, <1>2, <2>1, <2>2, Unmoved DEF DirectionInv
<1> QED
  BY <1>1, <1>2, <1>4, <1>5, <1>6, <1>8 DEF IndInv, OpenInv

\* Sequences may be concatenated in any order of the steps.
Regroups(x, y, z) == (x \o y) \o z = x \o (y \o z)
RegroupsLast(x, y, z, w) == x \o (y \o (z \o w)) = (x \o (y \o z)) \o w
RegroupsMiddle(x, y, z, w) == x \o ((y \o z) \o w) = (x \o y) \o (z \o w)

LEMMA Associative == \A x, y, z \in Seq(UnitSet) : Regroups(x, y, z)
  BY ConcatAssociative DEF Regroups

LEMMA Joined == \A x, y \in Seq(UnitSet) : x \o y \in Seq(UnitSet)
  BY ConcatProperties

LEMMA AppendedFlow ==
    \A a, b, c, d \in Seq(UnitSet) : RegroupsLast(a, b, c, d)
<1> SUFFICES ASSUME NEW a \in Seq(UnitSet), NEW b \in Seq(UnitSet), NEW c \in Seq(UnitSet),
                    NEW d \in Seq(UnitSet)
             PROVE  RegroupsLast(a, b, c, d)
  OBVIOUS
<1>1. b \o c \in Seq(UnitSet)
  BY Joined
<1>2. Regroups(b, c, d)
  BY Associative, Zenon
<1>3. Regroups(a, b \o c, d)
  BY <1>1, Associative, Zenon
<1> QED
  BY <1>2, <1>3, Zenon DEF Regroups, RegroupsLast

LEMMA SomethingWaits ==
    ASSUME NEW list, NEW t \in 1..Len(Stream(list))
    PROVE  list # <<>>
<1> SUFFICES ASSUME list = <<>>
             PROVE  FALSE
  OBVIOUS
<1> DEFINE ss == [i \in DOMAIN list |-> Units(list[i])]
<1>1. ss = <<>>
  OBVIOUS
<1>2. FlattenSeq(ss) = <<>>
  BY <1>1 DEF FlattenSeq
<1>3. Len(Stream(list)) = 0
  BY <1>2 DEF Stream
<1> QED
  BY <1>3

LEMMA SendInd ==
    ASSUME IndInv, NEW n \in Node, NEW t, SendUnits(n, t)
    PROVE  IndInv'
<1> DEFINE list == listSend[n]
           s == SubSeq(Stream(list), 1, t)
           j == LastOf(list, t)
           gone == IF SentInPart(list, t) THEN j - 1 ELSE j
           m == Other(n)
<1>1. /\ NodeType /\ BoundInv /\ ReadInv /\ ListInv /\ DirectionInv /\ OpenInv
      /\ list \in Seq(Messages) /\ Sent(n) \in Nat /\ Numbered(list, Sent(n))
      /\ open
  BY DEF IndInv, NodeType, ListInv, SendUnits, Settled
<1>2. /\ t \in 1..Len(Stream(list)) /\ t <= Capacity - Len(wire[n])
      /\ wire' = [wire EXCEPT ![n] = wire[n] \o s]
      /\ listSend' = [listSend EXCEPT ![n] = Unsent(list, t)]
      /\ UNCHANGED <<submitted, chunk, netMsg, queue, received, open>>
  BY DEF SendUnits
<1>3. IF SentInPart(list, t)
      THEN /\ parts < MaxParts /\ parts' = parts + 1
           /\ disturbed' = [disturbed EXCEPT ![m] = TRUE]
      ELSE UNCHANGED <<parts, disturbed>>
  BY DEF SendUnits
<1>4. list # <<>>
  BY <1>2, SomethingWaits
<1>5. /\ s \in Seq(UnitSet) /\ Len(s) = t /\ Ordered(s) /\ Contiguous(s)
      /\ s[1] = <<list[1], 1>>
      /\ j \in 1..Len(list) /\ s[t][1] = list[j]
      /\ gone \in 0..Len(list) /\ Unsent(list, t) = SubSeq(list, gone + 1, Len(list))
      /\ \A i \in 1..t : /\ s[i][1].id <= Sent(n) + gone + 1
                         /\ IsLastUnit(s[i]) => s[i][1].id <= Sent(n) + gone
      /\ SentInPart(list, t) = ~IsLastUnit(s[t])
  BY <1>1, <1>2, <1>4, SentUnits
<1>6. SentInPart(list, t) \in BOOLEAN /\ (~SentInPart(list, t) => gone = j)
  BY DEF SentInPart
<1> HIDE DEF list, s, j, gone
<1>7. /\ m \in Node /\ m # n /\ Other(m) = n /\ \A k \in Node : k = n \/ k = m
      /\ wire[n] \in Seq(UnitSet) /\ chunk[m] \in Seq(UnitSet)
      /\ netMsg[m].units \in Seq(UnitSet) /\ Len(list) \in Nat /\ Len(wire[n]) \in Nat
  BY <1>1, TwoNodes, LenProperties DEF NodeType
<1> HIDE DEF m
<1>8. wire[n] \o s \in Seq(UnitSet) /\ Len(wire[n] \o s) = Len(wire[n]) + t
  <2>1. s \in Seq(UnitSet) /\ Len(s) = t /\ wire[n] \in Seq(UnitSet)
    BY <1>5, <1>7
  <2> QED
    BY <2>1, ConcatProperties
<1>9. /\ Unsent(list, t) \in Seq(Messages) /\ Len(Unsent(list, t)) = Len(list) - gone
      /\ \A i \in 1..(Len(list) - gone) : Unsent(list, t)[i] = list[gone + i]
  <2>1. gone + 1 \in Int /\ Len(list) \in Int /\ \A i \in (gone + 1)..Len(list) : list[i] \in Messages
    BY <1>1, <1>5, <1>7, ElementOfSeq
  <2>2. /\ SubSeq(list, gone + 1, Len(list)) \in Seq(Messages)
        /\ Len(SubSeq(list, gone + 1, Len(list)))
              = IF gone + 1 <= Len(list) THEN Len(list) - (gone + 1) + 1 ELSE 0
        /\ \A i \in 1..(Len(list) - (gone + 1) + 1) :
              SubSeq(list, gone + 1, Len(list))[i] = list[(gone + 1) + i - 1]
    BY <2>1, SubSeqProperties
  <2>3. /\ (IF gone + 1 <= Len(list) THEN Len(list) - (gone + 1) + 1 ELSE 0) = Len(list) - gone
        /\ Len(list) - (gone + 1) + 1 = Len(list) - gone
        /\ \A i \in 1..(Len(list) - gone) : (gone + 1) + i - 1 = gone + i
    BY <1>5, <1>7
  <2> QED
    BY <1>5, <2>2, <2>3
<1>10. NodeType'
  <2>1. disturbed' \in [Node -> BOOLEAN]
    BY <1>1, <1>3 DEF NodeType
  <2>2. wire' \in [Node -> Seq(UnitSet)] /\ listSend' \in [Node -> Seq(Messages)]
    BY <1>1, <1>2, <1>8, <1>9 DEF NodeType
  <2> QED
    BY <1>1, <1>2, <2>1, <2>2 DEF NodeType
<1>11. /\ wire'[n] = wire[n] \o s /\ listSend'[n] = Unsent(list, t)
       /\ wire'[m] = wire[m] /\ listSend'[m] = listSend[m] /\ disturbed'[n] = disturbed[n]
       /\ disturbed'[m] = (disturbed[m] \/ SentInPart(list, t))
  <2>1. DOMAIN wire = Node /\ DOMAIN listSend = Node /\ disturbed \in [Node -> BOOLEAN]
    BY <1>1 DEF NodeType
  <2>2. CASE SentInPart(list, t)
    BY <1>2, <1>3, <1>7, <2>1, <2>2
  <2>3. CASE ~SentInPart(list, t)
    BY <1>2, <1>3, <1>7, <2>1, <2>3
  <2> QED
    BY <2>2, <2>3
<1>12. BoundInv'
  <2>1. \A k \in Node : Len(wire'[k]) <= Capacity
    <3>1. Len(wire'[n]) <= Capacity
      <4>1. t \in Int /\ Capacity \in Int
        BY <1>2, FramingAssumption
      <4> QED
        BY <1>2, <1>7, <1>8, <1>11, <4>1
    <3> QED
      BY <1>1, <1>7, <1>11, <3>1 DEF BoundInv
  <2>2. parts' \in 0..MaxParts
    <3>1. parts \in 0..MaxParts /\ MaxParts \in Nat
      BY <1>1, FramingAssumption DEF BoundInv
    <3>2. parts' = parts \/ (parts < MaxParts /\ parts' = parts + 1)
      BY <1>3
    <3> QED
      BY <3>1, <3>2
  <2> QED
    BY <1>1, <1>2, <2>1, <2>2 DEF BoundInv
<1>13. ReadInv'
  BY <1>1, <1>2 DEF ReadInv, InHeader
<1>14. Sent(n)' = Sent(n) + gone /\ Sent(m)' = Sent(m)
  <2>1. submitted[n] \in Int
    BY <1>1, <1>7, FramingAssumption DEF BoundInv
  <2>2. Sent(n)' = submitted[n] - (Len(list) - gone) /\ Sent(n) = submitted[n] - Len(list)
    BY <1>2, <1>9, <1>11 DEF Sent, list
  <2>3. Sent(m)' = Sent(m)
    BY <1>2, <1>11 DEF Sent
  <2> QED
    BY <1>5, <1>7, <2>1, <2>2, <2>3
<1>15. ListInv'
  <2>1. Sent(n) + gone \in Nat
    BY <1>1, <1>5
  <2>2. Numbered(Unsent(list, t), Sent(n) + gone)
    <3> SUFFICES ASSUME NEW i \in 1..(Len(list) - gone)
                 PROVE  Unsent(list, t)[i].id = Sent(n) + gone + i
      BY <1>9 DEF Numbered
    <3>1. gone + i \in 1..Len(list) /\ Sent(n) + (gone + i) = Sent(n) + gone + i
      BY <1>1, <1>5, <1>7
    <3>2. list[gone + i].id = Sent(n) + (gone + i)
      BY <1>1, <3>1 DEF Numbered
    <3> QED
      BY <1>9, <3>1, <3>2
  <2>3. Sent(m) \in Nat /\ Numbered(listSend[m], Sent(m))
    BY <1>1, <1>7 DEF ListInv
  <2> SUFFICES ASSUME NEW k \in Node
               PROVE  Sent(k)' \in Nat /\ Numbered(listSend'[k], Sent(k)')
    BY DEF ListInv
  <2>4. CASE k = n
    BY <1>11, <1>14, <2>1, <2>2, <2>4
  <2>5. CASE k = m
    BY <1>11, <1>14, <2>3, <2>5
  <2> QED
    BY <1>7, <2>4, <2>5
<1>16. DirectionOf(m)'
  <2>1. Direction(TRUE, disturbed[m], Flow(m), Arrived(m), Sent(n))
    BY <1>1, <1>7 DEF DirectionInv, DirectionOf
  <2>2. /\ Flow(m) \in Seq(UnitSet) /\ Arrived(m) \in Seq(Messages \cup {Noise})
        /\ disturbed[m] \in BOOLEAN /\ disturbed'[m] \in BOOLEAN
    BY <1>1, <1>7, <1>10, FlowType DEF NodeType
  <2>3. Len(s) > 0 /\ Len(s) = t /\ s[1][2] = 1 /\ s[1][1].id = Sent(n) + 1 /\ gone \in Nat
    <3>1. list[1].id = Sent(n) + 1
      <4>1. 1 \in 1..Len(list)
        BY <1>1, <1>4, <1>7, EmptySeq
      <4> QED
        BY <1>1, <4>1 DEF Numbered
    <3>2. Len(s) > 0 /\ gone \in Nat
      BY <1>2, <1>5
    <3> QED
      BY <1>5, <3>1, <3>2
  <2>4. ~disturbed'[m] => /\ ~disturbed[m] /\ IsLastUnit(s[Len(s)])
                          /\ s[Len(s)][1].id = Sent(n) + gone
    <3> SUFFICES ASSUME ~disturbed'[m]
                 PROVE  /\ ~disturbed[m] /\ IsLastUnit(s[Len(s)])
                        /\ s[Len(s)][1].id = Sent(n) + gone
      OBVIOUS
    <3>1. ~disturbed[m] /\ ~SentInPart(list, t)
      BY <1>11
    <3>2. IsLastUnit(s[t]) /\ gone = j
      BY <1>5, <1>6, <3>1
    <3>3. list[j].id = Sent(n) + j
      BY <1>1, <1>5 DEF Numbered
    <3> QED
      BY <1>5, <3>1, <3>2, <3>3
  <2>5. Direction(TRUE, disturbed'[m], Flow(m) \o s, Arrived(m), Sent(n) + gone)
    BY <1>1, <1>5, <2>1, <2>2, <2>3, <2>4, MoreSent
  <2>6. Flow(m)' = Flow(m) \o s
    <3> DEFINE a == netMsg[m].units
               b == chunk[m]
               c == wire[n]
    <3>1. Flow(m)' = a \o (b \o (c \o s))
      BY <1>2, <1>7, <1>11 DEF Flow
    <3>2. Flow(m) = a \o (b \o c)
      BY <1>7 DEF Flow
    <3>3. a \in Seq(UnitSet) /\ b \in Seq(UnitSet) /\ c \in Seq(UnitSet) /\ s \in Seq(UnitSet)
      BY <1>5, <1>7
    <3> HIDE DEF a, b, c
    <3>4. RegroupsLast(a, b, c, s)
      BY <3>3, AppendedFlow, Zenon
    <3> QED
      BY <3>1, <3>2, <3>4, Zenon DEF RegroupsLast
  <2>7. Arrived(m)' = Arrived(m)
    BY <1>2 DEF Arrived
  <2> QED
    BY <1>1, <1>2, <1>7, <1>14, <2>5, <2>6, <2>7 DEF DirectionOf
<1>17. DirectionOf(n)'
  <2>1. Flow(n)' = Flow(n) /\ Arrived(n)' = Arrived(n) /\ Sent(Other(n))' = Sent(Other(n))
    BY <1>2, <1>11, <1>14 DEF Flow, Arrived, m
  <2> QED
    BY <1>1, <1>2, <1>11, <2>1, Unmoved DEF DirectionInv
<1>18. DirectionInv'
  BY <1>7, <1>16, <1>17 DEF DirectionInv
<1>19. OpenInv'
  BY <1>1, <1>2 DEF OpenInv
<1> QED
  BY <1>10, <1>12, <1>13, <1>15, <1>18, <1>19 DEF IndInv

LEMMA ReceiveInd ==
    ASSUME IndInv, NEW n \in Node, Receive(n)
    PROVE  IndInv'
<1> DEFINE m == Other(n)
<1>1. /\ NodeType /\ BoundInv /\ ReadInv /\ ListInv /\ DirectionInv /\ OpenInv
      /\ open /\ chunk[n] = <<>>
  BY DEF IndInv, Receive, Settled
<1>2. PICK k \in 1..Len(wire[m]) :
        /\ chunk' = [chunk EXCEPT ![n] = SubSeq(wire[m], 1, k)]
        /\ wire' = [wire EXCEPT ![m] = SubSeq(wire[m], k + 1, Len(wire[m]))]
  BY DEF Receive
<1>3. UNCHANGED <<listSend, submitted, netMsg, queue, parts, received, disturbed, open>>
  BY DEF Receive
<1>4. /\ m \in Node /\ m # n /\ Other(m) = n /\ \A l \in Node : l = n \/ l = m
      /\ wire[m] \in Seq(UnitSet) /\ Len(wire[m]) \in Nat
  BY <1>1, TwoNodes, LenProperties DEF NodeType
<1> DEFINE front == SubSeq(wire[m], 1, k)
           back == SubSeq(wire[m], k + 1, Len(wire[m]))
<1>5. /\ front \in Seq(UnitSet) /\ back \in Seq(UnitSet) /\ Len(back) = Len(wire[m]) - k
  <2>1. /\ 1 \in 1..(Len(wire[m]) + 1) /\ k \in (1 - 1)..Len(wire[m])
        /\ k + 1 \in 1..(Len(wire[m]) + 1) /\ Len(wire[m]) \in ((k + 1) - 1)..Len(wire[m])
        /\ Len(wire[m]) - (k + 1) + 1 = Len(wire[m]) - k
    BY <1>4
  <2>2. front \in Seq(UnitSet)
    BY <1>4, <2>1, PartType
  <2>3. back \in Seq(UnitSet) /\ Len(back) = Len(wire[m]) - (k + 1) + 1
    BY <1>4, <2>1, PartType
  <2> QED
    BY <2>1, <2>2, <2>3
<1>6. front \o back = wire[m]
  <2>1. 1 \in 1..(Len(wire[m]) + 1) /\ k \in (1 - 1)..Len(wire[m]) /\ Len(wire[m]) \in k..Len(wire[m])
    BY <1>4
  <2>2. front \o back = SubSeq(wire[m], 1, Len(wire[m]))
    BY <1>4, <2>1, ConcatAdjacentSubSeq
  <2> QED
    BY <1>4, <2>2, SubSeqFull
<1> HIDE DEF front, back
<1>7. /\ chunk'[n] = front /\ wire'[m] = back /\ chunk'[m] = chunk[m] /\ wire'[n] = wire[n]
  BY <1>1, <1>2, <1>4 DEF NodeType, front, back
<1>8. NodeType'
  <2>1. chunk' \in [Node -> Seq(UnitSet)] /\ wire' \in [Node -> Seq(UnitSet)]
    BY <1>1, <1>2, <1>5 DEF NodeType, front, back
  <2> QED
    BY <1>1, <1>3, <2>1 DEF NodeType
<1>9. BoundInv'
  <2>1. Len(wire[m]) <= Capacity /\ Len(wire[n]) <= Capacity
    BY <1>1, <1>4 DEF BoundInv
  <2>2. Len(back) <= Capacity
    BY <1>4, <1>5, <2>1, FramingAssumption
  <2>3. \A l \in Node : Len(wire'[l]) <= Capacity
    BY <1>4, <1>7, <2>1, <2>2
  <2> QED
    BY <1>1, <1>3, <2>3 DEF BoundInv
<1>10. ReadInv' /\ ListInv' /\ OpenInv'
  BY <1>1, <1>3 DEF ReadInv, InHeader, ListInv, Sent, OpenInv
<1>11. DirectionInv'
  <2>1. Flow(n)' = Flow(n)
    <3>1. <<>> \o wire[m] = wire[m]
      BY <1>4, ConcatEmptySeq
    <3>2. Flow(n)' = netMsg[n].units \o (front \o back)
      BY <1>3, <1>7 DEF Flow, m
    <3>3. Flow(n) = netMsg[n].units \o (<<>> \o wire[m])
      BY <1>1 DEF Flow, m
    <3> QED
      BY <1>6, <3>1, <3>2, <3>3
  <2>2. Flow(m)' = Flow(m)
    BY <1>3, <1>4, <1>7 DEF Flow
  <2>3. \A l \in Node : Arrived(l)' = Arrived(l) /\ Sent(Other(l))' = Sent(Other(l))
    BY <1>3 DEF Arrived, Sent
  <2>4. \A l \in Node : Flow(l)' = Flow(l)
    BY <1>4, <2>1, <2>2
  <2> SUFFICES ASSUME NEW l \in Node
               PROVE  DirectionOf(l)'
    BY DEF DirectionInv
  <2> QED
    BY <1>1, <1>3, <2>3, <2>4, Unmoved DEF DirectionInv
<1> QED
  BY <1>8, <1>9, <1>10, <1>11 DEF IndInv

LEMMA DropInd ==
    ASSUME IndInv, NEW n \in Node, DropRest(n)
    PROVE  IndInv'
<1>1. /\ NodeType /\ BoundInv /\ ReadInv /\ ListInv /\ DirectionInv /\ OpenInv
  BY DEF IndInv
<1>2. /\ open
      /\ chunk' = [chunk EXCEPT ![n] = <<>>]
      /\ disturbed' = [disturbed EXCEPT ![n] = TRUE]
      /\ UNCHANGED <<listSend, submitted, wire, netMsg, queue, parts, received, open>>
  BY DEF DropRest
<1>3. /\ chunk'[n] = <<>> /\ disturbed'[n] = TRUE
      /\ \A k \in Node : k # n => chunk'[k] = chunk[k] /\ disturbed'[k] = disturbed[k]
  BY <1>1, <1>2 DEF NodeType
<1>4. NodeType'
  <2>1. <<>> \in Seq(UnitSet)
    OBVIOUS
  <2> QED
    BY <1>1, <1>2, <2>1 DEF NodeType
<1>5. BoundInv' /\ ReadInv' /\ ListInv'
  BY <1>1, <1>2 DEF BoundInv, ReadInv, InHeader, ListInv, Sent
<1>6. OpenInv'
  BY <1>2 DEF OpenInv, DropRest
<1>7. \A k \in Node : Arrived(k)' = Arrived(k) /\ Sent(Other(k))' = Sent(Other(k))
  BY <1>2 DEF Arrived, Sent
<1>8. DirectionOf(n)'
  <2> DEFINE a == netMsg[n].units
             b == chunk[n]
             c == wire[Other(n)]
  <2>1. a \in Seq(UnitSet) /\ b \in Seq(UnitSet) /\ c \in Seq(UnitSet)
    BY <1>1, FlowType
  <2>2. Direction(TRUE, disturbed[n], a \o (b \o c), Arrived(n), Sent(Other(n)))
    BY <1>1, <1>2 DEF DirectionInv, DirectionOf, Flow
  <2>3. Flow(n)' = a \o c
    <3>1. Flow(n)' = a \o (<<>> \o c)
      BY <1>2, <1>3 DEF Flow
    <3>2. <<>> \o c = c
      BY <2>1, ConcatEmptySeq
    <3> QED
      BY <3>1, <3>2
  <2> HIDE DEF a, b, c
  <2>4. Direction(TRUE, TRUE, a \o c, Arrived(n), Sent(Other(n)))
    BY <2>1, <2>2, UnitsDropped
  <2>5. open' = TRUE /\ disturbed'[n] = TRUE
    BY <1>1, <1>2, <1>3 DEF NodeType
  <2> QED
    BY <1>7, <2>3, <2>4, <2>5 DEF DirectionOf
<1>9. DirectionInv'
  <2> SUFFICES ASSUME NEW k \in Node
               PROVE  DirectionOf(k)'
    BY DEF DirectionInv
  <2>1. CASE k = n
    BY <1>8, <2>1
  <2>2. CASE k # n
    <3>1. Flow(k)' = Flow(k)
      BY <1>2, <1>3, <2>2 DEF Flow
    <3> QED
      BY <1>1, <1>2, <1>3, <1>7, <2>2, <3>1, Unmoved DEF DirectionInv
  <2> QED
    BY <2>1, <2>2
<1> QED
  BY <1>4, <1>5, <1>6, <1>9 DEF IndInv

LEMMA SplitFlow ==
    \A a, b, c, d \in Seq(UnitSet) : RegroupsMiddle(a, b, c, d)
<1> SUFFICES ASSUME NEW a \in Seq(UnitSet), NEW b \in Seq(UnitSet), NEW c \in Seq(UnitSet),
                    NEW d \in Seq(UnitSet)
             PROVE  RegroupsMiddle(a, b, c, d)
  OBVIOUS
<1>1. c \o d \in Seq(UnitSet)
  BY Joined
<1>2. Regroups(b, c, d)
  BY Associative, Zenon
<1>3. Regroups(a, b, c \o d)
  BY <1>1, Associative, Zenon
<1> QED
  BY <1>2, <1>3, Zenon DEF Regroups, RegroupsMiddle

\* What a call of readData has read, and what it leaves.
Rest(n) == SubSeq(chunk[n], TakenBy(n) + 1, Len(chunk[n]))
Limit(n) == IF InHeader(n) THEN HeaderLen ELSE HeaderLen + netMsg[n].size

LEMMA ReadFacts ==
    ASSUME NodeType, ReadInv, NEW n \in Node, chunk[n] # <<>>
    PROVE  /\ UnitsRead(n) \in Seq(UnitSet) /\ Rest(n) \in Seq(UnitSet)
           /\ Len(netMsg[n].units) < Len(UnitsRead(n)) /\ Len(UnitsRead(n)) <= Limit(n)
           /\ \A i \in 1..Len(netMsg[n].units) : UnitsRead(n)[i] = netMsg[n].units[i]
           /\ Flow(n) = UnitsRead(n) \o (Rest(n) \o wire[Other(n)])
           /\ Rest(n) \o wire[Other(n)] \in Seq(UnitSet)
           /\ Len(netMsg[n].units) \in Nat /\ Len(UnitsRead(n)) \in Nat
           /\ netMsg[n].size \in Nat
<1> DEFINE a == netMsg[n].units
           c == chunk[n]
           k == TakenBy(n)
           b == SubSeq(c, 1, k)
           w == wire[Other(n)]
<1>1. /\ a \in Seq(UnitSet) /\ c \in Seq(UnitSet) /\ w \in Seq(UnitSet)
      /\ netMsg[n].size \in 0..MaxPayload /\ Len(a) \in Nat /\ Len(c) \in Nat /\ Len(c) > 0
  BY FlowType, LenProperties, EmptySeq
<1>2. netMsg[n].size \in Nat
  BY <1>1, FramingAssumption
<1>3. Len(a) < Limit(n) /\ Limit(n) \in Nat
  <2>1. CASE InHeader(n)
    BY <2>1 DEF InHeader, Limit, HeaderLen
  <2>2. CASE ~InHeader(n)
    BY <1>2, <2>2 DEF ReadInv, Limit, HeaderLen
  <2> QED
    BY <2>1, <2>2
<1>4. Wanted(n) = Limit(n) - Len(a)
  BY DEF Wanted, Limit
<1>5. k \in 1..Len(c) /\ Len(a) + k <= Limit(n)
  <2>1. k = IF Limit(n) - Len(a) < Len(c) THEN Limit(n) - Len(a) ELSE Len(c)
    BY <1>4 DEF TakenBy
  <2>2. \A x, y, z \in Nat : x < y /\ z > 0 =>
          LET least == IF y - x < z THEN y - x ELSE z IN least \in 1..z /\ x + least <= y
    OBVIOUS
  <2>3. Len(a) \in Nat /\ Len(c) \in Nat /\ Len(c) > 0
    BY <1>1
  <2> HIDE DEF a, c, k
  <2> QED
    BY <1>3, <2>1, <2>2, <2>3
<1> HIDE DEF k
<1>6. /\ b \in Seq(UnitSet) /\ Len(b) = k /\ Rest(n) \in Seq(UnitSet)
  <2>1. /\ 1 \in 1..(Len(c) + 1) /\ k \in (1 - 1)..Len(c) /\ k - 1 + 1 = k
        /\ k + 1 \in 1..(Len(c) + 1) /\ Len(c) \in ((k + 1) - 1)..Len(c)
    BY <1>1, <1>5
  <2> HIDE DEF a, c
  <2>2. b \in Seq(UnitSet) /\ Len(b) = k - 1 + 1
    BY <1>1, <2>1, PartType
  <2>3. SubSeq(c, k + 1, Len(c)) \in Seq(UnitSet)
    BY <1>1, <2>1, PartType
  <2> QED
    BY <2>1, <2>2, <2>3 DEF Rest, c, k
<1>7. b \o Rest(n) = c
  <2>1. 1 \in 1..(Len(c) + 1) /\ k \in (1 - 1)..Len(c) /\ Len(c) \in k..Len(c)
    BY <1>1, <1>5
  <2> HIDE DEF c
  <2>2. SubSeq(c, 1, k) \o SubSeq(c, k + 1, Len(c)) = SubSeq(c, 1, Len(c))
    BY <1>1, <2>1, ConcatAdjacentSubSeq
  <2>3. SubSeq(c, 1, Len(c)) = c
    BY <1>1, SubSeqFull
  <2> QED
    BY <2>2, <2>3 DEF Rest, c, k
<1>8. UnitsRead(n) = a \o b
  BY DEF UnitsRead, k
<1> HIDE DEF a, b, c, w
<1>9. /\ a \o b \in Seq(UnitSet) /\ Len(a \o b) = Len(a) + k
      /\ \A i \in 1..Len(a) : (a \o b)[i] = a[i]
  <2>1. /\ a \o b \in Seq(UnitSet) /\ Len(a \o b) = Len(a) + Len(b)
        /\ \A i \in 1..(Len(a) + Len(b)) : (a \o b)[i] = IF i <= Len(a) THEN a[i] ELSE b[i - Len(a)]
    BY <1>1, <1>6, ConcatProperties
  <2>2. Len(b) = k /\ k \in Nat
    BY <1>5, <1>6
  <2>3. \A i \in 1..Len(a) : i \in 1..(Len(a) + Len(b)) /\ i <= Len(a)
    BY <1>1, <2>2
  <2> QED
    BY <2>1, <2>2, <2>3
<1>10. Rest(n) \o w \in Seq(UnitSet)
  BY <1>1, <1>6, ConcatProperties
<1>11. a \o ((b \o Rest(n)) \o w) = (a \o b) \o (Rest(n) \o w)
  <2>1. /\ a \in Seq(UnitSet) /\ b \in Seq(UnitSet) /\ Rest(n) \in Seq(UnitSet)
        /\ w \in Seq(UnitSet)
    BY <1>1, <1>6
  <2>2. RegroupsMiddle(a, b, Rest(n), w)
    BY <2>1, SplitFlow, Zenon
  <2> QED
    BY <2>2, Zenon DEF RegroupsMiddle
<1>12. Flow(n) = a \o (c \o w)
  BY DEF Flow, a, c, w
<1>13. Len(a) < Len(a) + k /\ Len(a) + k \in Nat
  BY <1>1, <1>5
<1> QED
  BY <1>1, <1>2, <1>5, <1>6, <1>7, <1>8, <1>9, <1>10, <1>11, <1>12, <1>13 DEF a, w

\* A call of readData: what it does not change, and what holds if it goes on.
LEMMA ReadUnchanged ==
    ASSUME IndInv, NEW n \in Node, ReadData(n)
    PROVE  /\ NodeType /\ BoundInv /\ ReadInv /\ ListInv /\ DirectionInv /\ OpenInv
           /\ open /\ chunk[n] # <<>> /\ Len(queue[n]) < MaxQueue
           /\ chunk' = [chunk EXCEPT ![n] = Rest(n)] /\ chunk'[n] = Rest(n)
           /\ \A k \in Node : k # n => chunk'[k] = chunk[k]
           /\ UNCHANGED <<listSend, submitted, wire, parts, received, disturbed>>
           /\ chunk' \in [Node -> Seq(UnitSet)]
           /\ ListInv' /\ \A k \in Node : Sent(k)' = Sent(k)
<1>1. /\ NodeType /\ BoundInv /\ ReadInv /\ ListInv /\ DirectionInv /\ OpenInv
      /\ open /\ chunk[n] # <<>>
      /\ chunk' = [chunk EXCEPT ![n] = Rest(n)]
      /\ UNCHANGED <<listSend, submitted, wire, parts, received, disturbed>>
  BY DEF IndInv, ReadData, Rest
<1>2. Rest(n) \in Seq(UnitSet)
  BY <1>1, ReadFacts
<1>3. chunk' \in [Node -> Seq(UnitSet)] /\ chunk'[n] = Rest(n)
      /\ \A k \in Node : k # n => chunk'[k] = chunk[k]
  BY <1>1, <1>2 DEF NodeType
<1>4. Len(queue[n]) < MaxQueue
  <2>1. Len(queue[n]) \in Nat
    BY <1>1, LenProperties DEF NodeType
  <2> QED
    BY <2>1, FramingAssumption DEF ReadData, ReadStop
<1>5. ListInv' /\ \A k \in Node : Sent(k)' = Sent(k)
  BY <1>1 DEF ListInv, Sent
<1> QED
  BY <1>1, <1>3, <1>4, <1>5

LEMMA GoOnInd ==
    ASSUME IndInv, NEW n \in Node, ReadData(n), NEW size \in 0..MaxPayload,
           GoOn(n, UnitsRead(n), size),
           Len(UnitsRead(n)) < HeaderLen => size = 0,
           Len(UnitsRead(n)) >= HeaderLen =>
               /\ size \in Sizes(UnitsRead(n)) /\ size > 0
               /\ Len(UnitsRead(n)) < HeaderLen + size
    PROVE  IndInv'
<1> DEFINE r == UnitsRead(n)
<1>1. /\ NodeType /\ BoundInv /\ ReadInv /\ ListInv /\ DirectionInv /\ OpenInv
      /\ open /\ chunk[n] # <<>>
      /\ chunk'[n] = Rest(n) /\ \A k \in Node : k # n => chunk'[k] = chunk[k]
      /\ UNCHANGED <<listSend, submitted, wire, parts, received, disturbed>>
      /\ chunk' \in [Node -> Seq(UnitSet)]
      /\ ListInv' /\ \A k \in Node : Sent(k)' = Sent(k)
  BY ReadUnchanged
<1>2. /\ r \in Seq(UnitSet) /\ Flow(n) = r \o (Rest(n) \o wire[Other(n)]) /\ Len(r) \in Nat
  BY <1>1, ReadFacts
<1> HIDE DEF r
<1>3. /\ netMsg' = [netMsg EXCEPT ![n] = [units |-> r, size |-> size]]
      /\ UNCHANGED <<queue, open>>
  BY DEF GoOn, r
<1>4. /\ netMsg' \in [Node -> [units : Seq(UnitSet), size : 0..MaxPayload]]
      /\ netMsg'[n].units = r /\ netMsg'[n].size = size
      /\ \A k \in Node : k # n => netMsg'[k] = netMsg[k]
  BY <1>1, <1>2, <1>3 DEF NodeType
<1>5. NodeType'
  BY <1>1, <1>3, <1>4 DEF NodeType
<1>6. BoundInv' /\ OpenInv'
  BY <1>1, <1>3 DEF BoundInv, OpenInv
<1>7. ReadInv'
  <2> SUFFICES ASSUME NEW k \in Node
               PROVE  /\ InHeader(k)' => netMsg'[k].size = 0
                      /\ ~InHeader(k)' =>
                           /\ netMsg'[k].size \in Sizes(netMsg'[k].units)
                           /\ netMsg'[k].size > 0
                           /\ Len(netMsg'[k].units) < HeaderLen + netMsg'[k].size
    BY DEF ReadInv
  <2>1. CASE k = n
    BY <1>2, <1>4, <2>1 DEF InHeader, r, HeaderLen
  <2>2. CASE k # n
    BY <1>1, <1>4, <2>2 DEF ReadInv, InHeader
  <2> QED
    BY <2>1, <2>2
<1>8. DirectionInv'
  <2> SUFFICES ASSUME NEW k \in Node
               PROVE  DirectionOf(k)'
    BY DEF DirectionInv
  <2>1. Flow(k)' = Flow(k)
    <3>1. CASE k = n
      BY <1>1, <1>2, <1>4, <3>1 DEF Flow
    <3>2. CASE k # n
      BY <1>1, <1>4, <3>2 DEF Flow
    <3> QED
      BY <3>1, <3>2
  <2>2. Arrived(k)' = Arrived(k) /\ Sent(Other(k))' = Sent(Other(k))
    BY <1>1, <1>3, TwoNodes DEF Arrived
  <2> QED
    BY <1>1, <1>3, <2>1, <2>2, Unmoved DEF DirectionInv
<1> QED
  BY <1>1, <1>5, <1>6, <1>7, <1>8 DEF IndInv

LEMMA CompleteInd ==
    ASSUME IndInv, NEW n \in Node, ReadData(n), Complete(n, UnitsRead(n)),
           NEW size \in Sizes(UnitsRead(n)), Len(UnitsRead(n)) = HeaderLen + size,
           size > 0 => PayloadIntact(UnitsRead(n))
    PROVE  IndInv'
<1> DEFINE r == UnitsRead(n)
           rest == Rest(n) \o wire[Other(n)]
           m == Meaning(r)
<1>1. /\ NodeType /\ BoundInv /\ ReadInv /\ ListInv /\ DirectionInv /\ OpenInv
      /\ open /\ chunk[n] # <<>> /\ Len(queue[n]) < MaxQueue
      /\ chunk'[n] = Rest(n) /\ \A k \in Node : k # n => chunk'[k] = chunk[k]
      /\ UNCHANGED <<listSend, submitted, wire, parts, received, disturbed>>
      /\ chunk' \in [Node -> Seq(UnitSet)]
      /\ ListInv' /\ \A k \in Node : Sent(k)' = Sent(k)
  BY ReadUnchanged
<1>2. /\ r \in Seq(UnitSet) /\ rest \in Seq(UnitSet) /\ Flow(n) = r \o rest
  BY <1>1, ReadFacts
<1>3. m \in Messages \cup {Noise}
  BY OwnHeader
<1>4. /\ queue' = [queue EXCEPT ![n] = Append(queue[n], m)]
      /\ netMsg' = [netMsg EXCEPT ![n] = Fresh] /\ open' = open
  BY DEF Complete
<1>5. /\ queue[n] \in Seq(Messages \cup {Noise}) /\ received[n] \in Seq(Messages \cup {Noise})
      /\ disturbed[n] \in BOOLEAN /\ Sent(Other(n)) \in Nat /\ Len(queue[n]) \in Nat
      /\ Arrived(n) \in Seq(Messages \cup {Noise})
  BY <1>1, FlowType, TwoNodes, LenProperties DEF NodeType, ListInv
<1>6. Direction(TRUE, disturbed[n], rest, Append(Arrived(n), m), Sent(Other(n)))
  <2>1. Direction(TRUE, disturbed[n], r \o rest, Arrived(n), Sent(Other(n)))
    BY <1>1, <1>2 DEF DirectionInv, DirectionOf
  <2> HIDE DEF rest
  <2> QED
    BY <1>2, <1>5, <2>1, MessageCompleted
<1> HIDE DEF r, m
<1>7. Append(queue[n], m) \in Seq(Messages \cup {Noise})
      /\ Len(Append(queue[n], m)) = Len(queue[n]) + 1
  BY <1>3, <1>5, AppendProperties
<1>8. Fresh \in [units : Seq(UnitSet), size : 0..MaxPayload] /\ Fresh.units = <<>> /\ Fresh.size = 0
  <2>1. <<>> \in Seq(UnitSet) /\ 0 \in 0..MaxPayload
    BY FramingAssumption
  <2> QED
    BY <2>1 DEF Fresh
<1>9. /\ queue' \in [Node -> Seq(Messages \cup {Noise})] /\ queue'[n] = Append(queue[n], m)
      /\ \A k \in Node : k # n => queue'[k] = queue[k] /\ netMsg'[k] = netMsg[k]
      /\ netMsg' \in [Node -> [units : Seq(UnitSet), size : 0..MaxPayload]]
      /\ netMsg'[n] = Fresh
  BY <1>1, <1>4, <1>7, <1>8 DEF NodeType
<1>10. NodeType'
  BY <1>1, <1>4, <1>9 DEF NodeType
<1>11. BoundInv'
  <2>1. \A k \in Node : Len(queue'[k]) <= MaxQueue
    <3> TAKE k \in Node
    <3>1. CASE k = n
      BY <1>1, <1>5, <1>7, <1>9, <3>1, FramingAssumption
    <3>2. CASE k # n
      BY <1>1, <1>9, <3>2 DEF BoundInv
    <3> QED
      BY <3>1, <3>2
  <2> QED
    BY <1>1, <2>1 DEF BoundInv
<1>12. ReadInv'
  <2> SUFFICES ASSUME NEW k \in Node
               PROVE  /\ InHeader(k)' => netMsg'[k].size = 0
                      /\ ~InHeader(k)' =>
                           /\ netMsg'[k].size \in Sizes(netMsg'[k].units)
                           /\ netMsg'[k].size > 0
                           /\ Len(netMsg'[k].units) < HeaderLen + netMsg'[k].size
    BY DEF ReadInv
  <2>1. CASE k = n
    <3>1. Len(netMsg'[k].units) = 0
      BY <1>8, <1>9, <2>1
    <3> QED
      BY <1>8, <1>9, <2>1, <3>1 DEF InHeader, HeaderLen
  <2>2. CASE k # n
    BY <1>1, <1>9, <2>2 DEF ReadInv, InHeader
  <2> QED
    BY <2>1, <2>2
<1>13. DirectionOf(n)'
  <2>1. Flow(n)' = rest
    <3>1. Flow(n)' = <<>> \o rest
      BY <1>1, <1>8, <1>9 DEF Flow
    <3> HIDE DEF rest
    <3> QED
      BY <1>2, <3>1, ConcatEmptySeq
  <2>2. Arrived(n)' = Append(Arrived(n), m)
    <3>1. Arrived(n)' = received[n] \o Append(queue[n], m)
      BY <1>1, <1>9 DEF Arrived
    <3>2. received[n] \o Append(queue[n], m) = Append(received[n] \o queue[n], m)
      <4> DEFINE M == Messages \cup {Noise}
                 a == received[n]
                 b == queue[n]
      <4>1. a \in Seq(M) /\ b \in Seq(M) /\ m \in M
        BY <1>3, <1>5
      <4> HIDE DEF M, a, b
      <4>2. a \o Append(b, m) = Append(a \o b, m)
        BY <4>1, AppendMoved
      <4> QED
        BY <4>2 DEF a, b
    <3> QED
      BY <3>1, <3>2 DEF Arrived
  <2>3. Sent(Other(n))' = Sent(Other(n)) /\ disturbed'[n] = disturbed[n]
    BY <1>1, TwoNodes
  <2> HIDE DEF rest
  <2> QED
    BY <1>1, <1>4, <1>6, <2>1, <2>2, <2>3 DEF DirectionOf
<1>14. DirectionInv'
  <2> SUFFICES ASSUME NEW k \in Node
               PROVE  DirectionOf(k)'
    BY DEF DirectionInv
  <2>1. CASE k = n
    BY <1>13, <2>1
  <2>2. CASE k # n
    <3>1. Flow(k)' = Flow(k) /\ Arrived(k)' = Arrived(k)
      BY <1>1, <1>9, <2>2 DEF Flow, Arrived
    <3>2. Sent(Other(k))' = Sent(Other(k))
      BY <1>1, TwoNodes
    <3> QED
      BY <1>1, <1>4, <2>2, <3>1, <3>2, Unmoved DEF DirectionInv
  <2> QED
    BY <2>1, <2>2
<1>15. OpenInv'
  BY <1>1, <1>4 DEF OpenInv
<1> QED
  BY <1>1, <1>10, <1>11, <1>12, <1>14, <1>15 DEF IndInv

LEMMA DestroyInd ==
    ASSUME IndInv, NEW n \in Node, ReadData(n), Destroy, disturbed[n]
    PROVE  IndInv'
<1>1. /\ NodeType /\ BoundInv /\ ReadInv /\ ListInv /\ DirectionInv /\ OpenInv /\ open
      /\ UNCHANGED <<listSend, submitted, wire, parts, received, disturbed>>
      /\ chunk' \in [Node -> Seq(UnitSet)]
      /\ ListInv'
  BY ReadUnchanged
<1>2. open' = FALSE /\ UNCHANGED <<netMsg, queue>>
  BY DEF Destroy
<1>3. NodeType' /\ BoundInv' /\ ReadInv'
  BY <1>1, <1>2 DEF NodeType, BoundInv, ReadInv, InHeader
<1>4. DirectionInv'
  <2> SUFFICES ASSUME NEW k \in Node
               PROVE  DirectionOf(k)'
    BY DEF DirectionInv
  <2>1. DirectionOf(k) /\ Arrived(k)' = Arrived(k) /\ disturbed'[k] = disturbed[k]
    BY <1>1, <1>2 DEF DirectionInv, Arrived
  <2>2. PayloadOrder(Arrived(k)) /\ (~disturbed[k] => Exact(Arrived(k)))
    BY <2>1 DEF DirectionOf, Direction
  <2>3. Direction(FALSE, disturbed'[k], Flow(k)', Arrived(k)', Sent(Other(k))')
    BY <2>1, <2>2 DEF Direction
  <2> QED
    BY <1>2, <2>3 DEF DirectionOf
<1>5. OpenInv'
  BY <1>1 DEF OpenInv
<1> QED
  BY <1>1, <1>3, <1>4, <1>5 DEF IndInv

\* Undisturbed, a node never destroys the connection.
LEMMA UndisturbedRead ==
    ASSUME IndInv, NEW n \in Node, open, chunk[n] # <<>>, ~disturbed[n],
           Len(UnitsRead(n)) >= HeaderLen
    PROVE  LET m == UnitsRead(n)[1][1]
           IN /\ m \in Messages /\ Sizes(UnitsRead(n)) = {m.len}
              /\ Len(UnitsRead(n)) = HeaderLen + m.len => PayloadIntact(UnitsRead(n))
<1> DEFINE r == UnitsRead(n)
           rest == Rest(n) \o wire[Other(n)]
<1>1. /\ r \in Seq(UnitSet) /\ rest \in Seq(UnitSet) /\ Flow(n) = r \o rest
  BY ReadFacts DEF IndInv
<1>2. NothingMissing(r \o rest, Arrived(n), Sent(Other(n)))
  BY <1>1 DEF IndInv, DirectionInv, DirectionOf, Direction
<1> HIDE DEF r, rest
<1>3. Len(r) >= HeaderLen
  BY DEF r
<1> QED
  BY <1>1, <1>2, <1>3, ExactRead DEF r

LEMMA ReadHeaderInd ==
    ASSUME IndInv, NEW n \in Node, ReadHeader(n)
    PROVE  IndInv'
<1> DEFINE r == UnitsRead(n)
<1>1. ReadData(n) /\ InHeader(n)
  BY DEF ReadHeader
<1>2. /\ NodeType /\ ReadInv /\ open /\ chunk[n] # <<>>
  BY <1>1, ReadUnchanged
<1>3. r \in Seq(UnitSet) /\ Len(r) <= HeaderLen /\ Len(r) \in Nat
  BY <1>1, <1>2, ReadFacts DEF Limit
<1> HIDE DEF r
<1>4. CASE Len(r) < HeaderLen /\ GoOn(n, r, 0)
  <2>1. 0 \in 0..MaxPayload
    BY FramingAssumption
  <2> QED
    BY <1>1, <1>3, <1>4, <2>1, GoOnInd DEF r, HeaderLen
<1>5. ASSUME Len(r) = HeaderLen, NEW size \in Sizes(r),
             IF size > MaxPayload THEN Destroy
             ELSE IF size = 0 THEN Complete(n, r)
             ELSE GoOn(n, r, size)
      PROVE  IndInv'
  <2>1. size \in Nat /\ MaxPayload \in Nat /\ Len(r) = HeaderLen
    <3>1. size \in Nat /\ MaxPayload \in Nat
      BY OwnHeader, FramingAssumption
    <3>2. Len(r) = HeaderLen
      BY <1>5
    <3> QED
      BY <3>1, <3>2
  <2>2. CASE size > MaxPayload
    <3>1. disturbed[n]
      <4> SUFFICES ASSUME ~disturbed[n]
                   PROVE  FALSE
        OBVIOUS
      <4>1. r[1][1] \in Messages /\ Sizes(r) = {r[1][1].len}
        <5>1. Len(r) >= HeaderLen
          BY <1>5 DEF HeaderLen
        <5> QED
          BY <1>2, <5>1, UndisturbedRead DEF r
      <4>2. size \in 0..MaxPayload
        BY <1>5, <4>1, MessageType
      <4> QED
        BY <2>1, <2>2, <4>2
    <3> QED
      BY <1>1, <1>5, <2>2, <3>1, DestroyInd
  <2>3. CASE ~(size > MaxPayload) /\ size = 0
    <3>1. Complete(n, r) /\ Len(r) = HeaderLen + size
      BY <1>5, <2>1, <2>3 DEF HeaderLen
    <3> QED
      BY <1>1, <1>5, <2>3, <3>1, CompleteInd DEF r
  <2>4. CASE ~(size > MaxPayload) /\ size # 0
    <3>1. /\ GoOn(n, r, size) /\ size \in 0..MaxPayload /\ size > 0
          /\ Len(r) < HeaderLen + size /\ ~(Len(r) < HeaderLen)
      BY <1>5, <2>1, <2>4 DEF HeaderLen
    <3> QED
      BY <1>1, <1>5, <3>1, GoOnInd DEF r
  <2> QED
    BY <2>2, <2>3, <2>4
<1>6. \/ Len(r) < HeaderLen /\ GoOn(n, r, 0)
      \/ ~(Len(r) < HeaderLen) /\ \E size \in Sizes(r) :
            IF size > MaxPayload THEN Destroy
            ELSE IF size = 0 THEN Complete(n, r)
            ELSE GoOn(n, r, size)
  BY DEF ReadHeader, r
<1>7. ~(Len(r) < HeaderLen) => Len(r) = HeaderLen
  <2>1. Len(r) <= HeaderLen /\ Len(r) \in Nat
    BY <1>3
  <2>2. \A k \in Nat : k <= HeaderLen /\ ~(k < HeaderLen) => k = HeaderLen
    BY DEF HeaderLen
  <2> QED
    BY <2>1, <2>2
<1> QED
  BY <1>4, <1>5, <1>6, <1>7

LEMMA ReadPayloadInd ==
    ASSUME IndInv, NEW n \in Node, ReadPayload(n)
    PROVE  IndInv'
<1> DEFINE r == UnitsRead(n)
           u == netMsg[n].units
           size == netMsg[n].size
<1>1. ReadData(n) /\ ~InHeader(n)
  BY DEF ReadPayload
<1>2. /\ NodeType /\ ReadInv /\ open /\ chunk[n] # <<>>
  BY <1>1, ReadUnchanged
<1>3. /\ r \in Seq(UnitSet) /\ Len(r) <= HeaderLen + size /\ Len(r) \in Nat
      /\ Len(u) \in Nat /\ Len(u) < Len(r) /\ \A i \in 1..Len(u) : r[i] = u[i]
      /\ size \in Nat
  BY <1>1, <1>2, ReadFacts DEF Limit
<1>4. size \in Sizes(u) /\ size > 0 /\ size \in 0..MaxPayload
  BY <1>1, <1>2 DEF ReadInv, NodeType
<1>5. Len(u) >= HeaderLen
  BY <1>1, <1>3 DEF InHeader, HeaderLen
<1>6. \/ Len(r) < HeaderLen + size /\ GoOn(n, r, size)
      \/ ~(Len(r) < HeaderLen + size) /\ PayloadIntact(r) /\ Complete(n, r)
      \/ ~(Len(r) < HeaderLen + size) /\ ~PayloadIntact(r) /\ Destroy
  BY DEF ReadPayload
<1> HIDE DEF r, u, size
<1>7. size \in Sizes(r)
  <2>1. r[1] = u[1] /\ r[2] = u[2]
    BY <1>3, <1>5 DEF HeaderLen
  <2> QED
    BY <1>4, <2>1 DEF Sizes, IsHeaderOf
<1>8. Len(r) >= HeaderLen
  BY <1>3, <1>5 DEF HeaderLen
<1>9. ~(Len(r) < HeaderLen + size) => Len(r) = HeaderLen + size
  BY <1>3 DEF HeaderLen
<1>10. CASE Len(r) < HeaderLen + size /\ GoOn(n, r, size)
  <2>1. ~(Len(r) < HeaderLen)
    BY <1>3, <1>8 DEF HeaderLen
  <2> QED
    BY <1>1, <1>4, <1>7, <1>10, <2>1, GoOnInd DEF r
<1>11. CASE ~(Len(r) < HeaderLen + size) /\ PayloadIntact(r) /\ Complete(n, r)
  BY <1>1, <1>7, <1>9, <1>11, CompleteInd DEF r
<1>12. CASE ~(Len(r) < HeaderLen + size) /\ ~PayloadIntact(r) /\ Destroy
  <2>1. disturbed[n]
    <3> SUFFICES ASSUME ~disturbed[n]
                 PROVE  FALSE
      OBVIOUS
    <3>1. /\ Sizes(r) = {r[1][1].len}
          /\ Len(r) = HeaderLen + r[1][1].len => PayloadIntact(r)
      BY <1>2, <1>8, UndisturbedRead DEF r
    <3>2. Len(r) = HeaderLen + r[1][1].len
      BY <1>7, <1>9, <1>12, <3>1
    <3> QED
      BY <1>12, <3>1, <3>2
  <2> QED
    BY <1>1, <1>12, <2>1, DestroyInd
<1> QED
  BY <1>6, <1>10, <1>11, <1>12

LEMMA NextInd == IndInv /\ [Next]_vars => IndInv'
<1> SUFFICES ASSUME IndInv, [Next]_vars
             PROVE  IndInv'
  OBVIOUS
<1>1. ASSUME NEW n \in Node, NEW len \in PayloadLens, Submit(n, len)
      PROVE  IndInv'
  BY <1>1, SubmitInd
<1>2. ASSUME NEW n \in Node, Send(n)
      PROVE  IndInv'
  BY <1>2, SendInd DEF Send
<1>3. ASSUME NEW n \in Node, Receive(n)
      PROVE  IndInv'
  BY <1>3, ReceiveInd
<1>4. ASSUME NEW n \in Node, DropRest(n)
      PROVE  IndInv'
  BY <1>4, DropInd
<1>5. ASSUME NEW n \in Node, ReadHeader(n)
      PROVE  IndInv'
  BY <1>5, ReadHeaderInd
<1>6. ASSUME NEW n \in Node, ReadPayload(n)
      PROVE  IndInv'
  BY <1>6, ReadPayloadInd
<1>7. ASSUME NEW n \in Node, Process(n)
      PROVE  IndInv'
  BY <1>7, ProcessInd
<1>8. CASE UNCHANGED vars
  <2>1. /\ NodeType' /\ BoundInv' /\ ReadInv' /\ ListInv' /\ OpenInv'
    BY <1>8 DEF vars, IndInv, NodeType, BoundInv, ReadInv, InHeader, ListInv, Sent, OpenInv
  <2>2. DirectionInv'
    BY <1>8 DEF vars, IndInv, DirectionInv, DirectionOf, Flow, Arrived, Sent
  <2> QED
    BY <2>1, <2>2 DEF IndInv
<1> QED
  BY <1>1, <1>2, <1>3, <1>4, <1>5, <1>6, <1>7, <1>8 DEF Next

-----------------------------------------------------------------------------
(* Theorems *)

\* The bytes on their way to a node and in its buffers, the messages that arrived
\* and the list they were taken from fit together in every state.
THEOREM IndInvTheorem == Spec => []IndInv
BY InitInd, NextInd, PTL DEF Spec

\* No connection, queue or buffer of a message grows beyond its limit, and only
\* units that were sent are anywhere.
THEOREM TypeTheorem == Spec => []TypeOK
<1>1. IndInv => TypeOK
  <2> SUFFICES ASSUME IndInv
               PROVE  TypeOK
    OBVIOUS
  <2>1. UnitSet \subseteq AllUnits
    <3> SUFFICES ASSUME NEW u \in UnitSet
                 PROVE  u \in AllUnits
      OBVIOUS
    <3>1. u[1] \in Messages /\ u[2] \in 1..(HeaderLen + u[1].len) /\ u = <<u[1], u[2]>>
      BY UnitType
    <3>2. Units(u[1])[u[2]] = u /\ u[2] \in DOMAIN Units(u[1])
      BY <3>1 DEF Units
    <3> QED
      BY <3>1, <3>2 DEF AllUnits
  <2>2. \A s \in Seq(UnitSet) : Range(s) \subseteq AllUnits
    <3> TAKE s \in Seq(UnitSet)
    <3>1. \A i \in DOMAIN s : s[i] \in UnitSet
      BY LenProperties
    <3> QED
      BY <2>1, <3>1 DEF Range
  <2>3. ASSUME NEW n \in Node
        PROVE  /\ \A i \in DOMAIN listSend[n] : listSend[n][i] \in Messages
               /\ Range(wire[n]) \subseteq AllUnits /\ Range(chunk[n]) \subseteq AllUnits
               /\ Range(netMsg[n].units) \subseteq AllUnits
               /\ netMsg[n].size \in 0..MaxPayload
               /\ MessagesSeen(queue[n]) /\ MessagesSeen(received[n])
               /\ Len(netMsg[n].units) <= HeaderLen + netMsg[n].size
               /\ disturbed[n] \in BOOLEAN
    <3>1. /\ netMsg[n].units \in Seq(UnitSet) /\ netMsg[n].size \in 0..MaxPayload
          /\ chunk[n] \in Seq(UnitSet) /\ wire[n] \in Seq(UnitSet)
          /\ queue[n] \in Seq(Messages \cup {Noise})
          /\ received[n] \in Seq(Messages \cup {Noise})
          /\ listSend[n] \in Seq(Messages)
      BY FlowType DEF IndInv
    <3>2. Len(netMsg[n].units) <= HeaderLen + netMsg[n].size
      <4>1. Len(netMsg[n].units) \in Nat /\ netMsg[n].size \in Nat
        BY <3>1, LenProperties, FramingAssumption
      <4>2. CASE InHeader(n)
        BY <4>1, <4>2 DEF InHeader, HeaderLen
      <4>3. CASE ~InHeader(n)
        BY <4>1, <4>3 DEF IndInv, ReadInv, HeaderLen
      <4> QED
        BY <4>2, <4>3
    <3>3. MessagesSeen(queue[n]) /\ MessagesSeen(received[n])
      BY <3>1, LenProperties DEF MessagesSeen
    <3>4. \A i \in DOMAIN listSend[n] : listSend[n][i] \in Messages
      BY <3>1, LenProperties
    <3>5. disturbed[n] \in BOOLEAN
      BY DEF IndInv, NodeType
    <3> QED
      BY <2>2, <3>1, <3>2, <3>3, <3>4, <3>5
  <2> QED
    BY <2>3 DEF TypeOK, IndInv, BoundInv, NodeType
<1> QED
  BY <1>1, IndInvTheorem, PTL

\* Whatever is sent in part or dropped, and however long: messages with a payload
\* arrive whole, at most once and in the order in which they were sent.
THEOREM PayloadsInOrderTheorem == Spec => []PayloadsInOrder
<1>1. IndInv => PayloadsInOrder
  <2> SUFFICES ASSUME IndInv, NEW n \in Node
               PROVE  \A i, j \in DOMAIN Arrived(n) :
                        i < j /\ HasPayload(Arrived(n)[i]) /\ HasPayload(Arrived(n)[j])
                            => Arrived(n)[i].id < Arrived(n)[j].id
    BY DEF PayloadsInOrder
  <2>1. DOMAIN Arrived(n) = 1..Len(Arrived(n))
    BY FlowType DEF IndInv
  <2>2. PayloadOrder(Arrived(n))
    BY DEF IndInv, DirectionInv, DirectionOf, Direction
  <2> QED
    BY <2>1, <2>2 DEF PayloadOrder
<1> QED
  BY <1>1, IndInvTheorem, PTL

\* Until something is sent in part or dropped, exactly what was sent arrives, and
\* neither end destroys the connection.
THEOREM ExactUntilDisturbedTheorem == Spec => []ExactUntilDisturbed
<1>1. IndInv => ExactUntilDisturbed
  <2> SUFFICES ASSUME IndInv, NEW n \in Node, ~disturbed[n]
               PROVE  /\ open \/ disturbed[Other(n)]
                      /\ \A i \in DOMAIN Arrived(n) :
                           Arrived(n)[i] # Noise /\ Arrived(n)[i].id = i
    BY DEF ExactUntilDisturbed
  <2>1. DOMAIN Arrived(n) = 1..Len(Arrived(n))
    BY FlowType DEF IndInv
  <2>2. Exact(Arrived(n))
    BY DEF IndInv, DirectionInv, DirectionOf, Direction
  <2>3. open \/ disturbed[Other(n)]
    BY TwoNodes DEF IndInv, OpenInv
  <2> QED
    BY <2>1, <2>2, <2>3 DEF Exact
<1> QED
  BY <1>1, IndInvTheorem, PTL
================================================================================
