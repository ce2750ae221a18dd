----------------------------- MODULE TableProofs -----------------------------
(***************************************************************************)
(* What a Load into a database table does to the table and to the delivery  *)
(* log, for every strategy, number of rows, Loads, chunk size and faults.    *)
(***************************************************************************)
EXTENDS TableLoad, FiniteSetTheorems, SequenceTheorems, WellFoundedInduction, TLAPS

------------------------------------------------------------------------------
\* Rows in order

StrictOrder(rows, before) ==
  /\ \A p, q \in rows : p # q => (<<p, q>> \in before \/ <<q, p>> \in before)
  /\ \A p \in rows : <<p, p>> \notin before
  /\ \A p, q, r \in rows : <<p, q>> \in before /\ <<q, r>> \in before => <<p, r>> \in before

Below(rows, before, r) == {q \in rows : <<q, r>> \in before}
Rank(rows, before, r) == Cardinality(Below(rows, before, r))

LEMMA RankBounds ==
  ASSUME NEW rows, IsFiniteSet(rows), NEW before, StrictOrder(rows, before), NEW r \in rows
  PROVE  /\ IsFiniteSet(Below(rows, before, r))
         /\ Rank(rows, before, r) \in 0..(Cardinality(rows) - 1)
         /\ Cardinality(rows) \in Nat
<1>1. Below(rows, before, r) \in SUBSET (rows \ {r})
  BY DEF Below, StrictOrder
<1>2. IsFiniteSet(rows \ {r}) /\ Cardinality(rows \ {r}) = Cardinality(rows) - 1
  BY FS_RemoveElement
<1>3. IsFiniteSet(Below(rows, before, r)) /\ Rank(rows, before, r) <= Cardinality(rows) - 1
  BY <1>1, <1>2, FS_Subset DEF Rank
<1> QED BY <1>2, <1>3, FS_CardinalityType DEF Rank

LEMMA RankGrows ==
  ASSUME NEW rows, IsFiniteSet(rows), NEW before, StrictOrder(rows, before),
         NEW p \in rows, NEW q \in rows
  PROVE  Rank(rows, before, p) < Rank(rows, before, q) <=> <<p, q>> \in before
<1>1. ASSUME NEW x \in rows, NEW y \in rows, <<x, y>> \in before
      PROVE  Rank(rows, before, x) < Rank(rows, before, y)
  <2>1. Below(rows, before, x) \in SUBSET Below(rows, before, y)
    BY <1>1 DEF Below, StrictOrder
  <2>2. x \in Below(rows, before, y) /\ x \notin Below(rows, before, x)
    BY <1>1 DEF Below, StrictOrder
  <2>3. Rank(rows, before, x) \in Nat /\ Rank(rows, before, y) \in Nat
    BY RankBounds
  <2>4. IsFiniteSet(Below(rows, before, y))
    BY RankBounds
  <2>5. Rank(rows, before, x) <= Rank(rows, before, y)
        /\ Rank(rows, before, x) # Rank(rows, before, y)
    BY <2>1, <2>2, <2>4, FS_Subset DEF Rank
  <2> QED BY <2>3, <2>5
<1>2. CASE p = q
  BY <1>2, RankBounds DEF StrictOrder
<1>3. CASE p # q
  <2>1. <<p, q>> \in before \/ <<q, p>> \in before
    BY <1>3 DEF StrictOrder
  <2>2. Rank(rows, before, p) \in Nat /\ Rank(rows, before, q) \in Nat
    BY RankBounds
  <2> QED BY <1>1, <2>1, <2>2
<1> QED BY <1>2, <1>3

LEMMA RankApart ==
  ASSUME NEW rows, IsFiniteSet(rows), NEW before, StrictOrder(rows, before),
         NEW p \in rows, NEW q \in rows, Rank(rows, before, p) = Rank(rows, before, q)
  PROVE  p = q
<1>1. Rank(rows, before, p) \in Nat
  BY RankBounds
<1>2. <<p, q>> \notin before
  <2>1. Rank(rows, before, p) < Rank(rows, before, q) <=> <<p, q>> \in before
    BY RankGrows
  <2> QED BY <1>1, <2>1
<1>3. <<q, p>> \notin before
  <2>1. Rank(rows, before, q) < Rank(rows, before, p) <=> <<q, p>> \in before
    BY RankGrows
  <2> QED BY <1>1, <2>1
<1> QED BY <1>2, <1>3 DEF StrictOrder

(* Every rank below the number of rows is some row's.                       *)
LEMMA RankReached ==
  ASSUME NEW rows, IsFiniteSet(rows), NEW before, StrictOrder(rows, before),
         NEW k \in 0..(Cardinality(rows) - 1)
  PROVE  \E r \in rows : Rank(rows, before, r) = k
<1> DEFINE T == {Rank(rows, before, r) : r \in rows}
           f == [r \in rows |-> Rank(rows, before, r)]
<1>1. \A p, q \in rows : Rank(rows, before, p) = Rank(rows, before, q) => p = q
  BY RankApart
<1>2. f \in Surjection(rows, T) /\ f \in Injection(rows, T)
  BY <1>1 DEF Surjection, Injection, IsInjective
<1>3. IsFiniteSet(T) /\ Cardinality(T) = Cardinality(rows)
  <2> HIDE DEF T, f
  <2> QED BY <1>2, FS_Surjection
<1>4. T \in SUBSET (0..(Cardinality(rows) - 1))
  BY RankBounds
<1>5. IsFiniteSet(0..(Cardinality(rows) - 1))
      /\ Cardinality(0..(Cardinality(rows) - 1)) = Cardinality(rows)
  <2>1. Cardinality(rows) \in Nat
    BY FS_CardinalityType
  <2> QED BY <2>1, FS_Interval
<1>6. T = 0..(Cardinality(rows) - 1)
  <2> HIDE DEF T
  <2> QED BY <1>3, <1>4, <1>5, FS_Subset
<1> QED BY <1>6

LEMMA OrderedIs ==
  ASSUME NEW rows, IsFiniteSet(rows), NEW before, StrictOrder(rows, before)
  PROVE  LET s == Ordered(rows, before)
         IN /\ s \in Seq(rows) /\ Len(s) = Cardinality(rows) /\ ToSet(s) = rows
            /\ \A i, j \in DOMAIN s : i < j => <<s[i], s[j]>> \in before
<1> DEFINE s == Ordered(rows, before)
           n == Cardinality(rows)
<1>0. n \in Nat
  BY FS_CardinalityType
<1>1. s = [i \in 1..n |-> CHOOSE r \in rows : Rank(rows, before, r) = i - 1]
  BY DEF Ordered, Rank, Below
<1>2. ASSUME NEW i \in 1..n
      PROVE  s[i] \in rows /\ Rank(rows, before, s[i]) = i - 1
  <2>1. i - 1 \in 0..(Cardinality(rows) - 1)
    BY <1>0
  <2> QED BY <1>1, <2>1, RankReached
<1>3. s \in [1..n -> rows]
  BY <1>1, <1>2
<1>4. s \in Seq(rows) /\ Len(s) = n /\ DOMAIN s = 1..n
  BY <1>0, <1>3
<1>5. ASSUME NEW r \in rows PROVE r \in ToSet(s)
  <2> DEFINE k == Rank(rows, before, r) + 1
  <2>1. Rank(rows, before, r) \in 0..(n - 1)
    BY RankBounds
  <2>2. k \in 1..n /\ k - 1 = Rank(rows, before, r)
    BY <1>0, <2>1
  <2>3. s[k] \in rows /\ Rank(rows, before, s[k]) = Rank(rows, before, r)
    BY <1>2, <2>2
  <2>4. s[k] = r
    BY <2>3, RankApart
  <2> QED BY <1>4, <2>2, <2>4 DEF ToSet
<1>6. ToSet(s) = rows
  BY <1>2, <1>4, <1>5 DEF ToSet
<1>7. \A i, j \in 1..n : i < j => <<s[i], s[j]>> \in before
  BY <1>0, <1>2, RankGrows
<1> QED BY <1>4, <1>6, <1>7

------------------------------------------------------------------------------
\* The orders

(* A non-empty set of natural numbers has a least element.                 *)
LEMMA LeastOf ==
  ASSUME NEW T, T \subseteq Nat, T # {}
  PROVE  \E i \in T : \A j \in T : i <= j
<1> DEFINE R == {p \in Nat \X Nat : p[1] < p[2]}
<1>1. IsWellFoundedOn(R, Nat)
  BY NatLessThanWellFounded DEF OpToRel
<1>2. PICK i \in T : \A j \in T : ~(<<j, i>> \in R)
  <2> HIDE DEF R
  <2> QED BY <1>1, WFMin
<1>3. ASSUME NEW j \in T, ~(i <= j) PROVE FALSE
  <2>1. i \in Nat /\ j \in Nat
    OBVIOUS
  <2>2. <<j, i>> \in R
    BY <1>3, <2>1
  <2> QED BY <1>2, <2>2
<1> QED BY <1>3

LEMMA SentOrder ==
  ASSUME NEW rows \in SUBSET Rows
  PROVE  /\ IsFiniteSet(rows)
         /\ StrictOrder(rows, AsSent(rows)) /\ StrictOrder(rows, SortRowsByKey(rows))
<1>1. IsFiniteSet(rows) /\ rows \in SUBSET Nat
  BY TableAssumption, FS_Subset
<1>2. KeyOf \in [Rows -> Nat]
  BY TableAssumption
<1>3. StrictOrder(rows, AsSent(rows))
  BY <1>1 DEF StrictOrder, AsSent
<1>4. StrictOrder(rows, SortRowsByKey(rows))
  <2>1. \A p, q \in rows :
          <<p, q>> \in SortRowsByKey(rows) <=>
            KeyOf[p] < KeyOf[q] \/ (KeyOf[p] = KeyOf[q] /\ p < q)
    BY DEF SortRowsByKey
  <2>2. \A p \in rows : KeyOf[p] \in Nat /\ p \in Nat
    BY <1>1, <1>2
  <2> QED BY <2>1, <2>2 DEF StrictOrder
<1> QED BY <1>1, <1>3, <1>4

Leads(rows, before, f, r) ==
  /\ ColumnsOf[f] = ColumnsOf[r]
  /\ \A q \in rows : ColumnsOf[q] = ColumnsOf[r] => <<q, f>> \notin before

LEMMA GroupLeads ==
  ASSUME NEW rows, IsFiniteSet(rows), NEW before, StrictOrder(rows, before), NEW r \in rows
  PROVE  \E f \in rows : Leads(rows, before, f, r)
<1> DEFINE T == {Rank(rows, before, q) : q \in {x \in rows : ColumnsOf[x] = ColumnsOf[r]}}
<1>1. T \subseteq Nat /\ T # {}
  <2>1. \A q \in rows : Rank(rows, before, q) \in Nat
    BY RankBounds
  <2> QED BY <2>1
<1>2. PICK k \in T : \A j \in T : k <= j
  <2> HIDE DEF T
  <2> QED BY <1>1, LeastOf
<1>3. PICK f \in rows : ColumnsOf[f] = ColumnsOf[r] /\ k = Rank(rows, before, f)
  OBVIOUS
<1>4. ASSUME NEW q \in rows, ColumnsOf[q] = ColumnsOf[r] PROVE <<q, f>> \notin before
  <2>1. Rank(rows, before, f) <= Rank(rows, before, q)
    BY <1>2, <1>3, <1>4
  <2>2. Rank(rows, before, f) \in Nat /\ Rank(rows, before, q) \in Nat
    BY RankBounds
  <2> QED BY <2>1, <2>2, RankGrows
<1> QED BY <1>3, <1>4 DEF Leads

LEMMA GroupOrder ==
  ASSUME NEW rows, IsFiniteSet(rows), NEW before, StrictOrder(rows, before)
  PROVE  /\ StrictOrder(rows, Groups(rows, before))
         /\ \A p, q \in rows : ColumnsOf[p] = ColumnsOf[q] =>
              (<<p, q>> \in Groups(rows, before) <=> <<p, q>> \in before)
<1> DEFINE G == Groups(rows, before)
           Ahead(p, q) == \E f, g \in rows :
                            /\ Leads(rows, before, f, p) /\ Leads(rows, before, g, q)
                            /\ <<f, g>> \in before
<1>1. \A p, q \in rows :
        <<p, q>> \in G <=>
          IF ColumnsOf[p] = ColumnsOf[q] THEN <<p, q>> \in before ELSE Ahead(p, q)
  BY DEF Groups, Leads
<1>2. ASSUME NEW p \in rows, NEW f \in rows, NEW g \in rows,
             Leads(rows, before, f, p), Leads(rows, before, g, p)
      PROVE  f = g
  BY <1>2 DEF Leads, StrictOrder
<1>3. \A p \in rows : \E f \in rows : Leads(rows, before, f, p)
  BY GroupLeads
<1>4. \A p, q, f \in rows : ColumnsOf[p] = ColumnsOf[q] =>
        (Leads(rows, before, f, p) <=> Leads(rows, before, f, q))
  BY DEF Leads
<1>5. ASSUME NEW p \in rows, NEW q \in rows, p # q PROVE <<p, q>> \in G \/ <<q, p>> \in G
  <2>1. CASE ColumnsOf[p] = ColumnsOf[q]
    BY <1>1, <1>5, <2>1 DEF StrictOrder
  <2>2. CASE ColumnsOf[p] # ColumnsOf[q]
    <3>1. PICK f \in rows : Leads(rows, before, f, p)
      BY <1>3
    <3>2. PICK g \in rows : Leads(rows, before, g, q)
      BY <1>3
    <3>3. f # g
      BY <2>2, <3>1, <3>2 DEF Leads
    <3>4. <<f, g>> \in before \/ <<g, f>> \in before
      BY <3>3 DEF StrictOrder
    <3> QED BY <1>1, <2>2, <3>1, <3>2, <3>4
  <2> QED BY <2>1, <2>2
<1>6. \A p \in rows : <<p, p>> \notin G
  BY <1>1 DEF StrictOrder
<1>7. ASSUME NEW p \in rows, NEW q \in rows, NEW r \in rows, <<p, q>> \in G, <<q, r>> \in G
      PROVE  <<p, r>> \in G
  <2>1. CASE ColumnsOf[p] = ColumnsOf[q] /\ ColumnsOf[q] = ColumnsOf[r]
    BY <1>1, <1>7, <2>1 DEF StrictOrder
  <2>2. CASE ColumnsOf[p] = ColumnsOf[q] /\ ColumnsOf[q] # ColumnsOf[r]
    <3>1. PICK f \in rows, g \in rows :
            Leads(rows, before, f, q) /\ Leads(rows, before, g, r) /\ <<f, g>> \in before
      BY <1>1, <1>7, <2>2
    <3>2. Leads(rows, before, f, p) /\ ColumnsOf[p] # ColumnsOf[r]
      BY <2>2, <3>1 DEF Leads
    <3> QED BY <1>1, <3>1, <3>2
  <2>3. CASE ColumnsOf[p] # ColumnsOf[q] /\ ColumnsOf[q] = ColumnsOf[r]
    BY <1>1, <1>4, <1>7, <2>3
  <2>4. CASE ColumnsOf[p] # ColumnsOf[q] /\ ColumnsOf[q] # ColumnsOf[r]
    <3>1. PICK f \in rows, g \in rows :
            Leads(rows, before, f, p) /\ Leads(rows, before, g, q) /\ <<f, g>> \in before
      BY <1>1, <1>7, <2>4
    <3>2. PICK g2 \in rows, h \in rows :
            Leads(rows, before, g2, q) /\ Leads(rows, before, h, r) /\ <<g2, h>> \in before
      BY <1>1, <1>7, <2>4
    <3>3. g2 = g
      BY <1>2, <3>1, <3>2
    <3>4. <<f, h>> \in before
      BY <3>1, <3>2, <3>3 DEF StrictOrder
    <3>5. ColumnsOf[p] # ColumnsOf[r]
      <4>1. SUFFICES ASSUME ColumnsOf[p] = ColumnsOf[r] PROVE FALSE
        OBVIOUS
      <4>2. f = h
        BY <1>2, <1>4, <3>1, <3>2, <4>1
      <4> QED BY <3>4, <4>2 DEF StrictOrder
    <3> QED BY <1>1, <3>1, <3>2, <3>4, <3>5
  <2> QED BY <2>1, <2>2, <2>3, <2>4
<1>8. StrictOrder(rows, G)
  BY <1>5, <1>6, <1>7 DEF StrictOrder
<1> QED BY <1>1, <1>8

(* The rows of a Load are taken in an order, in which versions with the same *)
(* columns follow each other as the source sent them.                       *)
LEMMA OrderOfRows ==
  ASSUME NEW rows \in SUBSET Rows
  PROVE  /\ StrictOrder(rows, Order(rows))
         /\ \A p, q \in rows :
              ColumnsOf[p] = ColumnsOf[q] /\ KeyOf[p] = KeyOf[q] /\ <<p, q>> \in Order(rows)
                => p < q
<1>1. /\ IsFiniteSet(rows)
      /\ StrictOrder(rows, AsSent(rows)) /\ StrictOrder(rows, SortRowsByKey(rows))
  BY SentOrder
<1>2. \A p, q \in rows : <<p, q>> \in AsSent(rows) => p < q
  BY DEF AsSent
<1>3. \A p, q \in rows : KeyOf[p] = KeyOf[q] /\ <<p, q>> \in SortRowsByKey(rows) => p < q
  <2>1. \A p, q \in rows : <<p, q>> \in SortRowsByKey(rows) =>
          KeyOf[p] < KeyOf[q] \/ (KeyOf[p] = KeyOf[q] /\ p < q)
    BY DEF SortRowsByKey
  <2>2. \A p \in rows : KeyOf[p] \in Nat
    BY TableAssumption
  <2> QED BY <2>1, <2>2
<1>4. ASSUME NEW before, StrictOrder(rows, before),
             \A p, q \in rows : KeyOf[p] = KeyOf[q] /\ <<p, q>> \in before => p < q
      PROVE  /\ StrictOrder(rows, Groups(rows, before))
             /\ \A p, q \in rows :
                  ColumnsOf[p] = ColumnsOf[q] /\ KeyOf[p] = KeyOf[q]
                    /\ <<p, q>> \in Groups(rows, before) => p < q
  BY <1>1, <1>4, GroupOrder
<1>5. CASE InTurn
  <2>1. Order(rows) = AsSent(rows)
    BY <1>5 DEF Order
  <2> QED BY <1>1, <1>2, <2>1
<1>6. CASE ~InTurn /\ (conn.kind = "mysql" \/ conn.match = 0)
  <2>1. Order(rows) = Groups(rows, AsSent(rows))
    BY <1>6 DEF Order
  <2> QED BY <1>1, <1>2, <1>4, <2>1
<1>7. CASE ~InTurn /\ conn.kind # "mysql" /\ conn.match # 0
  <2>1. Order(rows) = Groups(rows, SortRowsByKey(rows))
    BY <1>7 DEF Order
  <2> QED BY <1>1, <1>3, <1>4, <2>1
<1> QED BY <1>5, <1>6, <1>7

------------------------------------------------------------------------------
\* The line of rows that wait

Statement == [how : Hows, rows : Seq(batch) \ {<<>>}]
RowsOf(q) == UNION {ToSet(q[i].rows) : i \in DOMAIN q}
Distinct(s) == \A i, j \in DOMAIN s : s[i] = s[j] => i = j

(* At hand are single rows, or one statement, or a delete and what follows it. *)
Shape(q) ==
  \/ \A i \in DOMAIN q : q[i].how = "single" /\ Len(q[i].rows) = 1
  \/ Len(q) = 1 /\ q[1].how # "delete"
  \/ /\ Len(q) = 2 /\ q[1].how = "delete" /\ q[2].how \in {"chunk", "single"}
     /\ q[2].rows = q[1].rows

Apart(q) ==
  /\ \A i \in DOMAIN q : Distinct(q[i].rows)
  /\ \A i, j \in DOMAIN q : q[1].how # "delete" /\ i # j =>
       ToSet(q[i].rows) \cap ToSet(q[j].rows) = {}

(* Which statements a connection takes.                                    *)
Fits(s) ==
  /\ s.how \in {"stageCopy", "stageInsert"} <=> ViaStaging
  /\ s.how = "copy" => conn.kind = "postgres" /\ SkipsLog /\ ToSet(s.rows) = batch
  /\ s.how \in {"stageCopy", "stageInsert"} => ToSet(s.rows) = batch
  /\ s.how = "scd2" <=> Strategy = "scd2"
  /\ s.how = "delete" => Strategy = "delete+insert" /\ conn.kind # "postgres"
  /\ s.how \in {"single", "scd2"} => Len(s.rows) = 1
  /\ s.how \in {"chunk", "delete"} => Len(s.rows) <= MaxChunk

Waiting == ToSet(left) \cup RowsOf(queue)

LineInv ==
  /\ bulk => conn.kind = "postgres" /\ SkipsLog
  /\ left \in Seq(batch) /\ Distinct(left)
  /\ queue \in Seq(Statement) /\ Shape(queue) /\ Apart(queue)
  /\ \A i \in DOMAIN queue : Fits(queue[i])
  /\ ToSet(left) \cap RowsOf(queue) = {}
  /\ left # <<>> => ~ViaStaging /\ \A i \in DOMAIN queue : queue[i].how # "copy"
  /\ phase \notin {"write", "returned"} => left = <<>> /\ queue = <<>>
  /\ phase = "returned" /\ ~fatal => left = <<>> /\ queue = <<>>

(* A row that waits is not counted yet and, where the log is looked at, not in *)
(* it; a row of the batch that is not counted waits.                        *)
CountInv ==
  /\ \A r \in Waiting \cup (Rows \ batch) : verdict[r] = "none"
  /\ phase \in {"idle", "truncate", "plan"} => unreported = {} /\ \A r \in Rows : verdict[r] = "none"
  /\ phase = "write" =>
       \A r \in batch : verdict[r] = "none" => r \in Waiting \cup unreported
  /\ phase = "returned" /\ ~fatal =>
       \A r \in batch : verdict[r] = "none" => r \in unreported
  /\ \A i \in DOMAIN queue : queue[i].how = "copy" => unreported = {}
  /\ ~SkipsLog => RowsOf(queue) \cap marked = {}
  /\ ~SkipsLog /\ ~InTurn => ToSet(left) \cap marked = {}
  /\ phase \in {"truncate", "plan", "write"} => ~fatal
  /\ phase # "idle" => batch # {}
  /\ phase = "truncate" => TruncatesFirst
  /\ ViaStaging => staging = None \/ staged
  /\ phase = "write" /\ ViaStaging => staged

(* The rows this Load may yet write.                                       *)
ToCome == IF phase \in {"truncate", "plan"} THEN batch ELSE IF phase = "write" THEN Waiting ELSE {}

BookInv ==
  /\ \A r \in Rows : given[r] <= brought[r] /\ brought[r] <= loads
  /\ \A r \in ToCome : given[r] < brought[r]

(* A table with a row as often as Loads loaded and brought it, once less    *)
(* where one of them may yet write it.                                      *)
Copies(t, unsure, loaded, sent, toCome) ==
  \A r \in Rows \ unsure :
    /\ t[r] \in Nat /\ loaded[r] <= t[r] /\ t[r] <= sent[r]
    /\ r \in toCome => t[r] < sent[r]
CopyInv ==
  /\ staged => ViaStaging
  /\ Strategy = "append" /\ InsertOnly => Copies(table, ambiguous, given, brought, ToCome)
  /\ ViaStaging => Copies(staging, ambiguous, given, brought, ToCome)

ReplaceInv ==
  Strategy = "replace" /\ conn.kind # "postgres" =>
    /\ phase = "truncate" => ~truncated
    /\ phase \in {"plan", "write"} => truncated
    /\ ~truncated => given = None
    /\ \A r \in Rows \ ambiguous : table[r] >= given[r]

LostInv ==
  Strategy = "delete+insert" /\ (phase \in {"plan", "write"} \/ (phase = "returned" /\ ~fatal)) =>
    \A k \in had \ Keys(Present(table)) :
      \E r \in batch : KeyOf[r] = k /\ (verdict[r] = "error" \/ r \in unreported \cup RowsOf(queue))

Versions(q, r) == KeyOf[q] = KeyOf[r] /\ ColumnsOf[q] = ColumnsOf[r]
InSequence(s) == \A i, j \in DOMAIN s : i < j /\ Versions(s[i], s[j]) => s[i] < s[j]
OrderInv ==
  /\ InSequence(left)
  /\ \A i \in DOMAIN queue : InSequence(queue[i].rows)
  /\ \A i, j \in DOMAIN queue : i < j /\ queue[1].how # "delete" =>
       \A x \in ToSet(queue[i].rows), y \in ToSet(queue[j].rows) : Versions(x, y) => x < y
  /\ \A x \in RowsOf(queue), y \in ToSet(left) : Versions(x, y) => x < y

Latest(r) == \A q \in batch : KeyOf[q] = KeyOf[r] => q <= r /\ ColumnsOf[q] = ColumnsOf[r]
LatestInv ==
  Strategy \in {"merge", "upsert"} /\ conn.match > 0 =>
    /\ \A q \in Waiting, r \in batch : Versions(q, r) /\ q < r => verdict[r] # "loaded"
    /\ \A r \in batch : Latest(r) /\ verdict[r] = "loaded" => table[r] = 1

------------------------------------------------------------------------------
\* What the steps make of the line

LEMMA RowsOfLine ==
  ASSUME NEW b, NEW l \in Seq(b), NEW q \in Seq([how : Hows, rows : Seq(b) \ {<<>>}])
  PROVE  ToSet(l) \subseteq b /\ RowsOf(q) \subseteq b
<1> DEFINE St == [how : Hows, rows : Seq(b) \ {<<>>}]
<1>1. ASSUME NEW i \in DOMAIN q PROVE q[i].rows \in Seq(b)
  <2>1. q \in Seq(St)
    OBVIOUS
  <2>2. q[i] \in St
    <3> HIDE DEF St
    <3> QED BY <2>1
  <2> QED BY <2>2
<1>2. \A x \in Seq(b) : ToSet(x) \subseteq b
  BY DEF ToSet
<1> QED BY <1>1, <1>2 DEF RowsOf

LEMMA LineOfOne ==
  ASSUME NEW s \in Statement, Distinct(s.rows), s.how # "delete"
  PROVE  LET q == <<s>>
         IN /\ q \in Seq(Statement) /\ Shape(q) /\ Apart(q)
            /\ RowsOf(q) = ToSet(s.rows) /\ DOMAIN q = {1} /\ q[1] = s
<1> DEFINE q == <<s>>
<1>1. q \in Seq(Statement) /\ Len(q) = 1 /\ DOMAIN q = {1} /\ q[1] = s
  OBVIOUS
<1>2. RowsOf(q) = ToSet(s.rows)
  BY <1>1 DEF RowsOf
<1> HIDE DEF q
<1> QED BY <1>1, <1>2 DEF Shape, Apart

LEMMA LineOfDelete ==
  ASSUME NEW s \in Statement, Distinct(s.rows), s.how = "delete",
         NEW t \in Statement, t.rows = s.rows, t.how \in {"chunk", "single"}
  PROVE  LET q == <<s, t>>
         IN /\ q \in Seq(Statement) /\ Shape(q) /\ Apart(q)
            /\ RowsOf(q) = ToSet(s.rows) /\ DOMAIN q = {1, 2} /\ q[1] = s /\ q[2] = t
<1> DEFINE q == <<s, t>>
<1>1. q \in Seq(Statement) /\ Len(q) = 2 /\ DOMAIN q = {1, 2} /\ q[1] = s /\ q[2] = t
  OBVIOUS
<1>2. RowsOf(q) = ToSet(s.rows)
  BY <1>1 DEF RowsOf
<1> HIDE DEF q
<1> QED BY <1>1, <1>2 DEF Shape, Apart

LEMMA LineOfNone ==
  /\ <<>> \in Seq(Statement) /\ Shape(<<>>) /\ Apart(<<>>) /\ RowsOf(<<>>) = {}
  /\ \A S : <<>> \in Seq(S)
  /\ ToSet(<<>>) = {} /\ Distinct(<<>>) /\ InSequence(<<>>)
BY DEF Shape, Apart, RowsOf, ToSet, Distinct, InSequence

LEMMA LineOfSingles ==
  ASSUME NEW rows \in Seq(batch), Distinct(rows)
  PROVE  LET q == Singles(rows)
         IN /\ q \in Seq(Statement) /\ Shape(q) /\ Apart(q)
            /\ RowsOf(q) = ToSet(rows) /\ DOMAIN q = DOMAIN rows
            /\ \A i \in DOMAIN q : q[i] = Stmt("single", <<rows[i]>>) /\ ToSet(q[i].rows) = {rows[i]}
<1> DEFINE q == Singles(rows)
<1>1. Len(rows) \in Nat /\ DOMAIN rows = 1..Len(rows) /\ \A i \in 1..Len(rows) : rows[i] \in batch
  OBVIOUS
<1>2. DOMAIN q = DOMAIN rows /\ \A i \in DOMAIN q : q[i] = Stmt("single", <<rows[i]>>)
  BY DEF Singles
<1>3. ASSUME NEW i \in DOMAIN q
      PROVE  /\ q[i].how = "single" /\ q[i].rows = <<rows[i]>> /\ Len(q[i].rows) = 1
             /\ q[i] \in Statement /\ ToSet(q[i].rows) = {rows[i]} /\ Distinct(q[i].rows)
  <2>1. q[i].how = "single" /\ q[i].rows = <<rows[i]>>
    BY <1>2 DEF Stmt
  <2>2. rows[i] \in batch
    BY <1>1, <1>2
  <2>3. <<rows[i]>> \in Seq(batch) \ {<<>>} /\ Len(<<rows[i]>>) = 1 /\ DOMAIN <<rows[i]>> = {1}
    BY <2>2
  <2>4. q[i] \in Statement
    <3>1. q[i] = [how |-> "single", rows |-> <<rows[i]>>]
      BY <1>2 DEF Stmt
    <3> HIDE DEF q
    <3> QED BY <2>3, <3>1 DEF Statement, Hows
  <2> QED BY <2>1, <2>3, <2>4 DEF ToSet, Distinct
<1>4. q \in [1..Len(rows) -> Statement]
  BY <1>1, <1>2, <1>3 DEF Singles
<1>5. q \in Seq(Statement)
  BY <1>1, <1>4
<1>6. RowsOf(q) = ToSet(rows)
  <2> HIDE DEF q
  <2> QED BY <1>2, <1>3 DEF RowsOf, ToSet
<1>7. Shape(q)
  <2> HIDE DEF q
  <2> QED BY <1>3 DEF Shape
<1>8. Apart(q)
  <2> HIDE DEF q
  <2>0. \A i \in DOMAIN q : ToSet(q[i].rows) = {rows[i]} /\ Distinct(q[i].rows)
    BY <1>3
  <2>1. \A i, j \in DOMAIN q : i # j => ToSet(q[i].rows) \cap ToSet(q[j].rows) = {}
    <3>1. ASSUME NEW i \in DOMAIN q, NEW j \in DOMAIN q, i # j PROVE rows[i] # rows[j]
      <4>1. i \in DOMAIN rows /\ j \in DOMAIN rows
        BY <1>2
      <4> QED BY <3>1, <4>1 DEF Distinct
    <3> QED BY <2>0, <3>1
  <2> QED BY <2>0, <2>1 DEF Apart
<1> QED BY <1>2, <1>3, <1>5, <1>6, <1>7, <1>8

(* The head is done: the rest, without its rows.                            *)
LEMMA LineGoesOn ==
  ASSUME NEW q \in Seq(Statement), q # <<>>, Shape(q), Apart(q)
  PROVE  /\ Head(q) = q[1] /\ q[1] \in Statement /\ 1 \in DOMAIN q /\ Distinct(q[1].rows)
         /\ ToSet(q[1].rows) \subseteq RowsOf(q)
         /\ Tail(q) \in Seq(Statement) /\ Shape(Tail(q)) /\ Apart(Tail(q))
         /\ q[1].how # "delete" => RowsOf(Tail(q)) = RowsOf(q) \ ToSet(q[1].rows)
         /\ q[1].how # "single" /\ q[1].how # "delete" => Tail(q) = <<>>
         /\ q[1].how = "delete" =>
              /\ RowsOf(Tail(q)) = RowsOf(q) /\ RowsOf(q) = ToSet(q[1].rows)
              /\ Tail(Tail(q)) = <<>>
         /\ \A i \in DOMAIN Tail(q) : i + 1 \in DOMAIN q /\ Tail(q)[i] = q[i + 1]
<1>1. /\ Len(q) \in Nat \ {0} /\ DOMAIN q = 1..Len(q) /\ Head(q) = q[1]
      /\ \A i \in 1..Len(q) : q[i] \in Statement
  <2>1. Len(q) \in Nat /\ DOMAIN q = 1..Len(q) /\ \A i \in 1..Len(q) : q[i] \in Statement
    OBVIOUS
  <2> QED BY <2>1, EmptySeq
<1>2. /\ Tail(q) \in Seq(Statement) /\ Len(Tail(q)) = Len(q) - 1
      /\ DOMAIN Tail(q) = 1..(Len(q) - 1)
      /\ \A i \in 1..(Len(q) - 1) : Tail(q)[i] = q[i + 1]
  BY <1>1, HeadTailProperties, LenProperties
<1> DEFINE t == Tail(q)
<1> HIDE DEF t
<1>2a. /\ t \in Seq(Statement) /\ Len(t) = Len(q) - 1 /\ DOMAIN t = 1..(Len(q) - 1)
       /\ \A i \in 1..(Len(q) - 1) : t[i] = q[i + 1]
  BY <1>2 DEF t
<1>3. \A i \in DOMAIN t : i + 1 \in DOMAIN q /\ t[i] = q[i + 1]
  BY <1>1, <1>2a
<1>4. \A i \in DOMAIN q : i = 1 \/ (i - 1 \in DOMAIN t /\ q[i] = t[i - 1])
  BY <1>1, <1>2a
<1>5. ToSet(q[1].rows) \subseteq RowsOf(q) /\ 1 \in DOMAIN q /\ Distinct(q[1].rows)
  BY <1>1 DEF RowsOf, Apart
<1>6. CASE q[1].how # "delete"
  <2>1. Shape(t)
    BY <1>1, <1>2a, <1>3, <1>6 DEF Shape
  <2>2. Apart(t)
    <3>1. \A i, j \in DOMAIN q : i # j => ToSet(q[i].rows) \cap ToSet(q[j].rows) = {}
      BY <1>6 DEF Apart
    <3>2. ASSUME NEW i \in DOMAIN t, NEW j \in DOMAIN t, i # j
          PROVE  ToSet(t[i].rows) \cap ToSet(t[j].rows) = {}
      <4>1. i + 1 \in DOMAIN q /\ j + 1 \in DOMAIN q /\ i + 1 # j + 1
        BY <1>2a, <1>3, <3>2
      <4> QED BY <1>3, <3>1, <4>1
    <3>3. \A i \in DOMAIN t : Distinct(t[i].rows)
      BY <1>3 DEF Apart
    <3> QED BY <3>2, <3>3 DEF Apart
  <2>3. \A i \in DOMAIN t : ToSet(t[i].rows) \cap ToSet(q[1].rows) = {}
    <3>1. \A j \in DOMAIN q : j # 1 => ToSet(q[j].rows) \cap ToSet(q[1].rows) = {}
      BY <1>5, <1>6 DEF Apart
    <3>2. \A i \in DOMAIN t : i + 1 # 1
      BY <1>2a
    <3> QED BY <1>3, <3>1, <3>2
  <2>4. RowsOf(t) = RowsOf(q) \ ToSet(q[1].rows)
    <3>1. \A r \in RowsOf(t) : r \in RowsOf(q) \ ToSet(q[1].rows)
      BY <1>3, <2>3 DEF RowsOf
    <3>2. \A r \in RowsOf(q) : r \in ToSet(q[1].rows) \/ r \in RowsOf(t)
      BY <1>4 DEF RowsOf
    <3> QED BY <3>1, <3>2
  <2>5. q[1].how # "single" => t = <<>>
    <3>1. SUFFICES ASSUME q[1].how # "single" PROVE t = <<>>
      OBVIOUS
    <3>2. Len(q) = 1
      BY <1>1, <1>6, <3>1 DEF Shape
    <3>3. Len(t) = 0
      BY <1>2a, <3>2
    <3> QED BY <1>2a, <3>3, EmptySeq
  <2> QED BY <1>1, <1>3, <1>5, <1>6, <1>2a, <2>1, <2>2, <2>4, <2>5 DEF t
<1>7. CASE q[1].how = "delete"
  <2>1. Len(q) = 2 /\ q[2].how \in {"chunk", "single"} /\ q[2].rows = q[1].rows
    BY <1>1, <1>7 DEF Shape
  <2>2. DOMAIN q = {1, 2} /\ DOMAIN t = {1} /\ Len(t) = 1 /\ t[1] = q[2]
    BY <1>1, <1>2a, <2>1
  <2>3. Shape(t) /\ Apart(t)
    BY <2>1, <2>2 DEF Shape, Apart
  <2>4. RowsOf(t) = ToSet(q[1].rows) /\ RowsOf(q) = ToSet(q[1].rows)
    BY <2>1, <2>2 DEF RowsOf
  <2>5. Tail(t) = <<>>
    <3>1. t # <<>>
      BY <1>2a, <2>2, EmptySeq
    <3>2. Tail(t) \in Seq(Statement) /\ Len(Tail(t)) = 0
      BY <1>2a, <2>2, <3>1, HeadTailProperties
    <3> QED BY <3>2, EmptySeq
  <2> QED BY <1>1, <1>3, <1>5, <1>7, <1>2a, <2>3, <2>4, <2>5 DEF t
<1> QED BY <1>6, <1>7

LEMMA NextChunkIs ==
  ASSUME NEW rows \in Seq(batch), rows # <<>>
  PROVE  NextChunk(rows) \in 1..Len(rows) /\ NextChunk(rows) <= MaxChunk
<1> DEFINE ends == {n \in 1..Len(rows) :
                      \/ n \in {Len(rows), MaxChunk}
                      \/ ColumnsOf[rows[n + 1]] # ColumnsOf[rows[n]]
                      \/ SplitsRepeats /\ Repeats(rows, n + 1)}
<1>1. Len(rows) \in Nat \ {0} /\ MaxChunk \in Nat \ {0}
  BY EmptySeq, TableAssumption
<1>2. ends \subseteq Nat /\ Len(rows) \in ends /\ (MaxChunk <= Len(rows) => MaxChunk \in ends)
  BY <1>1
<1>3. NextChunk(rows) = CHOOSE n \in ends : \A m \in ends : n <= m
  BY DEF NextChunk
<1>4. \E n \in ends : \A m \in ends : n <= m
  <2> HIDE DEF ends
  <2> QED BY <1>2, LeastOf
<1>5. NextChunk(rows) \in ends /\ \A m \in ends : NextChunk(rows) <= m
  <2> HIDE DEF ends
  <2> QED BY <1>3, <1>4
<1>6. NextChunk(rows) \in 1..Len(rows)
  BY <1>5
<1> QED BY <1>1, <1>2, <1>5, <1>6

(* A sequence of different rows cut in two.                                 *)
LEMMA CutInTwo ==
  ASSUME NEW rows \in Seq(batch), Distinct(rows), NEW n \in 1..Len(rows)
  PROVE  LET a == SubSeq(rows, 1, n)
             b == SubSeq(rows, n + 1, Len(rows))
         IN /\ a \in Seq(batch) \ {<<>>} /\ Len(a) = n /\ b \in Seq(batch)
            /\ Distinct(a) /\ Distinct(b)
            /\ ToSet(a) \cup ToSet(b) = ToSet(rows) /\ ToSet(a) \cap ToSet(b) = {}
            /\ \A i \in DOMAIN a : i \in DOMAIN rows /\ i <= n /\ a[i] = rows[i]
            /\ \A i \in DOMAIN b : i + n \in DOMAIN rows /\ b[i] = rows[i + n]
<1> DEFINE a == SubSeq(rows, 1, n)
           b == SubSeq(rows, n + 1, Len(rows))
           l == Len(rows)
<1>1. l \in Nat /\ DOMAIN rows = 1..l /\ n \in Nat /\ n <= l /\ 1 <= n
      /\ \A i \in 1..l : rows[i] \in batch
  OBVIOUS
<1>2. a \in Seq(batch) /\ Len(a) = n /\ DOMAIN a = 1..n /\ \A i \in 1..n : a[i] = rows[i]
  BY <1>1, SubSeqProperties, LenProperties
<1>3. b \in Seq(batch) /\ Len(b) = l - n /\ DOMAIN b = 1..(l - n)
      /\ \A i \in 1..(l - n) : b[i] = rows[i + n]
  <2>1. \A i \in (n + 1)..l : rows[i] \in batch
    BY <1>1
  <2>2. /\ b \in Seq(batch) /\ Len(b) = IF n + 1 <= l THEN l - (n + 1) + 1 ELSE 0
        /\ \A i \in 1..(l - (n + 1) + 1) : b[i] = rows[(n + 1) + i - 1]
    <3> HIDE DEF b
    <3>1. n + 1 \in Int /\ l \in Int
      BY <1>1
    <3> QED BY <1>1, <2>1, <3>1, SubSeqProperties DEF b
  <2> HIDE DEF b, l
  <2>2a. l - (n + 1) + 1 = l - n /\ \A i \in 1..(l - n) : (n + 1) + i - 1 = i + n
    BY <1>1
  <2>3. Len(b) = l - n /\ l - (n + 1) + 1 = l - n /\ \A i \in 1..(l - n) : (n + 1) + i - 1 = i + n
    BY <1>1, <2>2, <2>2a
  <2>4. DOMAIN b = 1..Len(b)
    BY <2>2, LenProperties
  <2> QED BY <2>2, <2>3, <2>4
<1> HIDE DEF a, b
<1>4. a # <<>>
  BY <1>1, <1>2, EmptySeq
<1>5. \A i \in DOMAIN a : i \in DOMAIN rows /\ i <= n /\ a[i] = rows[i]
  BY <1>1, <1>2
<1>6. \A i \in DOMAIN b : i + n \in DOMAIN rows /\ i + n > n /\ b[i] = rows[i + n]
  BY <1>1, <1>3
<1>7. \A i \in DOMAIN rows : (i \in DOMAIN a /\ a[i] = rows[i]) \/ (i - n \in DOMAIN b /\ b[i - n] = rows[i])
  BY <1>1, <1>2, <1>3
<1>8. Distinct(a)
  BY <1>5 DEF Distinct
<1>9. Distinct(b)
  <2>1. \A i, j \in DOMAIN b : i + n = j + n => i = j
    BY <1>1, <1>3
  <2> QED BY <1>6, <2>1 DEF Distinct
<1>10. ToSet(a) \cup ToSet(b) = ToSet(rows)
  BY <1>5, <1>6, <1>7 DEF ToSet
<1>11. ToSet(a) \cap ToSet(b) = {}
  <2>1. \A i \in DOMAIN a, j \in DOMAIN b : i # j + n
    BY <1>1, <1>2, <1>3
  <2>2. \A i \in DOMAIN a, j \in DOMAIN b : a[i] # b[j]
    BY <1>5, <1>6, <2>1 DEF Distinct
  <2> QED BY <2>2 DEF ToSet
<1> QED BY <1>2, <1>3, <1>4, <1>5, <1>6, <1>8, <1>9, <1>10, <1>11 DEF a, b

(* The head of a line of rows.                                              *)
LEMMA HeadOfLine ==
  ASSUME NEW rows \in Seq(batch), rows # <<>>, Distinct(rows)
  PROVE  /\ Head(rows) \in batch /\ Head(rows) \in ToSet(rows)
         /\ Tail(rows) \in Seq(batch) /\ Distinct(Tail(rows))
         /\ ToSet(Tail(rows)) = ToSet(rows) \ {Head(rows)}
         /\ Head(rows) = rows[1] /\ 1 \in DOMAIN rows
         /\ \A i \in DOMAIN Tail(rows) : i + 1 \in DOMAIN rows /\ Tail(rows)[i] = rows[i + 1]
<1>1. Len(rows) \in Nat \ {0} /\ DOMAIN rows = 1..Len(rows) /\ Head(rows) = rows[1]
      /\ \A i \in 1..Len(rows) : rows[i] \in batch
  <2>1. Len(rows) \in Nat /\ DOMAIN rows = 1..Len(rows) /\ \A i \in 1..Len(rows) : rows[i] \in batch
    OBVIOUS
  <2> QED BY <2>1, EmptySeq
<1> DEFINE t == Tail(rows)
<1>2. t \in Seq(batch) /\ DOMAIN t = 1..(Len(rows) - 1) /\ \A i \in 1..(Len(rows) - 1) : t[i] = rows[i + 1]
  BY <1>1, HeadTailProperties, LenProperties
<1> HIDE DEF t
<1>3. \A i \in DOMAIN t : i + 1 \in DOMAIN rows /\ i + 1 # 1 /\ t[i] = rows[i + 1]
  BY <1>1, <1>2
<1>4. \A i \in DOMAIN rows : i = 1 \/ (i - 1 \in DOMAIN t /\ t[i - 1] = rows[i])
  BY <1>1, <1>2
<1>5. Distinct(t)
  <2>1. \A i, j \in DOMAIN t : i + 1 = j + 1 => i = j
    BY <1>2
  <2> QED BY <1>3, <2>1 DEF Distinct
<1>6. \A i \in DOMAIN t : t[i] # rows[1]
  BY <1>1, <1>3 DEF Distinct
<1>7. ToSet(t) = ToSet(rows) \ {rows[1]}
  BY <1>3, <1>4, <1>6 DEF ToSet
<1>8. 1 \in DOMAIN rows
  BY <1>1
<1>9. rows[1] \in ToSet(rows) /\ rows[1] \in batch
  BY <1>1, <1>8 DEF ToSet
<1> QED BY <1>1, <1>2, <1>3, <1>5, <1>7, <1>8, <1>9 DEF t

------------------------------------------------------------------------------
\* The inductive invariant

IInv ==
  /\ TypeOK /\ Connects(conn) /\ runID <= loads + 1
  /\ LineInv /\ CountInv /\ BookInv

LEMMA Counts ==
  /\ MaxLoads \in Nat /\ MaxFaults \in Nat /\ MaxCopies \in Nat
  /\ MaxLoads <= MaxCopies
  /\ \A n \in 0..MaxCopies : OneMore(n) \in 0..MaxCopies
<1>1. MaxLoads \in Nat /\ MaxFaults \in Nat
  BY TableAssumption
<1>2. MaxCopies \in Nat /\ MaxLoads <= MaxCopies
  BY <1>1 DEF MaxCopies
<1> QED BY <1>1, <1>2 DEF OneMore

LEMMA Tables ==
  /\ None \in [Rows -> 0..MaxCopies] /\ None \in [Rows -> 0..MaxLoads]
  /\ \A t \in [Rows -> 0..MaxCopies] :
       /\ \A rows : Inserted(t, rows) \in [Rows -> 0..MaxCopies]
       /\ \A rows : MaxCopies > 0 => Upserted(t, rows) \in [Rows -> 0..MaxCopies]
       /\ \A keys : WithoutKeys(t, keys) \in [Rows -> 0..MaxCopies]
<1>1. 0 \in 0..MaxCopies /\ 0 \in 0..MaxLoads /\ (MaxCopies > 0 => 1 \in 0..MaxCopies)
  BY Counts
<1>2. None \in [Rows -> 0..MaxCopies] /\ None \in [Rows -> 0..MaxLoads]
  BY <1>1 DEF None
<1>3. ASSUME NEW t \in [Rows -> 0..MaxCopies], NEW rows
      PROVE  Inserted(t, rows) \in [Rows -> 0..MaxCopies]
  BY Counts DEF Inserted
<1>4. ASSUME NEW t \in [Rows -> 0..MaxCopies], NEW rows, MaxCopies > 0
      PROVE  Upserted(t, rows) \in [Rows -> 0..MaxCopies]
  BY <1>1, <1>4 DEF Upserted
<1>5. ASSUME NEW t \in [Rows -> 0..MaxCopies], NEW keys
      PROVE  WithoutKeys(t, keys) \in [Rows -> 0..MaxCopies]
  BY <1>1 DEF WithoutKeys
<1> QED BY <1>2, <1>3, <1>4, <1>5

LEMMA InitTable == Init => IInv
<1> SUFFICES ASSUME Init PROVE IInv
  OBVIOUS
<1>1. RowsOf(<<>>) = {} /\ ToSet(<<>>) = {} /\ Waiting = {}
  BY LineOfNone DEF Waiting, Init
<1>2. TypeOK
  <2>1. \A S : <<>> \in Seq(S)
    BY LineOfNone
  <2>2. DOMAIN queue = {}
    BY DEF Init
  <2>3. 1 \in 0..(MaxLoads + 1) /\ 0 \in 0..(MaxLoads + 1) /\ 0 \in 0..MaxLoads /\ 0 \in 0..MaxFaults
    BY Counts
  <2> QED BY <2>1, <2>2, <2>3, Tables DEF Init, TypeOK
<1>3. Connects(conn) /\ runID <= loads + 1
  BY DEF Init
<1>4. LineInv
  BY <1>1, LineOfNone DEF Init, LineInv
<1>5. CountInv
  BY <1>1 DEF Init, CountInv
<1>6. BookInv
  <2>1. \A r \in Rows : given[r] = 0 /\ brought[r] = 0 /\ loads = 0
    BY DEF Init, None
  <2> QED BY <2>1 DEF Init, BookInv, ToCome
<1> QED BY <1>2, <1>3, <1>4, <1>5, <1>6 DEF IInv

(* What does not depend on the step when the connection and batch stay.     *)
LEMMA SameConnection ==
  ASSUME conn' = conn
  PROVE  /\ Strategy' = Strategy /\ SkipsLog' = SkipsLog /\ ViaStaging' = ViaStaging
         /\ InTurn' = InTurn /\ InsertOnly' = InsertOnly /\ Connects(conn)' = Connects(conn)
BY DEF Strategy, SkipsLog, ViaStaging, InTurn, InsertOnly, Connects,
       PostgresConnects, MySQLConnects, SnowflakeConnects

LEMMA ConnectionStays ==
  ASSUME [Next]_vars
  PROVE  conn' = conn
<1>1. CASE Begin \/ Truncate \/ EndRun \/ EndContext
  BY <1>1 DEF Begin, Truncate, EndRun, EndContext
<1>2. CASE Plan \/ TakeTurn \/ TakeChunk \/ Return
  BY <1>2 DEF Plan, TakeTurn, TakeChunk, Return, planFrame
<1>3. CASE Execute
  BY <1>3 DEF Execute
<1>4. CASE UNCHANGED vars
  BY <1>4 DEF vars
<1> QED BY <1>1, <1>2, <1>3, <1>4 DEF Next

LEMMA SameBatch ==
  ASSUME conn' = conn, batch' = batch
  PROVE  /\ Statement' = Statement
         /\ \A s : Fits(s)' <=> Fits(s)
BY SameConnection DEF Statement, Fits

LEMMA FitOn ==
  ASSUME conn' = conn, batch' = batch, \A i \in DOMAIN queue' : Fits(queue'[i])
  PROVE  (\A i \in DOMAIN queue : Fits(queue[i]))'
BY SameConnection DEF Fits

(* A step that keeps left and queue keeps the line in shape.                *)
LEMMA SameLine ==
  ASSUME LineInv, UNCHANGED <<conn, batch, left, queue, bulk>>,
         phase' \notin {"write", "returned"} => left = <<>> /\ queue = <<>>,
         phase' = "returned" /\ ~fatal' => left = <<>> /\ queue = <<>>
  PROVE  LineInv' /\ Waiting' = Waiting
<1>1. Statement' = Statement /\ (\A i \in DOMAIN queue : Fits(queue[i]))'
  <2>1. \A i \in DOMAIN queue' : Fits(queue'[i])
    BY DEF LineInv
  <2> QED BY <2>1, FitOn, SameBatch
<1> QED BY <1>1, SameConnection DEF LineInv, Waiting

LEMMA EmptyLine ==
  ASSUME left = <<>>, queue = <<>>
  PROVE  Waiting = {}
BY LineOfNone DEF Waiting

LEMMA FaultType ==
  ASSUME TypeOK, NoFault \/ Fault
  PROVE  faults' \in 0..MaxFaults
<1>1. faults \in 0..MaxFaults
  BY DEF TypeOK
<1> QED BY <1>1, Counts DEF Fault, NoFault

LEMMA BeginStep == ASSUME IInv, Begin PROVE IInv'
<1> USE DEF IInv
<1>0. left' = <<>> /\ queue' = <<>> /\ conn' = conn /\ batch' \in (SUBSET Rows) \ {{}}
      /\ phase' \in {"returned", "truncate", "plan"} /\ (phase' = "returned" <=> fatal')
      /\ RowsOf(queue') = {} /\ ToSet(left') = {} /\ Waiting' = {}
  BY LineOfNone DEF Begin, TypeOK, Waiting
<1>1. TypeOK'
  <2>1. left' \in Seq(batch') /\ queue' \in Seq(Statement)' /\ DOMAIN queue' = {}
    BY <1>0, LineOfNone
  <2>2. brought' \in [Rows -> 0..MaxLoads]
    <3>1. \A r \in Rows : brought[r] \in 0..MaxLoads /\ brought[r] <= loads /\ loads < MaxLoads
                         /\ loads \in 0..MaxLoads
      BY DEF BookInv, TypeOK, Begin
    <3>2. \A r \in Rows : brought[r] + 1 \in 0..MaxLoads
      BY <3>1, Counts
    <3> QED BY <3>1, <3>2 DEF Begin
  <2>3. had' \subseteq {KeyOf[r] : r \in Rows}
    BY DEF Begin, Keys, Present
  <2>4. loads' \in 0..MaxLoads
    BY Counts DEF Begin, TypeOK
  <2>5. bulk' \in BOOLEAN /\ verdict' \in [Rows -> {"none", "loaded", "skipped", "error"}]
    BY DEF Begin
  <2>6. queue' = <<>> /\ left' = <<>> /\ unreported' = {} /\ fatal' = ctxDone /\ runErrors' = (runErrors \/ ctxDone)
        /\ phase' \in {"returned", "truncate", "plan"}
        /\ written' \in {{}, written} /\ batch' \subseteq Rows
        /\ UNCHANGED <<conn, runID, ctxDone, table, current, staging, staged, truncated, marked, faults,
                       given, ambiguous>>
    BY <1>0 DEF Begin, tableVars
  <2>7. /\ queue' \in Seq([how : Hows, rows : Seq(batch') \ {<<>>}]) /\ DOMAIN queue' = {}
        /\ left' \in Seq(batch')
    BY <2>6
  <2>8. fatal' \in BOOLEAN /\ runErrors' \in BOOLEAN
    BY <2>6 DEF TypeOK
  <2>9. TypeOK
    OBVIOUS
  <2> HIDE DEF IInv
  <2> QED BY <2>1, <2>2, <2>3, <2>4, <2>5, <2>6, <2>7, <2>8, <2>9 DEF TypeOK
<1>2. (Connects(conn) /\ runID <= loads + 1)'
  BY SameConnection, Counts DEF Begin, TypeOK
<1>3. LineInv'
  <2>1. (\A i \in DOMAIN queue : Fits(queue[i]))'
    BY <1>0
  <2>2. bulk' => conn'.kind = "postgres" /\ SkipsLog'
    <3>1. PICK rows : bulk' = (/\ conn.kind = "postgres" /\ SkipsLog
                              /\ Cardinality(rows) >= CopyThreshold)
      BY DEF Begin
    <3>2. bulk' => conn.kind = "postgres" /\ SkipsLog
      BY <3>1
    <3> QED BY <1>0, <3>2, SameConnection
  <2> QED BY <1>0, <2>1, <2>2, LineOfNone DEF LineInv
<1>4. CountInv'
  <2>1. TruncatesFirst' = TruncatesFirst
    BY SameConnection DEF Begin, TruncatesFirst
  <2>2. /\ batch' # {} /\ unreported' = {} /\ verdict' = [r \in Rows |-> "none"]
        /\ phase' = (IF ctxDone THEN "returned" ELSE IF TruncatesFirst THEN "truncate" ELSE "plan")
        /\ UNCHANGED <<staging, staged>> /\ fatal' = ctxDone /\ DOMAIN queue' = {}
    <3>1. batch' # {}
      <4>1. batch' \in (SUBSET Rows) \ {{}}
        BY <1>0
      <4> QED BY <4>1
    <3>1a. DOMAIN queue' = {}
      <4>1. queue' = <<>>
        BY <1>0
      <4> QED BY <4>1
    <3>2. UNCHANGED <<staging, staged>>
      BY DEF Begin, tableVars
    <3> QED BY <3>1, <3>2 DEF Begin
  <2> QED BY <1>0, <2>1, <2>2, SameConnection DEF CountInv
<1>5. BookInv'
  <2>1. ASSUME NEW r \in Rows
        PROVE  given'[r] <= brought'[r] /\ brought'[r] <= loads' /\ (r \in batch' => given'[r] < brought'[r])
    <3>1. given[r] \in Nat /\ brought[r] \in Nat /\ loads \in Nat /\ given[r] <= brought[r] /\ brought[r] <= loads
      BY Counts DEF TypeOK, BookInv
    <3>2. brought'[r] = (IF r \in batch' THEN brought[r] + 1 ELSE brought[r])
          /\ given' = given /\ loads' = loads + 1
      BY DEF Begin
    <3> QED BY <3>1, <3>2
  <2> QED BY <1>0, <2>1 DEF BookInv, ToCome
<1> QED BY <1>1, <1>2, <1>3, <1>4, <1>5

LEMMA TruncateStep == ASSUME IInv, Truncate PROVE IInv'
<1> USE DEF IInv
<1>0. left = <<>> /\ queue = <<>> /\ UNCHANGED <<conn, batch, left, queue, bulk>>
      /\ phase' \in {"plan", "returned"} /\ (phase' = "returned" => fatal') /\ (phase' = "plan" => ~fatal')
  BY DEF Truncate, Abort, LineInv, CountInv
<1>1. TypeOK'
  <2>1. table' \in {table, None} /\ (NoFault \/ Fault) /\ {fatal', runErrors', truncated'} \subseteq BOOLEAN
    BY DEF Truncate, Abort, TypeOK
  <2>2. table' \in [Rows -> 0..MaxCopies] /\ faults' \in 0..MaxFaults
    <3>1. {table, None} \subseteq [Rows -> 0..MaxCopies]
      BY Tables DEF TypeOK
    <3> QED BY <2>1, <3>1, FaultType
  <2> QED BY <1>0, <2>1, <2>2, SameBatch DEF TypeOK, Truncate
<1>2. (Connects(conn) /\ runID <= loads + 1)'
  BY <1>0, SameConnection DEF Truncate
<1>3. LineInv' /\ Waiting' = Waiting
  BY <1>0, SameLine
<1>4. CountInv'
  BY <1>0, <1>3, SameConnection, LineOfNone DEF CountInv, Truncate, Abort
<1>5. BookInv'
  BY <1>0 DEF BookInv, ToCome, Truncate
<1> QED BY <1>1, <1>2, <1>3, <1>4, <1>5

LEMMA ReturnStep == ASSUME IInv, Return PROVE IInv'
<1> USE DEF IInv
<1>0. left = <<>> /\ queue = <<>> /\ UNCHANGED <<conn, batch, left, queue, bulk>>
      /\ phase' = "returned" /\ fatal' = fatal /\ Waiting = {}
  BY EmptyLine DEF Return, planFrame
<1>1. TypeOK'
  BY <1>0 DEF TypeOK, Return, planFrame, tableVars
<1>2. (Connects(conn) /\ runID <= loads + 1)'
  BY <1>0, SameConnection DEF Return, planFrame
<1>3. LineInv' /\ Waiting' = Waiting
  BY <1>0, SameLine
<1>4. CountInv'
  BY <1>0, <1>3, SameConnection, LineOfNone DEF CountInv, Return, planFrame, tableVars
<1>5. BookInv'
  BY <1>0 DEF BookInv, ToCome, Return, planFrame
<1> QED BY <1>1, <1>2, <1>3, <1>4, <1>5

LEMMA EndRunStep == ASSUME IInv, EndRun PROVE IInv'
<1> USE DEF IInv
<1>0. /\ UNCHANGED <<conn, batch, left, queue, bulk, phase, fatal, verdict, unreported, marked>>
      /\ phase = "returned" /\ runID' = runID + 1 /\ runID <= loads /\ loads' = loads
      /\ staging' = None
  BY DEF EndRun
<1>1. TypeOK'
  <2>1. table' \in [Rows -> 0..MaxCopies] /\ faults' \in 0..MaxFaults
    <3>1. table' \in {table, staging} /\ (NoFault \/ Fault)
      BY DEF EndRun, FinalizeRun, NoFault
    <3>2. {table, staging} \subseteq [Rows -> 0..MaxCopies]
      BY DEF TypeOK
    <3> QED BY <3>1, <3>2, FaultType
  <2>2. runID' \in 0..(MaxLoads + 1)
    <3>1. runID \in Nat /\ loads \in Nat /\ loads <= MaxLoads /\ MaxLoads \in Nat
      BY Counts DEF TypeOK
    <3>2. runID' = runID + 1 /\ runID <= loads
      BY <1>0
    <3> HIDE DEF IInv
    <3> QED BY <3>1, <3>2
  <2>3. brought' \in [Rows -> 0..MaxLoads] /\ given' \in [Rows -> 0..MaxLoads]
    BY Tables DEF EndRun, TypeOK
  <2> QED BY <1>0, <2>1, <2>2, <2>3, Tables DEF TypeOK, EndRun
<1>2. (Connects(conn) /\ runID <= loads + 1)'
  BY <1>0, SameConnection, Counts DEF TypeOK
<1>3. LineInv' /\ Waiting' = Waiting
  BY <1>0, SameLine DEF LineInv
<1>4. CountInv'
  BY <1>0, <1>3, SameConnection DEF CountInv
<1>5. BookInv'
  <2>1. ToCome' = {}
    BY <1>0 DEF ToCome
  <2>2. \A r \in Rows : None[r] = 0 /\ 0 <= loads
    BY Counts DEF None, TypeOK
  <2> QED BY <1>0, <2>1, <2>2 DEF BookInv, EndRun
<1> QED BY <1>1, <1>2, <1>3, <1>4, <1>5

LEMMA EndContextStep == ASSUME IInv, EndContext PROVE IInv'
<1> USE DEF IInv
<1>0. UNCHANGED <<conn, runID, loadVars, tableVars, staged, truncated, marked, loads, faults, bookVars>>
      /\ ctxDone' = TRUE
  BY DEF EndContext
<1>1. TypeOK'
  BY <1>0 DEF TypeOK, loadVars, tableVars, bookVars
<1>2. (Connects(conn) /\ runID <= loads + 1)'
  BY <1>0, SameConnection
<1>3. LineInv' /\ Waiting' = Waiting
  BY <1>0, SameLine DEF LineInv, loadVars
<1>4. TruncatesFirst' = TruncatesFirst
  BY <1>0, SameConnection DEF TruncatesFirst
<1>5. CountInv'
  BY <1>0, <1>3, <1>4, SameConnection DEF CountInv, loadVars, tableVars, bookVars
<1>6. BookInv'
  BY <1>0, <1>3 DEF BookInv, ToCome, loadVars, bookVars
<1> QED BY <1>1, <1>2, <1>3, <1>5, <1>6

LEMMA RowsInLine ==
  ASSUME batch \in SUBSET Rows, NEW rows \in SUBSET batch,
         NEW before \in {AsSent(rows), Order(rows)}
  PROVE  LET s == Ordered(rows, before)
         IN /\ s \in Seq(batch) /\ ToSet(s) = rows /\ Distinct(s) /\ InSequence(s)
            /\ rows # {} => s # <<>>
            /\ before = AsSent(rows) => \A i, j \in DOMAIN s : i < j => s[i] < s[j]
<1> DEFINE s == Ordered(rows, before)
<1>1. rows \in SUBSET Rows
  OBVIOUS
<1>2. IsFiniteSet(rows) /\ StrictOrder(rows, before)
  BY <1>1, SentOrder, OrderOfRows
<1>3. \A p, q \in rows : Versions(p, q) /\ <<p, q>> \in before => p < q
  BY <1>1, OrderOfRows DEF Versions, AsSent
<1>4. /\ s \in Seq(rows) /\ Len(s) = Cardinality(rows) /\ ToSet(s) = rows
      /\ \A i, j \in DOMAIN s : i < j => <<s[i], s[j]>> \in before
  BY <1>2, OrderedIs
<1> HIDE DEF s
<1>5. s \in Seq(batch) /\ DOMAIN s \subseteq Nat /\ \A i \in DOMAIN s : s[i] \in rows
  BY <1>4
<1>6. Distinct(s)
  <2>1. ASSUME NEW i \in DOMAIN s, NEW j \in DOMAIN s, i < j PROVE s[i] # s[j]
    <3>1. <<s[i], s[j]>> \in before /\ s[i] \in rows
      BY <1>4, <1>5, <2>1
    <3> QED BY <1>2, <3>1 DEF StrictOrder
  <2>2. \A i, j \in DOMAIN s : i = j \/ i < j \/ j < i
    BY <1>5
  <2>3. \A i, j \in DOMAIN s : i # j => s[i] # s[j]
    BY <2>1, <2>2
  <2> QED BY <2>3 DEF Distinct
<1>7. InSequence(s)
  BY <1>3, <1>4, <1>5 DEF InSequence
<1>8. rows # {} => s # <<>>
  BY <1>4, LineOfNone
<1>9. before = AsSent(rows) => \A i, j \in DOMAIN s : i < j => s[i] < s[j]
  BY <1>4 DEF AsSent
<1> QED BY <1>4, <1>5, <1>6, <1>7, <1>8, <1>9 DEF s

LEMMA PutInLineIs ==
  ASSUME batch \in SUBSET Rows, NEW rows \in SUBSET batch, PutInLine(rows),
         left = <<>>, queue = <<>>
  PROVE  /\ left' \in Seq(batch) /\ Distinct(left') /\ InSequence(left')
         /\ queue' \in Seq(Statement) /\ Shape(queue') /\ Apart(queue')
         /\ ToSet(left') \cup RowsOf(queue') = rows /\ ToSet(left') \cap RowsOf(queue') = {}
         /\ \A i \in DOMAIN queue' :
              /\ queue'[i].how = "single" /\ Len(queue'[i].rows) = 1
              /\ InSequence(queue'[i].rows)
         /\ \A i, j \in DOMAIN queue' : i < j =>
              \A x \in ToSet(queue'[i].rows), y \in ToSet(queue'[j].rows) : x < y
         /\ left' = <<>> \/ queue' = <<>>
         /\ InTurn => queue' = <<>>
<1>1. CASE InTurn \/ Chunked(rows)
  <2>1. left' = Ordered(rows, Order(rows)) /\ queue' = <<>>
    BY <1>1 DEF PutInLine
  <2>2. left' \in Seq(batch) /\ ToSet(left') = rows /\ Distinct(left') /\ InSequence(left')
    BY <2>1, RowsInLine
  <2>3. DOMAIN queue' = {}
    BY <2>1
  <2> QED BY <2>1, <2>2, <2>3, LineOfNone
<1>2. CASE ~(InTurn \/ Chunked(rows))
  <2> DEFINE s == Ordered(rows, AsSent(rows))
  <2>1. left' = <<>> /\ queue' = Singles(s)
    BY <1>2 DEF PutInLine
  <2>2. s \in Seq(batch) /\ ToSet(s) = rows /\ Distinct(s)
        /\ \A i, j \in DOMAIN s : i < j => s[i] < s[j]
    BY RowsInLine
  <2> HIDE DEF s
  <2>3. /\ queue' \in Seq(Statement) /\ Shape(queue') /\ Apart(queue')
        /\ RowsOf(queue') = rows /\ DOMAIN queue' = DOMAIN s
        /\ \A i \in DOMAIN queue' :
             queue'[i] = Stmt("single", <<s[i]>>) /\ ToSet(queue'[i].rows) = {s[i]}
    BY <2>1, <2>2, LineOfSingles
  <2>4. ASSUME NEW i \in DOMAIN queue'
        PROVE  /\ queue'[i].how = "single" /\ Len(queue'[i].rows) = 1
               /\ InSequence(queue'[i].rows)
    <3>1. queue'[i].how = "single" /\ queue'[i].rows = <<s[i]>>
      BY <2>3 DEF Stmt
    <3>2. DOMAIN <<s[i]>> = {1}
      OBVIOUS
    <3> QED BY <3>1, <3>2 DEF InSequence
  <2>5. ASSUME NEW i \in DOMAIN queue', NEW j \in DOMAIN queue', i < j,
               NEW x \in ToSet(queue'[i].rows), NEW y \in ToSet(queue'[j].rows)
        PROVE  x < y
    <3>1. x = s[i] /\ y = s[j] /\ i \in DOMAIN s /\ j \in DOMAIN s
      BY <2>3, <2>5
    <3> QED BY <2>2, <2>5, <3>1
  <2>6. /\ left' \in Seq(batch) /\ Distinct(left') /\ InSequence(left') /\ ToSet(left') = {}
    BY <2>1, LineOfNone
  <2> QED BY <1>2, <2>1, <2>3, <2>4, <2>5, <2>6
<1> QED BY <1>1, <1>2

------------------------------------------------------------------------------
\* Plan, TakeTurn and TakeChunk

LEMMA BookIs ==
  ASSUME TypeOK, NEW rows \in SUBSET Rows, NEW unread
  PROVE  /\ Book(rows, unread) \in [Rows -> {"none", "loaded", "skipped", "error"}]
         /\ Pending(rows, unread) \in SUBSET rows
         /\ ~SkipsLog => Pending(rows, unread) \cap marked = {}
         /\ \A r \in Rows :
              IF r \in rows /\ r \notin Pending(rows, unread)
                THEN Book(rows, unread)[r] \in {"skipped", "error"}
                ELSE Book(rows, unread)[r] = verdict[r]
BY DEF Book, Pending, TypeOK

LEMMA ReadFaultType ==
  ASSUME TypeOK, NEW rows, NEW unread \in {{}} \cup UnreadSets(rows), ReadFault(unread)
  PROVE  faults' \in 0..MaxFaults
<1>1. faults \in 0..MaxFaults
  BY DEF TypeOK
<1>2. unread # {} /\ ~ctxDone => faults < MaxFaults
  BY DEF UnreadSets
<1> QED BY <1>1, <1>2, Counts DEF ReadFault

(* What the copies and the statements for staging are: all of the batch.    *)
LEMMA WholeBatch ==
  ASSUME TypeOK, LineInv, batch # {}, phase = "plan", bulk \/ ViaStaging,
         queue' = <<Stmt(IF ~ViaStaging THEN "copy" ELSE IF bulk THEN "stageCopy"
                         ELSE "stageInsert", Ordered(batch, AsSent(batch)))>>
  PROVE  /\ queue' \in Seq(Statement) /\ Shape(queue') /\ Apart(queue')
         /\ RowsOf(queue') = batch /\ DOMAIN queue' = {1}
         /\ Fits(queue'[1]) /\ InSequence(queue'[1].rows)
<1> DEFINE s == Ordered(batch, AsSent(batch))
           how == IF ~ViaStaging THEN "copy" ELSE IF bulk THEN "stageCopy" ELSE "stageInsert"
           st == Stmt(how, s)
<1>1. batch \in SUBSET Rows
  BY DEF TypeOK
<1>2. s \in Seq(batch) /\ ToSet(s) = batch /\ Distinct(s) /\ s # <<>> /\ InSequence(s)
  BY <1>1, RowsInLine
<1>3. how \in Hows /\ how \notin {"delete", "single", "chunk", "scd2"}
  BY DEF Hows
<1> HIDE DEF s, how
<1>4. st.how = how /\ st.rows = s /\ st \in Statement
  BY <1>2, <1>3 DEF Stmt, Statement
<1>5. queue' = <<st>>
  BY DEF s, how
<1> HIDE DEF st
<1>6. /\ queue' \in Seq(Statement) /\ Shape(queue') /\ Apart(queue')
      /\ RowsOf(queue') = batch /\ DOMAIN queue' = {1} /\ queue'[1] = st
  BY <1>2, <1>3, <1>4, <1>5, LineOfOne
<1>7. Fits(st)
  <2>1. how \in {"stageCopy", "stageInsert"} <=> ViaStaging
    BY DEF how
  <2>2. how = "copy" => conn.kind = "postgres" /\ SkipsLog
    BY DEF how, LineInv
  <2>3. Strategy # "scd2"
    BY DEF LineInv, ViaStaging, SkipsLog
  <2> QED BY <1>2, <1>3, <1>4, <2>1, <2>2, <2>3 DEF Fits
<1> QED BY <1>2, <1>4, <1>6, <1>7

LEMMA PlanStep == ASSUME IInv, Plan PROVE IInv'
<1> USE DEF IInv
<1>0. /\ left = <<>> /\ queue = <<>> /\ Waiting = {} /\ unreported = {} /\ fatal = FALSE
      /\ batch # {} /\ \A r \in Rows : verdict[r] = "none"
      /\ UNCHANGED <<conn, runID, batch, bulk, staging, marked, loads, brought, given, unreported>>
      /\ UNCHANGED planFrame
  BY EmptyLine DEF Plan, planFrame, tableVars, LineInv, CountInv, TypeOK
<1>1. Connects(conn)' /\ (runID <= loads + 1)'
  BY <1>0, SameConnection
<1>2. CASE phase' = "returned" /\ Abort /\ (NoFault \/ Fault) /\ UNCHANGED <<verdict, left, queue, staged>>
  <2>1. TypeOK'
    <3>1. faults' \in 0..MaxFaults
      BY <1>2, FaultType
    <3> QED BY <1>0, <1>2, <3>1 DEF TypeOK, Abort, planFrame, tableVars
  <2>2. LineInv' /\ Waiting' = Waiting
    BY <1>0, <1>2, SameLine DEF Abort
  <2>3. CountInv'
    BY <1>0, <1>2, <2>2, SameConnection, LineOfNone DEF CountInv, Abort
  <2>4. BookInv'
    BY <1>0, <1>2 DEF BookInv, ToCome
  <2> QED BY <1>1, <2>1, <2>2, <2>3, <2>4
<1>3. CASE /\ bulk \/ ViaStaging
           /\ queue' = <<Stmt(IF ~ViaStaging THEN "copy" ELSE IF bulk THEN "stageCopy"
                              ELSE "stageInsert", Ordered(batch, AsSent(batch)))>>
           /\ phase' = "write" /\ staged' = (staged \/ ViaStaging)
           /\ NoFault /\ UNCHANGED <<verdict, fatal, left, runErrors>>
  <2>1. /\ queue' \in Seq(Statement) /\ Shape(queue') /\ Apart(queue')
        /\ RowsOf(queue') = batch /\ DOMAIN queue' = {1}
        /\ Fits(queue'[1])
    BY <1>0, <1>3, WholeBatch DEF Plan
  <2>2. left' = <<>> /\ ToSet(left') = {} /\ Waiting' = batch
    BY <1>0, <1>3, <2>1, LineOfNone DEF Waiting
  <2>3. (\A i \in DOMAIN queue : Fits(queue[i]))'
    BY <1>0, <2>1, FitOn
  <2>4. TypeOK'
    <3>1. faults' \in 0..MaxFaults
      BY <1>3, FaultType
    <3>2. (\A i \in DOMAIN queue : queue[i].how \in {"chunk", "delete"} => Len(queue[i].rows) <= MaxChunk)'
      BY <2>1 DEF Fits
    <3>3. queue' \in Seq([how : Hows, rows : Seq(batch') \ {<<>>}])
      BY <1>0, <2>1 DEF Statement
    <3>4. staged' \in BOOLEAN
      BY <1>3 DEF TypeOK
    <3> QED BY <1>0, <1>3, <3>1, <3>2, <3>3, <3>4 DEF TypeOK, planFrame, tableVars
  <2>5. LineInv'
    BY <1>0, <1>3, <2>1, <2>2, <2>3, LineOfNone, SameBatch, SameConnection DEF LineInv
  <2>6. CountInv'
    <3>1. ViaStaging' => staged'
      BY <1>0, <1>3, SameConnection DEF TypeOK
    <3>2. ~SkipsLog' => RowsOf(queue') \cap marked' = {}
      BY <1>0, <1>3, SameConnection DEF LineInv, ViaStaging, SkipsLog
    <3> QED BY <1>0, <1>3, <2>1, <2>2, <3>1, <3>2, SameConnection DEF CountInv, TypeOK
  <2>7. BookInv'
    BY <1>0, <1>3, <2>2 DEF BookInv, ToCome, Plan
  <2> QED BY <1>1, <2>4, <2>5, <2>6, <2>7
<1>4. ASSUME ~bulk, ~ViaStaging, phase' = "write", UNCHANGED <<fatal, staged, runErrors>>,
             NEW unread \in {{}} \cup UnreadSets(batch), ReadFault(unread),
             NEW rows \in SUBSET batch, PutInLine(rows),
             verdict' \in [Rows -> {"none", "loaded", "skipped", "error"}],
             \A r \in rows \cup (Rows \ batch) : verdict'[r] = "none",
             \A r \in batch \ rows : verdict'[r] # "none",
             ~SkipsLog /\ ~InTurn => rows \cap marked = {}
      PROVE  IInv'
  <2>1. batch \in SUBSET Rows
    BY DEF TypeOK
  <2>2. /\ left' \in Seq(batch) /\ Distinct(left')
        /\ queue' \in Seq(Statement) /\ Shape(queue') /\ Apart(queue')
        /\ ToSet(left') \cup RowsOf(queue') = rows /\ ToSet(left') \cap RowsOf(queue') = {}
        /\ \A i \in DOMAIN queue' : queue'[i].how = "single" /\ Len(queue'[i].rows) = 1
        /\ (InTurn => queue' = <<>>)
    BY <1>0, <1>4, <2>1, PutInLineIs
  <2>3. Waiting' = rows
    BY <2>2 DEF Waiting
  <2>4. (\A i \in DOMAIN queue : Fits(queue[i]))'
    <3>1. \A i \in DOMAIN queue' : Strategy # "scd2"
      BY <2>2 DEF InTurn
    <3>2. \A i \in DOMAIN queue' : Fits(queue'[i])
      BY <1>4, <2>2, <3>1 DEF Fits
    <3> QED BY <1>0, <3>2, FitOn
  <2>5. TypeOK'
    <3>1. faults' \in 0..MaxFaults
      BY <1>4, ReadFaultType
    <3>2. (\A i \in DOMAIN queue : queue[i].how \in {"chunk", "delete"} => Len(queue[i].rows) <= MaxChunk)'
      BY <2>2
    <3>3. queue' \in Seq([how : Hows, rows : Seq(batch') \ {<<>>}]) /\ left' \in Seq(batch')
      BY <1>0, <2>2 DEF Statement
    <3> QED BY <1>0, <1>4, <3>1, <3>2, <3>3 DEF TypeOK, planFrame, tableVars
  <2>6. LineInv'
    BY <1>0, <1>4, <2>2, <2>4, SameBatch, SameConnection DEF LineInv
  <2>7. CountInv'
    BY <1>0, <1>4, <2>2, <2>3, SameConnection, LineOfNone DEF CountInv
  <2>8. BookInv'
    BY <1>0, <1>4, <2>3 DEF BookInv, ToCome, Plan
  <2> QED BY <1>1, <2>5, <2>6, <2>7, <2>8
<1>5. CASE /\ ~bulk /\ ~ViaStaging
           /\ \E unread \in IF InTurn \/ SkipsLog THEN {{}} ELSE UnreadSets(batch) :
                /\ ReadFault(unread)
                /\ IF InTurn THEN PutInLine(batch) /\ UNCHANGED verdict
                   ELSE /\ PutInLine(Pending(batch, unread))
                        /\ verdict' = Book(batch, unread)
           /\ phase' = "write" /\ UNCHANGED <<fatal, staged, runErrors>>
  <2>1. PICK unread \in {{}} \cup UnreadSets(batch) :
          /\ ReadFault(unread)
          /\ IF InTurn THEN PutInLine(batch) /\ UNCHANGED verdict
             ELSE /\ PutInLine(Pending(batch, unread))
                  /\ verdict' = Book(batch, unread)
    BY <1>5
  <2>2. batch \in SUBSET Rows /\ verdict \in [Rows -> {"none", "loaded", "skipped", "error"}]
    BY DEF TypeOK
  <2>3. CASE InTurn
    BY <1>0, <1>4, <1>5, <2>1, <2>2, <2>3
  <2>4. CASE ~InTurn
    <3> DEFINE rows == Pending(batch, unread)
    <3>1. /\ rows \in SUBSET batch /\ (~SkipsLog => rows \cap marked = {})
          /\ verdict' \in [Rows -> {"none", "loaded", "skipped", "error"}]
          /\ \A r \in Rows : IF r \in batch /\ r \notin rows
                               THEN verdict'[r] \in {"skipped", "error"}
                               ELSE verdict'[r] = verdict[r]
      BY <2>1, <2>2, <2>4, BookIs
    <3>2. \A r \in rows \cup (Rows \ batch) : verdict'[r] = "none"
      BY <1>0, <2>2, <3>1
    <3>3. \A r \in batch \ rows : verdict'[r] # "none"
      BY <2>2, <3>1
    <3>4. PutInLine(rows)
      BY <2>1, <2>4
    <3> HIDE DEF rows
    <3> QED BY <1>4, <1>5, <2>1, <3>1, <3>2, <3>3, <3>4
  <2> QED BY <2>3, <2>4
<1> QED
  <2>1. \/ phase' = "returned" /\ Abort /\ (NoFault \/ Fault) /\ UNCHANGED <<verdict, left, queue, staged>>
        \/ /\ bulk \/ ViaStaging
           /\ queue' = <<Stmt(IF ~ViaStaging THEN "copy" ELSE IF bulk THEN "stageCopy"
                              ELSE "stageInsert", Ordered(batch, AsSent(batch)))>>
           /\ phase' = "write" /\ staged' = (staged \/ ViaStaging)
           /\ NoFault /\ UNCHANGED <<verdict, fatal, left, runErrors>>
        \/ /\ ~bulk /\ ~ViaStaging
           /\ \E unread \in IF InTurn \/ SkipsLog THEN {{}} ELSE UnreadSets(batch) :
                /\ ReadFault(unread)
                /\ IF InTurn THEN PutInLine(batch) /\ UNCHANGED verdict
                   ELSE /\ PutInLine(Pending(batch, unread))
                        /\ verdict' = Book(batch, unread)
           /\ phase' = "write" /\ UNCHANGED <<fatal, staged, runErrors>>
    BY DEF Plan, Abort
  <2> QED BY <1>2, <1>3, <1>5, <2>1

(* The statements of one row, and those of a chunk.                        *)
LEMMA RowStatementsAre ==
  ASSUME Connects(conn), conn \in ConnectionType, InTurn, ~ViaStaging, NEW r \in batch
  PROVE  LET q == RowStatements(r)
         IN /\ q \in Seq(Statement) /\ Shape(q) /\ Apart(q) /\ RowsOf(q) = {r}
            /\ \A i \in DOMAIN q : /\ Fits(q[i]) /\ q[i].rows = <<r>>
                                   /\ q[i].how \in {"scd2", "delete", "single"}
            /\ q # <<>>
<1> DEFINE rs == <<r>>
           S(how) == Stmt(how, rs)
<1>1. rs \in Seq(batch) \ {<<>>} /\ ToSet(rs) = {r} /\ Distinct(rs) /\ Len(rs) = 1
  BY DEF Distinct, ToSet
<1>1a. RowStatements(r) = IF Strategy = "scd2" THEN <<S("scd2")>>
                          ELSE IF Strategy = "delete+insert" THEN <<S("delete"), S("single")>>
                          ELSE <<S("single")>>
  BY DEF RowStatements
<1> HIDE DEF rs
<1>2. \A how \in {"scd2", "delete", "single"} :
        S(how) \in Statement /\ S(how).rows = rs /\ S(how).how = how
  BY <1>1 DEF Stmt, Statement, Hows
<1>3. 1 <= MaxChunk
  BY TableAssumption
<1>4. CASE Strategy = "scd2"
  <2>1. Fits(S("scd2"))
    BY <1>1, <1>2, <1>4 DEF Fits, ViaStaging
  <2> HIDE DEF S
  <2>2. RowStatements(r) = <<S("scd2")>>
    BY <1>1a, <1>4
  <2> QED BY <1>1, <1>2, <2>1, <2>2, LineOfOne DEF rs
<1>5. CASE Strategy = "delete+insert"
  <2>1. conn.kind # "postgres"
    BY <1>5 DEF InTurn, Strategy
  <2>2. Fits(S("delete")) /\ Fits(S("single"))
    BY <1>1, <1>2, <1>3, <1>5, <2>1 DEF Fits
  <2> HIDE DEF S
  <2>3. RowStatements(r) = <<S("delete"), S("single")>>
    BY <1>1a, <1>5
  <2> QED BY <1>1, <1>2, <2>2, <2>3, LineOfDelete DEF rs
<1>6. CASE Strategy \notin {"scd2", "delete+insert"}
  <2>1. Fits(S("single"))
    BY <1>1, <1>2, <1>6 DEF Fits
  <2> HIDE DEF S
  <2>2. RowStatements(r) = <<S("single")>>
    BY <1>1a, <1>6
  <2> QED BY <1>1, <1>2, <2>1, <2>2, LineOfOne DEF rs
<1> QED BY <1>4, <1>5, <1>6

LEMMA ChunkStatementsAre ==
  ASSUME ~InTurn, ~ViaStaging,
         NEW rows \in Seq(batch) \ {<<>>}, Distinct(rows), Len(rows) <= MaxChunk
  PROVE  LET q == ChunkStatements(rows)
         IN /\ q \in Seq(Statement) /\ Shape(q) /\ Apart(q) /\ RowsOf(q) = ToSet(rows)
            /\ \A i \in DOMAIN q : /\ Fits(q[i]) /\ q[i].rows = rows
                                   /\ q[i].how \in {"delete", "chunk"}
            /\ q # <<>>
<1> DEFINE S(how) == Stmt(how, rows)
<1>1. ChunkStatements(rows) =
        IF conn.kind = "mysql" /\ Strategy = "delete+insert"
          THEN <<S("delete"), S("chunk")>> ELSE <<S("chunk")>>
  BY DEF ChunkStatements
<1>2. \A how \in {"delete", "chunk"} :
        S(how) \in Statement /\ S(how).rows = rows /\ S(how).how = how
  BY DEF Stmt, Statement, Hows
<1>3. Fits(S("chunk"))
  BY <1>2 DEF Fits, InTurn
<1>4. CASE conn.kind = "mysql" /\ Strategy = "delete+insert"
  <2>1. Fits(S("delete"))
    BY <1>2, <1>4 DEF Fits
  <2> HIDE DEF S
  <2> QED BY <1>1, <1>2, <1>3, <1>4, <2>1, LineOfDelete
<1>5. CASE ~(conn.kind = "mysql" /\ Strategy = "delete+insert")
  <2> HIDE DEF S
  <2> QED BY <1>1, <1>2, <1>3, <1>5, LineOfOne
<1> QED BY <1>4, <1>5

(* What becomes of the row whose turn it is: p is empty if it is not written. *)
TurnTaken(h, p) ==
  /\ h \in batch /\ h \in ToSet(left) /\ left' \in Seq(batch) /\ Distinct(left')
  /\ h = Head(left) /\ left' = Tail(left) /\ ToSet(left') = ToSet(left) \ {h}
  /\ {h} \in SUBSET Rows /\ batch \subseteq Rows /\ conn \in ConnectionType
  /\ verdict' \in [Rows -> {"none", "loaded", "skipped", "error"}]
  /\ p \in SUBSET {h} /\ (~SkipsLog => p \cap marked = {})
  /\ \A r \in Rows : IF r \in {h} /\ r \notin p THEN verdict'[r] \in {"skipped", "error"}
                     ELSE verdict'[r] = verdict[r]
  /\ queue' \in Seq(Statement) /\ Shape(queue') /\ Apart(queue') /\ RowsOf(queue') = p
  /\ \A i \in DOMAIN queue' : /\ Fits(queue'[i]) /\ queue'[i].how \in {"scd2", "delete", "single"}
                              /\ queue'[i].rows = <<h>>
  /\ Waiting' = (Waiting \ {h}) \cup p
  /\ faults' \in 0..MaxFaults
  /\ UNCHANGED <<phase, fatal, runErrors>>

LEMMA TakeTurnIs ==
  ASSUME IInv, TakeTurn
  PROVE  /\ phase = "write" /\ queue = <<>> /\ left # <<>> /\ InTurn /\ ~ViaStaging /\ ~fatal
         /\ Waiting = ToSet(left) /\ left \in Seq(batch) /\ Distinct(left)
         /\ UNCHANGED planFrame /\ UNCHANGED staged
         /\ UNCHANGED <<conn, runID, batch, bulk, staging, marked, loads, brought, given, unreported>>
         /\ \/ Abort /\ NoFault /\ UNCHANGED <<verdict, left, queue>>
            \/ \E h, p : TurnTaken(h, p)
<1> USE DEF IInv
<1>0. /\ phase = "write" /\ queue = <<>> /\ left # <<>> /\ InTurn /\ ~ViaStaging /\ ~fatal
      /\ Waiting = ToSet(left) /\ left \in Seq(batch) /\ Distinct(left)
      /\ UNCHANGED planFrame /\ UNCHANGED staged
      /\ UNCHANGED <<conn, runID, batch, bulk, staging, marked, loads, brought, given, unreported>>
  BY LineOfNone DEF TakeTurn, planFrame, tableVars, LineInv, CountInv, Waiting
<1>1. ASSUME NEW unread \in {{}} \cup UnreadSets({Head(left)}), ReadFault(unread),
             verdict' = Book({Head(left)}, unread),
             queue' = IF Pending({Head(left)}, unread) = {} THEN <<>>
                      ELSE RowStatements(Head(left)),
             left' = Tail(left), UNCHANGED <<phase, fatal, runErrors>>
      PROVE  \E h, p : TurnTaken(h, p)
  <2> DEFINE h == Head(left)
             p == Pending({h}, unread)
  <2>1. /\ h \in batch /\ h \in ToSet(left) /\ left' \in Seq(batch) /\ Distinct(left')
        /\ ToSet(left') = ToSet(left) \ {h}
    BY <1>0, <1>1, HeadOfLine
  <2>2. {h} \in SUBSET Rows /\ batch \subseteq Rows /\ conn \in ConnectionType
    BY <2>1, TableAssumption DEF TypeOK
  <2>3. /\ verdict' \in [Rows -> {"none", "loaded", "skipped", "error"}]
        /\ p \in SUBSET {h} /\ (~SkipsLog => p \cap marked = {})
        /\ \A r \in Rows : IF r \in {h} /\ r \notin p THEN verdict'[r] \in {"skipped", "error"}
                           ELSE verdict'[r] = verdict[r]
    <3>1. verdict' = Book({h}, unread)
      BY <1>1
    <3>2. TypeOK
      OBVIOUS
    <3> HIDE DEF IInv, h
    <3>3. /\ Book({h}, unread) \in [Rows -> {"none", "loaded", "skipped", "error"}]
          /\ Pending({h}, unread) \in SUBSET {h}
          /\ ~SkipsLog => Pending({h}, unread) \cap marked = {}
          /\ \A r \in Rows :
               IF r \in {h} /\ r \notin Pending({h}, unread)
                 THEN Book({h}, unread)[r] \in {"skipped", "error"}
                 ELSE Book({h}, unread)[r] = verdict[r]
      BY <2>2, <3>2, BookIs
    <3> QED BY <3>1, <3>3
  <2>4. /\ queue' \in Seq(Statement) /\ Shape(queue') /\ Apart(queue') /\ RowsOf(queue') = p
        /\ \A i \in DOMAIN queue' : /\ Fits(queue'[i]) /\ queue'[i].how \in {"scd2", "delete", "single"}
                                    /\ queue'[i].rows = <<h>>
    <3>1. CASE p = {}
      <4>1. queue' = <<>> /\ DOMAIN <<>> = {}
        BY <1>1, <3>1
      <4>2. DOMAIN queue' = {}
        BY <4>1
      <4> QED BY <3>1, <4>1, <4>2, LineOfNone
    <3>2. CASE p # {}
      <4>1. queue' = RowStatements(h)
        BY <1>1, <3>2
      <4> HIDE DEF h, p
      <4>2. p = {h}
        BY <2>3, <3>2
      <4> QED BY <1>0, <2>1, <2>2, <4>1, <4>2, RowStatementsAre
    <3> QED BY <3>1, <3>2
  <2>5. h = Head(left)
    OBVIOUS
  <2> HIDE DEF h, p
  <2>6. Waiting' = (Waiting \ {h}) \cup p
    BY <1>0, <2>1, <2>4 DEF Waiting
  <2>7. faults' \in 0..MaxFaults
    BY <1>1, ReadFaultType
  <2>8. TurnTaken(h, p)
    BY <1>1, <2>1, <2>2, <2>3, <2>4, <2>5, <2>6, <2>7 DEF TurnTaken
  <2> QED BY <2>8
<1>2. \/ Abort /\ NoFault /\ UNCHANGED <<verdict, left, queue>>
      \/ \E unread \in {{}} \cup UnreadSets({Head(left)}) :
           /\ ReadFault(unread)
           /\ verdict' = Book({Head(left)}, unread)
           /\ queue' = IF Pending({Head(left)}, unread) = {} THEN <<>>
                       ELSE RowStatements(Head(left))
           /\ left' = Tail(left) /\ UNCHANGED <<phase, fatal, runErrors>>
  BY DEF TakeTurn
<1> QED BY <1>0, <1>1, <1>2

LEMMA TakeTurnStep == ASSUME IInv, TakeTurn PROVE IInv'
<1> USE DEF IInv
<1>0. /\ phase = "write" /\ queue = <<>> /\ left # <<>> /\ InTurn /\ ~ViaStaging /\ ~fatal
      /\ Waiting = ToSet(left) /\ left \in Seq(batch) /\ Distinct(left)
      /\ UNCHANGED planFrame /\ UNCHANGED staged
      /\ UNCHANGED <<conn, runID, batch, bulk, staging, marked, loads, brought, given, unreported>>
  BY TakeTurnIs
<1>1. Connects(conn)' /\ (runID <= loads + 1)'
  BY <1>0, SameConnection
<1>2. CASE Abort /\ NoFault /\ UNCHANGED <<verdict, left, queue>>
  <2>1. TypeOK'
    <3>1. faults' \in 0..MaxFaults
      BY <1>2, FaultType
    <3> QED BY <1>0, <1>2, <3>1 DEF TypeOK, Abort, planFrame, tableVars
  <2>2. LineInv' /\ Waiting' = Waiting
    BY <1>0, <1>2, SameLine DEF Abort
  <2>3. CountInv'
    BY <1>0, <1>2, <2>2, SameConnection, LineOfNone DEF CountInv, Abort
  <2>4. BookInv'
    BY <1>0, <1>2 DEF BookInv, ToCome, Abort
  <2> QED BY <1>1, <2>1, <2>2, <2>3, <2>4
<1>3. ASSUME NEW h, NEW p, TurnTaken(h, p) PROVE IInv'
  <2>1. /\ h \in batch /\ h \in ToSet(left) /\ left' \in Seq(batch) /\ Distinct(left')
        /\ ToSet(left') = ToSet(left) \ {h}
    BY <1>3 DEF TurnTaken
  <2>2. {h} \in SUBSET Rows /\ batch \subseteq Rows /\ conn \in ConnectionType
    BY <1>3 DEF TurnTaken
  <2>3. /\ verdict' \in [Rows -> {"none", "loaded", "skipped", "error"}]
        /\ p \in SUBSET {h} /\ (~SkipsLog => p \cap marked = {})
        /\ \A r \in Rows : IF r \in {h} /\ r \notin p THEN verdict'[r] \in {"skipped", "error"}
                           ELSE verdict'[r] = verdict[r]
    BY <1>3 DEF TurnTaken
  <2>4. /\ queue' \in Seq(Statement) /\ Shape(queue') /\ Apart(queue') /\ RowsOf(queue') = p
        /\ \A i \in DOMAIN queue' : /\ Fits(queue'[i]) /\ queue'[i].how \in {"scd2", "delete", "single"}
                                    /\ queue'[i].rows = <<h>>
    BY <1>3 DEF TurnTaken
  <2>4a. UNCHANGED <<phase, fatal, runErrors>>
    BY <1>3 DEF TurnTaken
  <2>5. (\A i \in DOMAIN queue : Fits(queue[i]))' /\ Statement' = Statement
    BY <1>0, <2>4, FitOn, SameBatch
  <2>6. TypeOK'
    <3>1. faults' \in 0..MaxFaults /\ runErrors' = runErrors
      BY <1>3 DEF TurnTaken
    <3>2. (\A i \in DOMAIN queue : queue[i].how \in {"chunk", "delete"} => Len(queue[i].rows) <= MaxChunk)'
      BY <2>4 DEF Fits
    <3>3. queue' \in Seq([how : Hows, rows : Seq(batch') \ {<<>>}]) /\ left' \in Seq(batch')
      BY <1>0, <2>1, <2>4 DEF Statement
    <3> QED BY <1>0, <2>4a, <2>3, <3>1, <3>2, <3>3 DEF TypeOK, planFrame, tableVars
  <2>7. LineInv'
    <3>1. ToSet(left') \cap RowsOf(queue') = {}
      BY <2>1, <2>3, <2>4
    <3>2. \A i \in DOMAIN queue' : queue'[i].how # "copy"
      BY <2>4
    <3>3. phase' = "write" /\ ~ViaStaging'
      BY <1>0, <2>4a, SameConnection
    <3>4. bulk' => conn'.kind = "postgres" /\ SkipsLog'
      BY <1>0, SameConnection DEF LineInv
    <3> QED BY <1>0, <2>1, <2>4, <2>5, <3>1, <3>2, <3>3, <3>4 DEF LineInv
  <2>8. Waiting' = (Waiting \ {h}) \cup p
    BY <1>3 DEF TurnTaken
  <2>9. CountInv'
    <3>1. \A r \in Waiting \cup (Rows \ batch) : verdict[r] = "none"
      BY DEF CountInv
    <3>2. \A r \in Waiting' \cup (Rows \ batch) : verdict'[r] = "none"
      <4>1. h \in Waiting /\ Waiting \subseteq batch
        BY <1>0, <2>1 DEF ToSet
      <4>2. \A r \in Waiting' \cup (Rows \ batch) :
              r \in Waiting \cup (Rows \ batch) /\ r \in Rows /\ (r = h => r \in p)
        BY <2>1, <2>2, <2>3, <2>8, <4>1
      <4> QED BY <2>3, <3>1, <4>2
    <3>3. \A r \in batch : verdict'[r] = "none" => r \in Waiting' \cup unreported
      <4>1. \A r \in batch : verdict[r] = "none" => r \in Waiting \cup unreported
        BY <1>0 DEF CountInv
      <4> QED BY <2>2, <2>3, <2>8, <4>1
    <3>4. ~SkipsLog => RowsOf(queue') \cap marked = {}
      BY <2>3, <2>4
    <3>5. \A i \in DOMAIN queue' : queue'[i].how # "copy"
      BY <2>4
    <3>6. /\ phase' = "write" /\ fatal' = fatal /\ batch # {} /\ ViaStaging' = ViaStaging
          /\ InTurn' /\ SkipsLog' = SkipsLog
      BY <1>0, <2>4a, SameConnection DEF CountInv
    <3> QED BY <1>0, <3>2, <3>3, <3>4, <3>5, <3>6 DEF CountInv
  <2>10. BookInv'
    <3>1. ToCome = Waiting /\ ToCome' \subseteq Waiting
      BY <1>0, <2>4a, <2>1, <2>3, <2>8 DEF ToCome
    <3> QED BY <1>0, <3>1 DEF BookInv
  <2> QED BY <1>1, <2>6, <2>7, <2>9, <2>10
<1> QED BY <1>2, <1>3, TakeTurnIs

(* The chunk a that leaves the line.                                        *)
ChunkTaken(a) ==
  /\ a \in Seq(batch) \ {<<>>} /\ left' \in Seq(batch)
  /\ Distinct(a) /\ Distinct(left')
  /\ ToSet(a) \cup ToSet(left') = ToSet(left) /\ ToSet(a) \cap ToSet(left') = {}
  /\ \A i \in DOMAIN a : i \in DOMAIN left /\ i <= Len(a) /\ a[i] = left[i]
  /\ \A i \in DOMAIN left' : i + Len(a) \in DOMAIN left /\ left'[i] = left[i + Len(a)]
  /\ queue' = ChunkStatements(a)
  /\ queue' \in Seq(Statement) /\ Shape(queue') /\ Apart(queue') /\ RowsOf(queue') = ToSet(a)
  /\ \A i \in DOMAIN queue' : /\ Fits(queue'[i]) /\ queue'[i].how \in {"delete", "chunk"}
                              /\ queue'[i].rows = a
  /\ Waiting' = Waiting

LEMMA TakeChunkIs ==
  ASSUME IInv, TakeChunk
  PROVE  /\ phase = "write" /\ queue = <<>> /\ left # <<>> /\ ~InTurn /\ ~ViaStaging /\ ~fatal
         /\ Waiting = ToSet(left) /\ left \in Seq(batch) /\ Distinct(left)
         /\ UNCHANGED planFrame /\ UNCHANGED <<verdict, phase, fatal, staged, faults, runErrors>>
         /\ UNCHANGED <<conn, runID, batch, bulk, staging, marked, loads, brought, given, unreported>>
         /\ \E a : ChunkTaken(a)
<1> USE DEF IInv
<1>0. /\ phase = "write" /\ queue = <<>> /\ left # <<>> /\ ~InTurn /\ ~ViaStaging /\ ~fatal
      /\ Waiting = ToSet(left) /\ left \in Seq(batch) /\ Distinct(left)
      /\ UNCHANGED planFrame /\ UNCHANGED <<verdict, phase, fatal, staged, faults, runErrors>>
      /\ UNCHANGED <<conn, runID, batch, bulk, staging, marked, loads, brought, given, unreported>>
  BY LineOfNone DEF TakeChunk, planFrame, tableVars, LineInv, CountInv, Waiting
<1> DEFINE n == NextChunk(left)
           a == SubSeq(left, 1, n)
<1>2. n \in 1..Len(left) /\ n <= MaxChunk
  BY <1>0, NextChunkIs
<1>3. queue' = ChunkStatements(a) /\ left' = SubSeq(left, n + 1, Len(left))
  BY DEF TakeChunk
<1> HIDE DEF n
<1>4. /\ a \in Seq(batch) \ {<<>>} /\ Len(a) = n /\ left' \in Seq(batch)
      /\ Distinct(a) /\ Distinct(left')
      /\ ToSet(a) \cup ToSet(left') = ToSet(left) /\ ToSet(a) \cap ToSet(left') = {}
      /\ \A i \in DOMAIN a : i \in DOMAIN left /\ i <= n /\ a[i] = left[i]
      /\ \A i \in DOMAIN left' : i + n \in DOMAIN left /\ left'[i] = left[i + n]
  <2> DEFINE b == SubSeq(left, n + 1, Len(left))
  <2>1. /\ a \in Seq(batch) \ {<<>>} /\ Len(a) = n /\ b \in Seq(batch)
        /\ Distinct(a) /\ Distinct(b)
        /\ ToSet(a) \cup ToSet(b) = ToSet(left) /\ ToSet(a) \cap ToSet(b) = {}
        /\ \A i \in DOMAIN a : i \in DOMAIN left /\ i <= n /\ a[i] = left[i]
        /\ \A i \in DOMAIN b : i + n \in DOMAIN left /\ b[i] = left[i + n]
    BY <1>0, <1>2, CutInTwo
  <2>2. left' = b
    BY <1>3
  <2> HIDE DEF a, b
  <2> QED BY <2>1, <2>2
<1> HIDE DEF a
<1>4a. /\ \A i \in DOMAIN a : i \in DOMAIN left /\ i <= Len(a) /\ a[i] = left[i]
       /\ \A i \in DOMAIN left' : i + Len(a) \in DOMAIN left /\ left'[i] = left[i + Len(a)]
  BY <1>4
<1>5. /\ queue' \in Seq(Statement) /\ Shape(queue') /\ Apart(queue') /\ RowsOf(queue') = ToSet(a)
      /\ \A i \in DOMAIN queue' : /\ Fits(queue'[i]) /\ queue'[i].how \in {"delete", "chunk"}
                                  /\ queue'[i].rows = a
  BY <1>0, <1>2, <1>3, <1>4, ChunkStatementsAre
<1>6. queue' = ChunkStatements(a)
  BY <1>3
<1>7. Waiting' = Waiting
  BY <1>0, <1>4, <1>5 DEF Waiting
<1>8. ChunkTaken(a)
  BY <1>4, <1>4a, <1>5, <1>6, <1>7 DEF ChunkTaken
<1> QED BY <1>0, <1>8

LEMMA TakeChunkStep == ASSUME IInv, TakeChunk PROVE IInv'
<1> USE DEF IInv
<1>0. /\ phase = "write" /\ queue = <<>> /\ left # <<>> /\ ~InTurn /\ ~ViaStaging /\ ~fatal
      /\ Waiting = ToSet(left) /\ left \in Seq(batch) /\ Distinct(left)
      /\ UNCHANGED planFrame /\ UNCHANGED <<verdict, phase, fatal, staged, faults, runErrors>>
      /\ UNCHANGED <<conn, runID, batch, bulk, staging, marked, loads, brought, given, unreported>>
  BY TakeChunkIs
<1>1. Connects(conn)' /\ (runID <= loads + 1)'
  BY <1>0, SameConnection
<1>2. PICK a : ChunkTaken(a)
  BY TakeChunkIs
<1>4. /\ a \in Seq(batch) \ {<<>>} /\ left' \in Seq(batch)
      /\ Distinct(a) /\ Distinct(left')
      /\ ToSet(a) \cup ToSet(left') = ToSet(left) /\ ToSet(a) \cap ToSet(left') = {}
  BY <1>2 DEF ChunkTaken
<1>5. /\ queue' \in Seq(Statement) /\ Shape(queue') /\ Apart(queue') /\ RowsOf(queue') = ToSet(a)
      /\ \A i \in DOMAIN queue' : Fits(queue'[i]) /\ queue'[i].how \in {"delete", "chunk"}
  BY <1>2 DEF ChunkTaken
<1>6. (\A i \in DOMAIN queue : Fits(queue[i]))' /\ Statement' = Statement
  BY <1>0, <1>5, FitOn, SameBatch
<1>7. Waiting' = Waiting
  BY <1>2 DEF ChunkTaken
<1>8. TypeOK'
  <2>2. (\A i \in DOMAIN queue : queue[i].how \in {"chunk", "delete"} => Len(queue[i].rows) <= MaxChunk)'
    BY <1>5 DEF Fits
  <2>3. queue' \in Seq([how : Hows, rows : Seq(batch') \ {<<>>}]) /\ left' \in Seq(batch')
    BY <1>0, <1>4, <1>5 DEF Statement
  <2> QED BY <1>0, <2>2, <2>3 DEF TypeOK, planFrame, tableVars
<1>9. LineInv'
  <2>1. ToSet(left') \cap RowsOf(queue') = {} /\ \A i \in DOMAIN queue' : queue'[i].how # "copy"
    BY <1>4, <1>5
  <2>2. phase' = "write" /\ ~ViaStaging'
    BY <1>0, SameConnection
  <2>3. bulk' => conn'.kind = "postgres" /\ SkipsLog'
    BY <1>0, SameConnection DEF LineInv
  <2> QED BY <1>0, <1>4, <1>5, <1>6, <2>1, <2>2, <2>3 DEF LineInv
<1>10. CountInv'
  <2>1. ~SkipsLog => (RowsOf(queue') \cup ToSet(left')) \cap marked = {}
    BY <1>0, <1>4, <1>5 DEF CountInv
  <2>2. \A i \in DOMAIN queue' : queue'[i].how # "copy"
    BY <1>5
  <2> QED BY <1>0, <1>7, <2>1, <2>2, SameConnection DEF CountInv
<1>11. BookInv'
  BY <1>0, <1>7 DEF BookInv, ToCome
<1> QED BY <1>1, <1>8, <1>9, <1>10, <1>11

------------------------------------------------------------------------------
\* Execute

(* The statement at the head ends, and has taken effect or not.             *)
Ran(end, landed) ==
  LET s == Head(queue) IN
  /\ end = "ok" => landed /\ ~Refused(s)
  /\ Refused(s) => end = "error" \/ ctxDone
  /\ landed => ~Refused(s) /\ end \in {"ok", "error", "cancelled"}
  /\ end = "cancelled" => ctxDone
  /\ IF OnEnd(s.how, end) = "loaded" THEN Loaded(s) ELSE NotLoaded(s, OnEnd(s.how, end))
  /\ OnEnd(s.how, end) # "loaded" => (NoFault \/ Fault)
  /\ IF landed THEN Effect(s) ELSE UNCHANGED tableVars
  /\ written' = IF landed /\ s.how # "delete" THEN written \cup ToSet(s.rows) ELSE written
  /\ ambiguous' = IF landed /\ end # "ok" THEN ambiguous \cup ToSet(s.rows) ELSE ambiguous

LEMMA ExecuteRuns ==
  ASSUME Execute
  PROVE  /\ phase = "write" /\ queue # <<>>
         /\ UNCHANGED <<conn, runID, ctxDone, batch, staged, truncated, loads, brought, had>>
         /\ \E end \in Ends, landed \in BOOLEAN : Ran(end, landed)
<1>1. phase = "write" /\ queue # <<>>
      /\ UNCHANGED <<conn, runID, ctxDone, batch, staged, truncated, loads, brought, had>>
  BY DEF Execute
<1> DEFINE s == Head(queue)
<1>2. PICK end \in Ends, landed \in BOOLEAN :
       /\ end = "ok" => landed /\ ~Refused(s)
       /\ Refused(s) => end = "error" \/ ctxDone
       /\ landed => ~Refused(s) /\ end \in {"ok", "error", "cancelled"}
       /\ end = "cancelled" => ctxDone
       /\ IF OnEnd(s.how, end) = "loaded" THEN Loaded(s) ELSE NotLoaded(s, OnEnd(s.how, end))
       /\ OnEnd(s.how, end) # "loaded" =>
            IF end = "ok" \/ ctxDone \/ Refused(s) THEN NoFault ELSE Fault
       /\ IF landed THEN Effect(s) ELSE UNCHANGED tableVars
       /\ written' = IF landed /\ s.how # "delete" THEN written \cup ToSet(s.rows) ELSE written
       /\ ambiguous' = IF landed /\ end # "ok" THEN ambiguous \cup ToSet(s.rows) ELSE ambiguous
  BY DEF Execute
<1>3. Ran(end, landed)
  BY <1>2 DEF Ran
<1> QED BY <1>1, <1>3

Whats == {"loaded", "next", "rowErrors", "unreported", "singles", "stageInsert",
          "insertBatch", "fatal"}

LEMMA EndsAre ==
  ASSUME conn \in ConnectionType, Connects(conn), NEW s \in Statement, Fits(s), NEW end \in Ends
  PROVE  LET what == OnEnd(s.how, end)
         IN /\ what \in Whats
            /\ what = "next" <=> s.how = "delete" /\ end = "ok"
            /\ what = "loaded" <=> s.how # "delete" /\ end = "ok"
            /\ what = "singles" => s.how = "chunk"
            /\ what = "stageInsert" => s.how = "stageCopy"
            /\ what = "insertBatch" => s.how = "copy"
            /\ what = "unreported" => s.how \in {"chunk", "single"}
<1>1. s.how \in Hows /\ conn.kind \in Kinds
  BY DEF Statement, ConnectionType
<1>2. CASE end = "ok"
  BY <1>2 DEF OnEnd, Whats
<1>3. ASSUME end # "ok"
      PROVE  LET what == OnFailure(s.how, end)
             IN /\ what \in Whats \ {"next", "loaded"}
                /\ what = "singles" => s.how = "chunk"
                /\ what = "stageInsert" => s.how = "stageCopy"
                /\ what = "insertBatch" => s.how = "copy"
                /\ what = "unreported" => s.how \in {"chunk", "single"}
  <2>1. CASE conn.kind = "postgres"
    <3>1. OnFailure(s.how, end) = OnPostgres(s.how, end) /\ s.how # "delete"
      BY <2>1 DEF OnFailure, Fits
    <3>2. IfInterrupted(end, "rowErrors") \in {"fatal", "unreported", "rowErrors"}
          /\ IfInterrupted(end, "singles") \in {"fatal", "unreported", "singles"}
          /\ IfInterrupted(end, "fatal") \in {"fatal", "unreported"}
      BY DEF IfInterrupted
    <3> QED BY <1>1, <3>1, <3>2 DEF OnPostgres, Whats, Hows
  <2>2. CASE conn.kind = "mysql"
    <3>1. OnFailure(s.how, end) = OnMySQL(s.how, end)
      BY <2>2 DEF OnFailure
    <3>2. s.how \in {"delete", "single", "chunk"}
      BY <1>1, <2>2 DEF Fits, Hows, ViaStaging, Connects, MySQLConnects, Strategy
    <3>3. IfInterrupted(end, "singles") \in {"fatal", "unreported", "singles"}
      BY DEF IfInterrupted
    <3> QED BY <3>1, <3>2, <3>3 DEF OnMySQL, Whats
  <2>3. CASE conn.kind = "snowflake"
    BY <2>3 DEF OnFailure, OnSnowflake, Whats
  <2> QED BY <1>1, <2>1, <2>2, <2>3 DEF Kinds
<1> QED BY <1>2, <1>3 DEF OnEnd

(* The line after a statement has ended.                                    *)
LEMMA LineAfter ==
  ASSUME IInv, phase = "write", queue # <<>>, NEW end \in Ends, NEW landed \in BOOLEAN,
         Ran(end, landed)
  PROVE  LET s == Head(queue)
             what == OnEnd(s.how, end)
         IN /\ s \in Statement /\ Fits(s) /\ Distinct(s.rows) /\ ToSet(s.rows) \subseteq RowsOf(queue)
            /\ s = queue[1] /\ 1 \in DOMAIN queue
            /\ what \in Whats
            /\ what = "next" <=> s.how = "delete" /\ end = "ok"
            /\ what = "loaded" <=> s.how # "delete" /\ end = "ok"
            /\ what = "singles" => s.how = "chunk" /\ queue' = Singles(s.rows)
            /\ what = "stageInsert" =>
                 s.how = "stageCopy" /\ queue' = <<Stmt("stageInsert", s.rows)>>
            /\ what = "insertBatch" => s.how = "copy" /\ queue' = <<>>
            /\ what = "unreported" => s.how \in {"chunk", "single"}
            /\ what = "next" => queue' = Tail(queue)
            /\ what \in {"loaded", "rowErrors", "unreported", "fatal"} =>
                 queue' = IF s.how = "delete" THEN <<>> ELSE Tail(queue)
            /\ s.how # "delete" => RowsOf(Tail(queue)) = RowsOf(queue) \ ToSet(s.rows)
            /\ s.how = "delete" => RowsOf(Tail(queue)) = RowsOf(queue) /\ RowsOf(queue) = ToSet(s.rows)
            /\ s.how \notin {"delete", "single"} => Tail(queue) = <<>>
            /\ Tail(queue) \in Seq(Statement) /\ Shape(Tail(queue)) /\ Apart(Tail(queue))
            /\ \A i \in DOMAIN Tail(queue) : i + 1 \in DOMAIN queue /\ Tail(queue)[i] = queue[i + 1]
            /\ left' = left
<1> DEFINE s == Head(queue)
           what == OnEnd(s.how, end)
<1>1. queue \in Seq(Statement) /\ Shape(queue) /\ Apart(queue) /\ \A i \in DOMAIN queue : Fits(queue[i])
  BY DEF IInv, LineInv
<1>2. /\ s = queue[1] /\ s \in Statement /\ 1 \in DOMAIN queue /\ Distinct(s.rows)
      /\ ToSet(s.rows) \subseteq RowsOf(queue)
      /\ Tail(queue) \in Seq(Statement) /\ Shape(Tail(queue)) /\ Apart(Tail(queue))
      /\ s.how # "delete" => RowsOf(Tail(queue)) = RowsOf(queue) \ ToSet(s.rows)
      /\ s.how \notin {"single", "delete"} => Tail(queue) = <<>>
      /\ s.how = "delete" =>
           /\ RowsOf(Tail(queue)) = RowsOf(queue) /\ RowsOf(queue) = ToSet(s.rows)
           /\ Tail(Tail(queue)) = <<>>
      /\ \A i \in DOMAIN Tail(queue) : i + 1 \in DOMAIN queue /\ Tail(queue)[i] = queue[i + 1]
  <2>1. Head(queue) = queue[1]
    BY <1>1, LineGoesOn
  <2> QED BY <1>1, <2>1, LineGoesOn
<1>3. Fits(s)
  BY <1>1, <1>2
<1>4. /\ what \in Whats
      /\ what = "next" <=> s.how = "delete" /\ end = "ok"
      /\ what = "loaded" <=> s.how # "delete" /\ end = "ok"
      /\ what = "singles" => s.how = "chunk"
      /\ what = "stageInsert" => s.how = "stageCopy"
      /\ what = "insertBatch" => s.how = "copy"
      /\ what = "unreported" => s.how \in {"chunk", "single"}
  <2>1. conn \in ConnectionType /\ Connects(conn)
    BY TableAssumption DEF IInv, TypeOK
  <2> QED BY <1>2, <1>3, <2>1, EndsAre
<1>5. /\ what = "loaded" => Loaded(s)
      /\ what # "loaded" => NotLoaded(s, what)
  BY DEF Ran
<1> HIDE DEF s, what
<1>6. left' = left
  BY <1>5 DEF Loaded, NotLoaded
<1>7. ASSUME what = "singles" PROVE queue' = Singles(s.rows)
  <2>1. queue' = Singles(s.rows) \o Tail(queue) /\ Tail(queue) = <<>>
    BY <1>2, <1>4, <1>5, <1>7 DEF NotLoaded
  <2>2. s.rows \in Seq(batch)
    BY <1>2 DEF Statement
  <2>3. Singles(s.rows) \in Seq([how : {"single"}, rows : Seq(batch)])
    <3>1. \A i \in DOMAIN s.rows : Stmt("single", <<s.rows[i]>>) \in [how : {"single"}, rows : Seq(batch)]
      BY <2>2 DEF Stmt
    <3>2. DOMAIN s.rows = 1..Len(s.rows) /\ Len(s.rows) \in Nat
      BY <2>2
    <3> QED BY <3>1, <3>2 DEF Singles
  <2> QED BY <2>1, <2>3, ConcatEmptySeq
<1>8. ASSUME what = "stageInsert" PROVE queue' = <<Stmt("stageInsert", s.rows)>>
  BY <1>5, <1>8 DEF NotLoaded
<1>9. ASSUME what = "insertBatch" PROVE queue' = <<>>
  BY <1>5, <1>9 DEF NotLoaded
<1>10. ASSUME what = "next" PROVE queue' = Tail(queue)
  BY <1>5, <1>10 DEF NotLoaded
<1>11. ASSUME what \in {"rowErrors", "unreported", "fatal"}
       PROVE  queue' = IF s.how = "delete" THEN <<>> ELSE Tail(queue)
  <2>1. queue' = Rest(s)
    BY <1>5, <1>11 DEF NotLoaded
  <2> QED BY <1>2, <2>1 DEF Rest
<1>12. ASSUME what = "loaded" PROVE queue' = Tail(queue) /\ s.how # "delete"
  BY <1>4, <1>5, <1>12 DEF Loaded
<1> QED BY <1>2, <1>3, <1>4, <1>6, <1>7, <1>8, <1>9, <1>10, <1>11, <1>12 DEF s, what

LEMMA EffectIs ==
  ASSUME TypeOK, MaxCopies > 0, NEW s \in Statement, Effect(s)
  PROVE  /\ s.how = "scd2" => Scd2(s.rows[1]) /\ UNCHANGED staging
         /\ s.how \in {"stageCopy", "stageInsert"} =>
              staging' = Inserted(staging, s.rows) /\ UNCHANGED <<table, current>>
         /\ s.how = "delete" =>
              table' = WithoutKeys(table, Keys(ToSet(s.rows))) /\ UNCHANGED <<current, staging>>
         /\ s.how \in {"copy", "chunk", "single"} =>
              /\ table' = IF Inserts(s.how) THEN Inserted(table, s.rows) ELSE Upserted(table, s.rows)
              /\ UNCHANGED <<current, staging>>
         /\ table' \in [Rows -> 0..MaxCopies] /\ staging' \in [Rows -> 0..MaxCopies]
         /\ current' \subseteq Rows
<1>0. /\ table \in [Rows -> 0..MaxCopies] /\ staging \in [Rows -> 0..MaxCopies] /\ current \subseteq Rows
      /\ batch \subseteq Rows /\ s.how \in Hows
  BY DEF TypeOK, Statement
<1>1. CASE s.how = "scd2"
  <2>1. Scd2(s.rows[1]) /\ UNCHANGED staging
    BY <1>1 DEF Effect
  <2>2. s.rows[1] \in Rows
    <3>1. s.rows \in Seq(batch) /\ s.rows # <<>>
      BY DEF Statement
    <3> QED BY <1>0, <3>1, EmptySeq
  <2>3. table' \in [Rows -> 0..MaxCopies] /\ current' \subseteq Rows
    BY <1>0, <2>1, <2>2, Counts DEF Scd2
  <2> QED BY <1>0, <1>1, <2>1, <2>3
<1>2. CASE s.how \in {"stageCopy", "stageInsert"}
  <2>1. staging' = Inserted(staging, s.rows) /\ UNCHANGED <<table, current>>
    BY <1>2 DEF Effect
  <2> QED BY <1>0, <1>2, <2>1, Tables
<1>3. CASE s.how = "delete"
  <2>1. table' = WithoutKeys(table, Keys(ToSet(s.rows))) /\ UNCHANGED <<current, staging>>
    BY <1>3 DEF Effect
  <2> QED BY <1>0, <1>3, <2>1, Tables
<1>4. CASE s.how \in {"copy", "chunk", "single"}
  <2>1. /\ table' = IF Inserts(s.how) THEN Inserted(table, s.rows) ELSE Upserted(table, s.rows)
        /\ UNCHANGED <<current, staging>>
    BY <1>4 DEF Effect
  <2> QED BY <1>0, <1>4, <2>1, Tables
<1> QED BY <1>0, <1>1, <1>2, <1>3, <1>4 DEF Hows

(* What the end of a statement does to the rows' verdicts and to the log.    *)
LEMMA VerdictsAfter ==
  ASSUME TypeOK, NEW end \in Ends, NEW landed \in BOOLEAN, Ran(end, landed),
         NEW s, s = Head(queue), ToSet(s.rows) \subseteq Rows,
         NEW what \in Whats, what = OnEnd(s.how, end)
  PROVE  /\ verdict' \in [Rows -> {"none", "loaded", "skipped", "error"}]
         /\ \A r \in Rows \ ToSet(s.rows) : verdict'[r] = verdict[r]
         /\ what \in {"loaded", "rowErrors"} =>
              \A r \in ToSet(s.rows) : verdict'[r] \in {"loaded", "error"}
         /\ what = "rowErrors" => \A r \in ToSet(s.rows) : verdict'[r] = "error"
         /\ what \notin {"loaded", "rowErrors"} => verdict' = verdict
         /\ unreported' = IF what = "unreported" THEN unreported \cup ToSet(s.rows) ELSE unreported
         /\ marked \subseteq marked' /\ marked' \subseteq marked \cup ToSet(s.rows)
         /\ what # "loaded" => UNCHANGED <<marked, given>>
         /\ what = "loaded" =>
              /\ marked' = marked \cup (IF Marks(s.how) THEN {r \in ToSet(s.rows) : verdict'[r] = "loaded"}
                                        ELSE {})
              /\ given' = [r \in Rows |-> IF r \in ToSet(s.rows) /\ verdict'[r] = "loaded"
                                          THEN given[r] + 1 ELSE given[r]]
         /\ what \notin {"fatal", "insertBatch"} => UNCHANGED <<phase, fatal, runErrors>>
         /\ what = "fatal" => Abort
         /\ what = "insertBatch" =>
              /\ phase' = IF TruncatesFirst THEN "truncate" ELSE "plan"
              /\ UNCHANGED <<fatal, runErrors>>
         /\ bulk' = (bulk /\ what # "insertBatch")
         /\ faults' \in 0..MaxFaults
<1> DEFINE R == ToSet(s.rows)
<1>0. verdict \in [Rows -> {"none", "loaded", "skipped", "error"}] /\ bulk \in BOOLEAN /\ R \subseteq Rows
  BY DEF TypeOK
<1>1. CASE what = "loaded"
  <2>0. Loaded(s)
    BY <1>1 DEF Ran
  <2>1. PICK unmarked \in UnmarkedSets(s) :
         /\ ReadFault(unmarked)
         /\ marked' = IF Marks(s.how) THEN marked \cup (R \ unmarked) ELSE marked
         /\ verdict' = [r \in Rows |-> IF r \notin R THEN verdict[r]
                                       ELSE IF r \in unmarked THEN "error" ELSE "loaded"]
         /\ given' = [r \in Rows |-> IF r \in R \ unmarked THEN given[r] + 1 ELSE given[r]]
    BY <2>0 DEF Loaded
  <2>2. UNCHANGED <<phase, fatal, bulk, unreported, runErrors>>
    BY <2>0 DEF Loaded
  <2>3. \A r \in R : verdict'[r] = IF r \in unmarked THEN "error" ELSE "loaded"
    BY <1>0, <2>1
  <2>4. \A r \in Rows \ R : verdict'[r] = verdict[r]
    BY <2>1
  <2>5. {r \in R : verdict'[r] = "loaded"} = R \ unmarked
    BY <2>3
  <2>6. marked' = marked \cup (IF Marks(s.how) THEN {r \in R : verdict'[r] = "loaded"} ELSE {})
    BY <2>1, <2>5
  <2>7. given' = [r \in Rows |-> IF r \in R /\ verdict'[r] = "loaded"
                                 THEN given[r] + 1 ELSE given[r]]
    BY <2>1, <2>3
  <2>8. faults' \in 0..MaxFaults
    <3>1. faults \in 0..MaxFaults
      BY DEF TypeOK
    <3>2. unmarked # {} /\ ~ctxDone => faults < MaxFaults
      BY DEF UnmarkedSets
    <3> QED BY <2>1, <3>1, <3>2, Counts DEF ReadFault
  <2>9. verdict' \in [Rows -> {"none", "loaded", "skipped", "error"}]
    BY <1>0, <2>1
  <2> HIDE DEF R
  <2>10. \A r \in R : verdict'[r] \in {"loaded", "error"}
    BY <2>3
  <2>11. marked \subseteq marked' /\ marked' \subseteq marked \cup R
    BY <2>6
  <2>12. bulk' = (bulk /\ what # "insertBatch")
    BY <1>0, <1>1, <2>2
  <2> QED BY <1>1, <2>2, <2>4, <2>6, <2>7, <2>8, <2>9, <2>10, <2>11, <2>12 DEF R
<1>2. CASE what # "loaded"
  <2>0. NotLoaded(s, what) /\ (NoFault \/ Fault)
    BY <1>2 DEF Ran
  <2>1. /\ verdict' = IF what = "rowErrors"
                        THEN [r \in Rows |-> IF r \in R THEN "error" ELSE verdict[r]]
                        ELSE verdict
        /\ unreported' = IF what = "unreported" THEN unreported \cup R ELSE unreported
        /\ bulk' = (bulk /\ what # "insertBatch") /\ UNCHANGED <<marked, given>>
    BY <2>0 DEF NotLoaded
  <2>2. /\ what \notin {"fatal", "insertBatch"} => UNCHANGED <<phase, fatal, runErrors>>
        /\ what = "fatal" => Abort
        /\ what = "insertBatch" => /\ phase' = IF TruncatesFirst THEN "truncate" ELSE "plan"
                                   /\ UNCHANGED <<fatal, runErrors>>
    BY <2>0 DEF NotLoaded
  <2>3. faults' \in 0..MaxFaults
    BY <2>0, FaultType
  <2> HIDE DEF R
  <2>4. /\ verdict' \in [Rows -> {"none", "loaded", "skipped", "error"}]
        /\ \A r \in Rows \ R : verdict'[r] = verdict[r]
        /\ what = "rowErrors" => \A r \in R : verdict'[r] = "error"
    BY <1>0, <2>1
  <2> QED BY <1>2, <2>1, <2>2, <2>3, <2>4 DEF R
<1> QED BY <1>1, <1>2

(* The rows of the statement at the head wait until its end decides them.    *)
LEMMA RowsAtHead ==
  ASSUME IInv, phase = "write", queue # <<>>
  PROVE  LET s == Head(queue)
             R == ToSet(s.rows)
         IN /\ s = queue[1] /\ s \in Statement /\ Fits(s) /\ R # {} /\ R \subseteq Waiting /\ R \subseteq Rows
            /\ R \subseteq RowsOf(queue) /\ R \cap ToSet(left) = {}
            /\ Waiting \subseteq batch /\ batch \subseteq Rows /\ R \subseteq batch
            /\ \A r \in R : verdict[r] = "none" /\ given[r] < brought[r] /\ given[r] < MaxLoads
            /\ MaxCopies > 0
<1> DEFINE s == Head(queue)
           R == ToSet(s.rows)
<1>1. queue \in Seq(Statement) /\ Shape(queue) /\ Apart(queue) /\ left \in Seq(batch)
      /\ \A i \in DOMAIN queue : Fits(queue[i])
  BY DEF IInv, LineInv
<1>2. s = queue[1] /\ s \in Statement /\ R \subseteq RowsOf(queue) /\ 1 \in DOMAIN queue
  <2>1. Head(queue) = queue[1]
    BY <1>1, LineGoesOn
  <2> QED BY <1>1, <2>1, LineGoesOn
<1>3. batch \subseteq Rows
  BY DEF IInv, TypeOK
<1> HIDE DEF s
<1>4. s.rows \in Seq(batch) /\ s.rows # <<>>
  BY <1>2 DEF Statement
<1>5. R # {}
  <2>1. 1 \in DOMAIN s.rows
    BY <1>4, EmptySeq
  <2> QED BY <2>1 DEF ToSet
<1>7. Waiting \subseteq batch
  BY <1>1, RowsOfLine DEF Waiting, Statement
<1> HIDE DEF R
<1>8. R \subseteq Waiting /\ R \cap ToSet(left) = {}
  BY <1>2 DEF Waiting, IInv, LineInv
<1>9. ASSUME NEW r \in R
      PROVE  verdict[r] = "none" /\ given[r] < brought[r] /\ given[r] < MaxLoads
  <2>1. r \in Waiting /\ r \in Rows /\ r \in ToCome
    BY <1>3, <1>7, <1>8 DEF ToCome
  <2>2. verdict[r] = "none" /\ given[r] < brought[r] /\ brought[r] <= loads /\ loads <= MaxLoads
    BY <2>1, Counts DEF IInv, CountInv, BookInv, TypeOK
  <2>3. given[r] \in Nat /\ brought[r] \in Nat /\ loads \in Nat /\ MaxLoads \in Nat
    BY <2>1, Counts DEF IInv, TypeOK
  <2> QED BY <2>2, <2>3
<1>10. MaxCopies > 0
  <2>1. PICK r \in R : TRUE
    BY <1>5
  <2>2. given[r] \in Nat /\ given[r] < MaxLoads
    <3>1. r \in Rows
      BY <1>3, <1>7, <1>8
    <3> QED BY <1>9, <3>1, Counts DEF IInv, TypeOK
  <2> QED BY <2>2, Counts
<1> QED BY <1>1, <1>2, <1>3, <1>5, <1>7, <1>8, <1>9, <1>10 DEF s, R

(* All that a statement's end does, in one place.                           *)
Ended(s, R, what, end, landed) ==
  /\ s = queue[1] /\ s \in Statement /\ Fits(s) /\ R = ToSet(s.rows) /\ R # {} /\ R \subseteq Waiting
  /\ R \subseteq Rows /\ R \subseteq RowsOf(queue) /\ R \cap ToSet(left) = {}
  /\ Waiting \subseteq batch /\ batch \subseteq Rows /\ R \subseteq batch
  /\ \A r \in R : verdict[r] = "none" /\ given[r] < brought[r] /\ given[r] < MaxLoads
  /\ MaxCopies > 0
  /\ Distinct(s.rows) /\ 1 \in DOMAIN queue /\ what \in Whats
  /\ what = "next" <=> s.how = "delete" /\ end = "ok"
  /\ what = "loaded" <=> s.how # "delete" /\ end = "ok"
  /\ what = "singles" => s.how = "chunk" /\ queue' = Singles(s.rows)
  /\ what = "stageInsert" => s.how = "stageCopy" /\ queue' = <<Stmt("stageInsert", s.rows)>>
  /\ what = "insertBatch" => s.how = "copy" /\ queue' = <<>>
  /\ what = "unreported" => s.how \in {"chunk", "single"}
  /\ what = "next" => queue' = Tail(queue)
  /\ what \in {"loaded", "rowErrors", "unreported", "fatal"} =>
       queue' = IF s.how = "delete" THEN <<>> ELSE Tail(queue)
  /\ s.how # "delete" => RowsOf(Tail(queue)) = RowsOf(queue) \ R
  /\ s.how = "delete" => RowsOf(Tail(queue)) = RowsOf(queue) /\ RowsOf(queue) = R
  /\ s.how \notin {"delete", "single"} => Tail(queue) = <<>>
  /\ Tail(queue) \in Seq(Statement) /\ Shape(Tail(queue)) /\ Apart(Tail(queue))
  /\ \A i \in DOMAIN Tail(queue) : i + 1 \in DOMAIN queue /\ Tail(queue)[i] = queue[i + 1]
  /\ left' = left
  /\ verdict' \in [Rows -> {"none", "loaded", "skipped", "error"}]
  /\ \A r \in Rows \ R : verdict'[r] = verdict[r]
  /\ what \in {"loaded", "rowErrors"} => \A r \in R : verdict'[r] \in {"loaded", "error"}
  /\ what = "rowErrors" => \A r \in R : verdict'[r] = "error"
  /\ what \notin {"loaded", "rowErrors"} => verdict' = verdict
  /\ unreported' = IF what = "unreported" THEN unreported \cup R ELSE unreported
  /\ marked \subseteq marked' /\ marked' \subseteq marked \cup R
  /\ what # "loaded" => UNCHANGED <<marked, given>>
  /\ what = "loaded" =>
       /\ marked' = marked \cup (IF Marks(s.how) THEN {r \in R : verdict'[r] = "loaded"} ELSE {})
       /\ given' = [r \in Rows |-> IF r \in R /\ verdict'[r] = "loaded" THEN given[r] + 1 ELSE given[r]]
  /\ what \notin {"fatal", "insertBatch"} => UNCHANGED <<phase, fatal, runErrors>>
  /\ what = "fatal" => Abort
  /\ what = "insertBatch" => /\ phase' = IF TruncatesFirst THEN "truncate" ELSE "plan"
                             /\ UNCHANGED <<fatal, runErrors>>
  /\ bulk' = (bulk /\ what # "insertBatch")
  /\ faults' \in 0..MaxFaults
  /\ table' \in [Rows -> 0..MaxCopies] /\ staging' \in [Rows -> 0..MaxCopies]
  /\ current' \subseteq Rows
  /\ s.how \notin {"stageCopy", "stageInsert"} => UNCHANGED staging
  /\ landed => Effect(s) /\ ~Refused(s)
  /\ ~landed => UNCHANGED tableVars /\ end # "ok"
  /\ written' = IF landed /\ s.how # "delete" THEN written \cup R ELSE written
  /\ ambiguous' = IF landed /\ end # "ok" THEN ambiguous \cup R ELSE ambiguous
  /\ queue' \in Seq(Statement) /\ Shape(queue') /\ Apart(queue')
  /\ \A i \in DOMAIN queue' : Fits(queue'[i]) /\ queue'[i].how # "copy"
  /\ RowsOf(queue') = IF what \in {"next", "singles", "stageInsert"} THEN RowsOf(queue)
                      ELSE IF what = "insertBatch" THEN {} ELSE RowsOf(queue) \ R
  /\ Waiting' = IF what \in {"next", "singles", "stageInsert"} THEN Waiting
                ELSE IF what = "insertBatch" THEN ToSet(left) ELSE Waiting \ R
  /\ what = "insertBatch" => /\ left = <<>> /\ unreported = {} /\ R = batch
                             /\ \A r \in Rows : verdict[r] = "none"

LEMMA Executed ==
  ASSUME IInv, Execute
  PROVE  /\ phase = "write" /\ queue # <<>>
         /\ UNCHANGED <<conn, runID, ctxDone, batch, staged, truncated, loads, brought, had>>
         /\ \E end \in Ends, landed \in BOOLEAN :
              Ended(Head(queue), ToSet(Head(queue).rows), OnEnd(Head(queue).how, end), end, landed)
<1> USE DEF IInv
<1>0. /\ phase = "write" /\ queue # <<>>
      /\ UNCHANGED <<conn, runID, ctxDone, batch, staged, truncated, loads, brought, had>>
  BY ExecuteRuns
<1>1. PICK end \in Ends, landed \in BOOLEAN : Ran(end, landed)
  BY ExecuteRuns
<1> DEFINE s == Head(queue)
           R == ToSet(s.rows)
           what == OnEnd(s.how, end)
<1>2. /\ s = queue[1] /\ s \in Statement /\ Fits(s) /\ R # {} /\ R \subseteq Waiting /\ R \subseteq Rows
      /\ R \subseteq RowsOf(queue) /\ R \cap ToSet(left) = {}
      /\ Waiting \subseteq batch /\ batch \subseteq Rows /\ R \subseteq batch
      /\ \A r \in R : verdict[r] = "none" /\ given[r] < brought[r] /\ given[r] < MaxLoads
      /\ MaxCopies > 0
  <2> HIDE DEF s
  <2> QED BY <1>0, RowsAtHead DEF s
<1>3. /\ Distinct(s.rows) /\ 1 \in DOMAIN queue /\ what \in Whats
      /\ what = "next" <=> s.how = "delete" /\ end = "ok"
      /\ what = "loaded" <=> s.how # "delete" /\ end = "ok"
      /\ what = "singles" => s.how = "chunk" /\ queue' = Singles(s.rows)
      /\ what = "stageInsert" => s.how = "stageCopy" /\ queue' = <<Stmt("stageInsert", s.rows)>>
      /\ what = "insertBatch" => s.how = "copy" /\ queue' = <<>>
      /\ what = "unreported" => s.how \in {"chunk", "single"}
      /\ what = "next" => queue' = Tail(queue)
      /\ what \in {"loaded", "rowErrors", "unreported", "fatal"} =>
           queue' = IF s.how = "delete" THEN <<>> ELSE Tail(queue)
      /\ s.how # "delete" => RowsOf(Tail(queue)) = RowsOf(queue) \ R
      /\ s.how = "delete" => RowsOf(Tail(queue)) = RowsOf(queue) /\ RowsOf(queue) = R
      /\ s.how \notin {"delete", "single"} => Tail(queue) = <<>>
      /\ Tail(queue) \in Seq(Statement) /\ Shape(Tail(queue)) /\ Apart(Tail(queue))
      /\ \A i \in DOMAIN Tail(queue) : i + 1 \in DOMAIN queue /\ Tail(queue)[i] = queue[i + 1]
      /\ left' = left
  <2> HIDE DEF s, what
  <2> QED BY <1>0, <1>1, LineAfter DEF s, what
<1>4. /\ verdict' \in [Rows -> {"none", "loaded", "skipped", "error"}]
      /\ \A r \in Rows \ R : verdict'[r] = verdict[r]
      /\ what \in {"loaded", "rowErrors"} => \A r \in R : verdict'[r] \in {"loaded", "error"}
      /\ what = "rowErrors" => \A r \in R : verdict'[r] = "error"
      /\ what \notin {"loaded", "rowErrors"} => verdict' = verdict
      /\ unreported' = IF what = "unreported" THEN unreported \cup R ELSE unreported
      /\ marked \subseteq marked' /\ marked' \subseteq marked \cup R
      /\ what # "loaded" => UNCHANGED <<marked, given>>
      /\ what = "loaded" =>
           marked' = marked \cup (IF Marks(s.how) THEN {r \in R : verdict'[r] = "loaded"} ELSE {})
      /\ what = "loaded" =>
           given' = [r \in Rows |-> IF r \in R /\ verdict'[r] = "loaded" THEN given[r] + 1 ELSE given[r]]
      /\ what \notin {"fatal", "insertBatch"} => UNCHANGED <<phase, fatal, runErrors>>
      /\ what = "fatal" => Abort
      /\ what = "insertBatch" => /\ phase' = IF TruncatesFirst THEN "truncate" ELSE "plan"
                                 /\ UNCHANGED <<fatal, runErrors>>
      /\ bulk' = (bulk /\ what # "insertBatch")
      /\ faults' \in 0..MaxFaults
  <2> HIDE DEF s, what
  <2> QED BY <1>1, <1>2, <1>3, VerdictsAfter DEF s, what
<1>5. /\ table' \in [Rows -> 0..MaxCopies] /\ staging' \in [Rows -> 0..MaxCopies]
      /\ current' \subseteq Rows
      /\ s.how \notin {"stageCopy", "stageInsert"} => UNCHANGED staging
  <2>1. CASE landed
    <3>1. Effect(s)
      BY <1>1, <2>1 DEF Ran
    <3>2. s.how \in Hows
      BY <1>2 DEF Statement
    <3> HIDE DEF s
    <3> QED BY <1>2, <3>1, <3>2, EffectIs DEF Hows
  <2>2. CASE ~landed
    BY <1>1, <2>2 DEF Ran, tableVars, TypeOK
  <2> QED BY <2>1, <2>2
<1>6. /\ landed => Effect(s) /\ ~Refused(s)
      /\ ~landed => UNCHANGED tableVars /\ end # "ok"
      /\ written' = IF landed /\ s.how # "delete" THEN written \cup R ELSE written
      /\ ambiguous' = IF landed /\ end # "ok" THEN ambiguous \cup R ELSE ambiguous
  BY <1>1 DEF Ran
<1>6a. R = ToSet(s.rows)
  OBVIOUS
<1> HIDE DEF s, R, what
<1>7. /\ queue' \in Seq(Statement) /\ Shape(queue') /\ Apart(queue')
      /\ \A i \in DOMAIN queue' : Fits(queue'[i]) /\ queue'[i].how # "copy"
      /\ RowsOf(queue') = IF what \in {"next", "singles", "stageInsert"} THEN RowsOf(queue)
                          ELSE IF what = "insertBatch" THEN {} ELSE RowsOf(queue) \ R
  <2>1. CASE queue' = <<>> /\ what \notin {"next", "singles", "stageInsert"}
    <3>1. DOMAIN queue' = {} /\ RowsOf(queue') = {}
      BY <2>1, LineOfNone
    <3>2. what # "insertBatch" => RowsOf(queue) \ R = {}
      BY <1>3, <2>1, LineOfNone DEF Whats
    <3> QED BY <2>1, <3>1, <3>2, LineOfNone
  <2>2. CASE queue' = Tail(queue) /\ what \notin {"singles", "stageInsert", "insertBatch"}
             /\ (s.how = "delete" <=> what = "next")
    <3>1. \A i \in DOMAIN queue : Fits(queue[i])
      BY DEF LineInv
    <3>2. \A i \in DOMAIN queue' : Fits(queue'[i])
      BY <1>3, <2>2, <3>1
    <3>3. ASSUME NEW i \in DOMAIN queue' PROVE queue'[i].how # "copy"
      <4>1. queue'[i] = queue[i + 1] /\ i + 1 \in DOMAIN queue /\ i \in Nat \ {0} /\ Tail(queue) # <<>>
        <5>1. DOMAIN Tail(queue) \subseteq Nat \ {0}
          BY <1>3
        <5>2. Tail(queue) # <<>>
          <6>1. DOMAIN <<>> = {}
            OBVIOUS
          <6> QED BY <2>2, <3>3, <6>1
        <5> QED BY <1>3, <2>2, <3>3, <5>1, <5>2
      <4>2. queue[1].how \in {"delete", "single"}
        BY <1>2, <1>3, <4>1
      <4>3. Shape(queue) /\ i + 1 # 1 /\ Len(queue) # 1
        <5>1. queue \in Seq(Statement) /\ Shape(queue)
          BY DEF LineInv
        <5> QED BY <4>1, <5>1
      <4>4. DOMAIN queue = 1..Len(queue) /\ Len(queue) \in Nat
        BY DEF LineInv
      <4> QED BY <4>1, <4>2, <4>3, <4>4 DEF Shape
    <3>4. RowsOf(queue') = IF what = "next" THEN RowsOf(queue) ELSE RowsOf(queue) \ R
      BY <1>3, <2>2
    <3> QED BY <1>3, <2>2, <3>2, <3>3, <3>4
  <2>3. CASE what = "singles"
    <3>1. s.rows \in Seq(batch) /\ Distinct(s.rows) /\ queue' = Singles(s.rows) /\ s.how = "chunk"
      BY <1>2, <1>3, <2>3 DEF Statement
    <3>2. /\ queue' \in Seq(Statement) /\ Shape(queue') /\ Apart(queue') /\ RowsOf(queue') = R
          /\ \A i \in DOMAIN queue' : queue'[i] = Stmt("single", <<s.rows[i]>>)
      BY <3>1, LineOfSingles DEF R
    <3>3. RowsOf(queue) = R
      <4>1. RowsOf(Tail(queue)) = {} /\ RowsOf(Tail(queue)) = RowsOf(queue) \ R
        BY <1>3, <3>1, LineOfNone
      <4> QED BY <1>2, <4>1
    <3>4. ASSUME NEW i \in DOMAIN queue' PROVE Fits(queue'[i]) /\ queue'[i].how # "copy"
      <4>1. queue'[i].how = "single" /\ Len(queue'[i].rows) = 1
        BY <3>2, <3>4 DEF Stmt
      <4>2. ~ViaStaging /\ Strategy # "scd2"
        BY <1>2, <3>1 DEF Fits
      <4> QED BY <4>1, <4>2 DEF Fits
    <3> QED BY <2>3, <3>2, <3>3, <3>4
  <2>4. CASE what = "stageInsert"
    <3> DEFINE t == Stmt("stageInsert", s.rows)
    <3>1. t \in Statement /\ t.rows = s.rows /\ t.how = "stageInsert"
      BY <1>2 DEF Statement, Stmt, Hows
    <3>2. queue' = <<t>> /\ s.how = "stageCopy"
      BY <1>3, <2>4
    <3> HIDE DEF t
    <3>3. /\ queue' \in Seq(Statement) /\ Shape(queue') /\ Apart(queue') /\ RowsOf(queue') = R
          /\ DOMAIN queue' = {1} /\ queue'[1] = t
      BY <1>3, <3>1, <3>2, LineOfOne DEF R
    <3>4. RowsOf(queue) = R
      <4>1. RowsOf(Tail(queue)) = {} /\ RowsOf(Tail(queue)) = RowsOf(queue) \ R
        BY <1>3, <3>2, LineOfNone
      <4> QED BY <1>2, <4>1
    <3>5. Fits(t)
      BY <1>2, <3>1, <3>2 DEF Fits
    <3> QED BY <2>4, <3>1, <3>3, <3>4, <3>5
  <2> QED BY <1>3, <2>1, <2>2, <2>3, <2>4 DEF Whats
<1>8. Waiting' = IF what \in {"next", "singles", "stageInsert"} THEN Waiting
                 ELSE IF what = "insertBatch" THEN ToSet(left) ELSE Waiting \ R
  BY <1>2, <1>3, <1>7 DEF Waiting
<1>9. what = "insertBatch" => /\ left = <<>> /\ unreported = {} /\ R = batch
                               /\ \A r \in Rows : verdict[r] = "none"
  <2>1. SUFFICES ASSUME what = "insertBatch" PROVE left = <<>> /\ unreported = {} /\ R = batch
                                                    /\ \A r \in Rows : verdict[r] = "none"
    OBVIOUS
  <2>2. s.how = "copy" /\ queue[1].how = "copy" /\ 1 \in DOMAIN queue /\ R = batch
    BY <1>2, <1>3, <2>1 DEF Fits, R
  <2>3. left = <<>> /\ unreported = {}
    BY <2>2 DEF LineInv, CountInv
  <2>4. \A r \in Rows : r \in R \/ r \in Rows \ batch
    BY <2>2
  <2> QED BY <1>2, <2>2, <2>3, <2>4 DEF CountInv
<1>10. Ended(s, R, what, end, landed)
  BY <1>2, <1>3, <1>4, <1>5, <1>6, <1>6a, <1>7, <1>8, <1>9 DEF Ended
<1> QED BY <1>0, <1>10 DEF s, R, what

LEMMA ExecuteStep == ASSUME IInv, Execute PROVE IInv'
<1> USE DEF IInv
<1>0. /\ phase = "write" /\ queue # <<>>
      /\ UNCHANGED <<conn, runID, ctxDone, batch, staged, truncated, loads, brought, had>>
  BY Executed
<1>1. PICK end \in Ends, landed \in BOOLEAN :
        Ended(Head(queue), ToSet(Head(queue).rows), OnEnd(Head(queue).how, end), end, landed)
  BY Executed
<1> DEFINE s == Head(queue)
           R == ToSet(s.rows)
           what == OnEnd(s.how, end)
<1>1a. Ended(s, R, what, end, landed)
  BY <1>1
<1> HIDE DEF s, R, what
<1>2. /\ s = queue[1] /\ s \in Statement /\ Fits(s) /\ R # {} /\ R \subseteq Waiting /\ R \subseteq Rows
      /\ R \subseteq RowsOf(queue) /\ R \cap ToSet(left) = {}
      /\ Waiting \subseteq batch /\ batch \subseteq Rows /\ R \subseteq batch
      /\ \A r \in R : verdict[r] = "none" /\ given[r] < brought[r] /\ given[r] < MaxLoads
      /\ MaxCopies > 0
  BY <1>1a DEF Ended
<1>3. /\ Distinct(s.rows) /\ 1 \in DOMAIN queue /\ what \in Whats
      /\ what = "next" <=> s.how = "delete" /\ end = "ok"
      /\ what = "loaded" <=> s.how # "delete" /\ end = "ok"
      /\ what = "singles" => s.how = "chunk" /\ queue' = Singles(s.rows)
      /\ what = "stageInsert" => s.how = "stageCopy" /\ queue' = <<Stmt("stageInsert", s.rows)>>
      /\ what = "insertBatch" => s.how = "copy" /\ queue' = <<>>
      /\ what = "unreported" => s.how \in {"chunk", "single"}
      /\ what = "next" => queue' = Tail(queue)
      /\ what \in {"loaded", "rowErrors", "unreported", "fatal"} =>
           queue' = IF s.how = "delete" THEN <<>> ELSE Tail(queue)
      /\ s.how # "delete" => RowsOf(Tail(queue)) = RowsOf(queue) \ R
      /\ s.how = "delete" => RowsOf(Tail(queue)) = RowsOf(queue) /\ RowsOf(queue) = R
      /\ s.how \notin {"delete", "single"} => Tail(queue) = <<>>
      /\ Tail(queue) \in Seq(Statement) /\ Shape(Tail(queue)) /\ Apart(Tail(queue))
      /\ \A i \in DOMAIN Tail(queue) : i + 1 \in DOMAIN queue /\ Tail(queue)[i] = queue[i + 1]
      /\ left' = left
  BY <1>1a DEF Ended
<1>4. /\ verdict' \in [Rows -> {"none", "loaded", "skipped", "error"}]
      /\ \A r \in Rows \ R : verdict'[r] = verdict[r]
      /\ what \in {"loaded", "rowErrors"} => \A r \in R : verdict'[r] \in {"loaded", "error"}
      /\ what \notin {"loaded", "rowErrors"} => verdict' = verdict
      /\ unreported' = IF what = "unreported" THEN unreported \cup R ELSE unreported
      /\ marked \subseteq marked' /\ marked' \subseteq marked \cup R
      /\ what # "loaded" => UNCHANGED <<marked, given>>
      /\ what = "loaded" =>
           given' = [r \in Rows |-> IF r \in R /\ verdict'[r] = "loaded" THEN given[r] + 1 ELSE given[r]]
      /\ what \notin {"fatal", "insertBatch"} => UNCHANGED <<phase, fatal, runErrors>>
      /\ what = "fatal" => Abort
      /\ what = "insertBatch" => /\ phase' = IF TruncatesFirst THEN "truncate" ELSE "plan"
                                 /\ UNCHANGED <<fatal, runErrors>>
      /\ bulk' = (bulk /\ what # "insertBatch")
      /\ faults' \in 0..MaxFaults
  BY <1>1a DEF Ended
<1>5. /\ table' \in [Rows -> 0..MaxCopies] /\ staging' \in [Rows -> 0..MaxCopies]
      /\ current' \subseteq Rows
      /\ s.how \notin {"stageCopy", "stageInsert"} => UNCHANGED staging
  BY <1>1a DEF Ended
<1>6. written' \subseteq Rows /\ ambiguous' \subseteq Rows
  BY <1>1a DEF Ended, TypeOK
<1>7. /\ queue' \in Seq(Statement) /\ Shape(queue') /\ Apart(queue')
      /\ \A i \in DOMAIN queue' : Fits(queue'[i]) /\ queue'[i].how # "copy"
      /\ RowsOf(queue') = IF what \in {"next", "singles", "stageInsert"} THEN RowsOf(queue)
                          ELSE IF what = "insertBatch" THEN {} ELSE RowsOf(queue) \ R
  BY <1>1a DEF Ended
<1>8. (\A i \in DOMAIN queue : Fits(queue[i]))' /\ Statement' = Statement
  BY <1>0, <1>7, FitOn, SameBatch
<1>9. Waiting' = IF what \in {"next", "singles", "stageInsert"} THEN Waiting
                 ELSE IF what = "insertBatch" THEN ToSet(left) ELSE Waiting \ R
  BY <1>1a DEF Ended
<1>10. what = "insertBatch" => /\ left = <<>> /\ unreported = {} /\ R = batch
                               /\ \A r \in Rows : verdict[r] = "none"
  BY <1>1a DEF Ended
<1>11. TypeOK'
  <2>1. given' \in [Rows -> 0..MaxLoads]
    <3>1. given \in [Rows -> 0..MaxLoads]
      BY DEF TypeOK
    <3>2. \A r \in R : given[r] + 1 \in 0..MaxLoads
      BY <1>2, <3>1, Counts
    <3> QED BY <1>2, <1>4, <3>1, <3>2
  <2>2. queue' \in Seq([how : Hows, rows : Seq(batch') \ {<<>>}]) /\ left' \in Seq(batch')
    BY <1>0, <1>3, <1>7 DEF Statement, LineInv
  <2>3. (\A i \in DOMAIN queue : queue[i].how \in {"chunk", "delete"} => Len(queue[i].rows) <= MaxChunk)'
    BY <1>7 DEF Fits
  <2>4. phase' \in {"truncate", "plan", "write", "returned"} /\ fatal' \in BOOLEAN /\ runErrors' \in BOOLEAN
        /\ bulk' \in BOOLEAN /\ marked' \subseteq Rows /\ unreported' \subseteq Rows
    BY <1>0, <1>2, <1>4 DEF TypeOK, Abort
  <2> QED BY <1>0, <1>4, <1>5, <1>6, <2>1, <2>2, <2>3, <2>4 DEF TypeOK
<1>12. (Connects(conn) /\ runID <= loads + 1)'
  BY <1>0, SameConnection
<1>13. LineInv'
  <2>1. ToSet(left') \cap RowsOf(queue') = {}
    BY <1>3, <1>7 DEF LineInv
  <2>2. phase' \notin {"write", "returned"} => left' = <<>> /\ queue' = <<>>
    BY <1>0, <1>3, <1>4, <1>10 DEF Abort
  <2>3. phase' = "returned" => fatal'
    BY <1>0, <1>4 DEF Abort
  <2>4. bulk' => conn'.kind = "postgres" /\ SkipsLog'
    BY <1>0, <1>4, SameConnection DEF LineInv
  <2>5. left' # <<>> => ~ViaStaging' /\ \A i \in DOMAIN queue' : queue'[i].how # "copy"
    BY <1>0, <1>3, <1>7, SameConnection DEF LineInv
  <2>6. left' \in Seq(batch') /\ Distinct(left')
    BY <1>0, <1>3 DEF LineInv
  <2> QED BY <1>7, <1>8, <2>1, <2>2, <2>3, <2>4, <2>5, <2>6 DEF LineInv
<1>14. CountInv'
  <2>1. \A r \in Waiting' \cup (Rows \ batch) : verdict'[r] = "none"
    <3>1. \A r \in Waiting \cup (Rows \ batch) : verdict[r] = "none"
      BY DEF CountInv
    <3>2. CASE what \in {"next", "singles", "stageInsert", "insertBatch", "unreported", "fatal"}
      <4>1. verdict' = verdict /\ Waiting' \subseteq Waiting
        BY <1>4, <1>9, <3>2 DEF Waiting
      <4> QED BY <3>1, <4>1
    <3>3. CASE what \in {"loaded", "rowErrors"}
      <4>1. \A r \in Waiting' \cup (Rows \ batch) : r \in Rows \ R /\ r \in Waiting \cup (Rows \ batch)
        BY <1>2, <1>9, <3>3
      <4> QED BY <1>4, <3>1, <4>1
    <3> QED BY <1>3, <3>2, <3>3 DEF Whats
  <2>2. phase' \in {"idle", "truncate", "plan"} =>
          unreported' = {} /\ \A r \in Rows : verdict'[r] = "none"
    BY <1>0, <1>4, <1>10 DEF Abort
  <2>3. phase' = "write" => \A r \in batch : verdict'[r] = "none" => r \in Waiting' \cup unreported'
    <3>1. \A r \in batch : verdict[r] = "none" => r \in Waiting \cup unreported
      BY <1>0 DEF CountInv
    <3>2. SUFFICES ASSUME phase' = "write", NEW r \in batch, verdict'[r] = "none"
                   PROVE  r \in Waiting' \cup unreported'
      OBVIOUS
    <3>3. what \notin {"fatal", "insertBatch"}
      BY <1>4, <3>2 DEF Abort
    <3>4. r \in Rows /\ (r \in R => what \notin {"loaded", "rowErrors"})
      BY <1>2, <1>4, <3>2
    <3>5. verdict[r] = "none"
      BY <1>4, <3>2, <3>4
    <3> QED BY <1>3, <1>4, <1>9, <3>1, <3>3, <3>4, <3>5 DEF Whats
  <2>4. phase' = "returned" => fatal'
    BY <1>0, <1>4 DEF Abort
  <2>5. ~SkipsLog => RowsOf(queue') \cap marked' = {}
    <3>1. ~SkipsLog => RowsOf(queue) \cap marked = {}
      BY DEF CountInv
    <3> QED BY <1>3, <1>4, <1>7, <3>1 DEF Whats
  <2>6. ~SkipsLog /\ ~InTurn => ToSet(left') \cap marked' = {}
    <3>1. ~SkipsLog /\ ~InTurn => ToSet(left) \cap marked = {}
      BY DEF CountInv
    <3> QED BY <1>2, <1>3, <1>4, <3>1
  <2>7. phase' \in {"truncate", "plan", "write"} => ~fatal'
    <3>1. ~fatal
      BY <1>0 DEF CountInv
    <3> QED BY <1>4, <3>1 DEF Abort
  <2>8. phase' = "truncate" => TruncatesFirst'
    <3>1. TruncatesFirst' = TruncatesFirst
      BY <1>0, SameConnection DEF TruncatesFirst
    <3> QED BY <1>0, <1>4, <3>1 DEF Abort
  <2>9. ViaStaging' => (staging' = None \/ staged')
    <3>1. ViaStaging => staged
      BY <1>0 DEF CountInv
    <3> QED BY <1>0, <3>1, SameConnection
  <2>10. phase' = "write" /\ ViaStaging' => staged'
    BY <1>0, SameConnection DEF CountInv
  <2>11. batch # {}
    BY <1>0 DEF CountInv
  <2> QED BY <1>0, <1>7, <2>1, <2>2, <2>3, <2>4, <2>5, <2>6, <2>7, <2>8, <2>9, <2>10, <2>11, SameConnection
          DEF CountInv
<1>15. BookInv'
  <2>1. ASSUME NEW r \in Rows PROVE given'[r] <= brought[r] /\ (r \notin R => given'[r] = given[r])
    <3>1. given[r] \in Nat /\ brought[r] \in Nat /\ given[r] <= brought[r]
      BY Counts DEF TypeOK, BookInv
    <3>2. CASE r \in R /\ what = "loaded"
      <4>1. given[r] < brought[r] /\ (given'[r] = given[r] + 1 \/ given'[r] = given[r])
        BY <1>2, <1>4, <3>2
      <4> QED BY <3>1, <3>2, <4>1
    <3>3. CASE r \notin R \/ what # "loaded"
      BY <1>4, <3>1, <3>3
    <3> QED BY <3>2, <3>3
  <2>2. \A r \in ToCome' : r \in ToCome /\ r \in Rows /\ (r \in R => what # "loaded")
    <3>1. ToCome = Waiting
      BY <1>0 DEF ToCome
    <3>2. CASE what = "insertBatch"
      BY <1>0, <1>2, <1>4, <1>10, <3>1, <3>2 DEF ToCome
    <3>3. CASE what # "insertBatch"
      <4>1. ToCome' \subseteq Waiting'
        BY <1>0, <1>4, <3>3 DEF ToCome, Abort
      <4> QED BY <1>2, <1>3, <1>9, <3>1, <3>3, <4>1 DEF Whats
    <3> QED BY <3>2, <3>3
  <2>3. \A r \in ToCome' : given'[r] = given[r]
    BY <1>4, <2>1, <2>2
  <2> QED BY <1>0, <2>1, <2>2, <2>3 DEF BookInv
<1> QED BY <1>11, <1>12, <1>13, <1>14, <1>15

LEMMA TableInvariant == Spec => []IInv
<1>1. Init => IInv
  BY InitTable
<1>2. IInv /\ [Next]_vars => IInv'
  <2> SUFFICES ASSUME IInv, [Next]_vars PROVE IInv'
    OBVIOUS
  <2>1. CASE Begin
    BY <2>1, BeginStep
  <2>2. CASE Truncate
    BY <2>2, TruncateStep
  <2>3. CASE Plan
    BY <2>3, PlanStep
  <2>4. CASE TakeTurn
    BY <2>4, TakeTurnStep
  <2>5. CASE TakeChunk
    BY <2>5, TakeChunkStep
  <2>6. CASE Return
    BY <2>6, ReturnStep
  <2>7. CASE Execute
    BY <2>7, ExecuteStep
  <2>8. CASE EndRun
    BY <2>8, EndRunStep
  <2>9. CASE EndContext
    BY <2>9, EndContextStep
  <2>10. CASE UNCHANGED vars
    <3>1. UNCHANGED <<conn, runID, ctxDone, loadVars, tableVars, staged, truncated, marked, loads, faults, bookVars>>
      BY <2>10 DEF vars
    <3>2. TypeOK' /\ (Connects(conn) /\ runID <= loads + 1)'
      BY <3>1, SameConnection DEF IInv, TypeOK, loadVars, tableVars, bookVars
    <3>3. LineInv' /\ Waiting' = Waiting
      BY <3>1, SameLine DEF IInv, LineInv, loadVars
    <3>4. TruncatesFirst' = TruncatesFirst
      BY <3>1, SameConnection DEF TruncatesFirst
    <3>5. CountInv' /\ BookInv'
      BY <3>1, <3>3, <3>4, SameConnection DEF IInv, CountInv, BookInv, ToCome, loadVars, tableVars, bookVars
    <3> QED BY <3>2, <3>3, <3>5 DEF IInv
  <2> QED BY <2>1, <2>2, <2>3, <2>4, <2>5, <2>6, <2>7, <2>8, <2>9, <2>10 DEF Next
<1> QED BY <1>1, <1>2, PTL DEF Spec

(* TypeOK for every connection, number of rows and of faults: among the     *)
(* rest, no statement ever takes more rows than a chunk may hold, and the   *)
(* count of a row's Loads that brought it stays within the bound.           *)
THEOREM TableTypeCorrect == Spec => []TypeOK
<1>1. IInv => TypeOK
  BY DEF IInv
<1> QED BY <1>1, TableInvariant, PTL

------------------------------------------------------------------------------
\* How many copies

(* No step of a Load adds to the rows it may yet write.                     *)
LEMMA ToComeShrinks ==
  ASSUME IInv, [Next]_vars, ~Begin
  PROVE  ToCome' \subseteq ToCome /\ ToCome \subseteq Rows
<1>0. ToCome \subseteq Rows
  BY RowsOfLine DEF ToCome, Waiting, IInv, TypeOK
<1>1. CASE Truncate
  BY <1>0, <1>1 DEF Truncate, Abort, ToCome
<1>2. CASE Plan
  <2>1. IInv' /\ batch' = batch /\ phase = "plan" /\ phase' \in {"write", "returned"}
    BY <1>2, PlanStep DEF Plan, planFrame, Abort
  <2>2. Waiting' \subseteq batch'
    BY <2>1, RowsOfLine DEF Waiting, IInv, TypeOK
  <2> QED BY <1>0, <2>1, <2>2 DEF ToCome
<1>3. CASE TakeTurn
  <2>1. phase = "write" /\ (Abort \/ \E h, p : TurnTaken(h, p))
    BY <1>3, TakeTurnIs
  <2>2. CASE Abort
    BY <1>0, <2>2 DEF Abort, ToCome
  <2>3. ASSUME NEW h, NEW p, TurnTaken(h, p) PROVE Waiting' \subseteq Waiting /\ phase' = "write"
    BY <2>1, <2>3 DEF TurnTaken, Waiting
  <2> QED BY <1>0, <2>1, <2>2, <2>3 DEF ToCome
<1>4. CASE TakeChunk
  BY <1>0, <1>4, TakeChunkIs DEF ToCome, ChunkTaken
<1>5. CASE Return
  BY <1>0, <1>5 DEF Return, ToCome
<1>6. CASE Execute
  <2>1. PICK end \in Ends, landed \in BOOLEAN :
          Ended(Head(queue), ToSet(Head(queue).rows), OnEnd(Head(queue).how, end), end, landed)
    BY <1>6, Executed
  <2>2. phase = "write" /\ batch' = batch
    BY <1>6, Executed
  <2>3. CASE phase' = "write"
    <3>1. Waiting' \subseteq Waiting
      BY <2>1 DEF Ended, Waiting
    <3> QED BY <1>0, <2>2, <2>3, <3>1 DEF ToCome
  <2>4. CASE phase' \in {"truncate", "plan"}
    <3>1. OnEnd(Head(queue).how, end) = "insertBatch"
      BY <2>1, <2>2, <2>4 DEF Ended, Abort
    <3>2. batch \subseteq Waiting
      BY <2>1, <3>1 DEF Ended
    <3>3. Waiting \subseteq batch
      BY <2>1 DEF Ended
    <3> QED BY <1>0, <2>2, <2>4, <3>2, <3>3 DEF ToCome
  <2>5. CASE phase' = "returned"
    BY <1>0, <2>5 DEF ToCome
  <2>6. phase' \in {"write", "truncate", "plan", "returned"}
    BY <2>1, <2>2 DEF Ended, Abort, Whats
  <2> QED BY <2>3, <2>4, <2>5, <2>6
<1>7. CASE EndRun
  BY <1>0, <1>7 DEF EndRun, ToCome
<1>8. CASE EndContext
  BY <1>0, <1>8 DEF EndContext, loadVars, ToCome, Waiting
<1>9. CASE UNCHANGED vars
  BY <1>0, <1>9 DEF vars, loadVars, ToCome, Waiting
<1> QED BY <1>1, <1>2, <1>3, <1>4, <1>5, <1>6, <1>7, <1>8, <1>9 DEF Next

LEMMA CopiesStay ==
  ASSUME NEW t, NEW a, NEW g, NEW b, NEW c, Copies(t, a, g, b, c),
         NEW a2, a \subseteq a2, NEW c2, c2 \subseteq c
  PROVE  Copies(t, a2, g, b, c2)
BY DEF Copies

(* An insert of rows that were yet to come, and that are now loaded, or of   *)
(* which nobody knows.                                                      *)
LEMMA CopiesAdded ==
  ASSUME NEW t \in [Rows -> 0..MaxCopies], NEW a, NEW g \in [Rows -> Nat], NEW b \in [Rows -> 0..MaxLoads],
         NEW c, Copies(t, a, g, b, c),
         NEW rows, ToSet(rows) \subseteq c, ToSet(rows) \subseteq Rows,
         NEW g2, \A r \in Rows : g2[r] = g[r] \/ (r \in ToSet(rows) /\ g2[r] = g[r] + 1),
         NEW a2, NEW c2, a \subseteq a2, c2 \subseteq c,
         \A r \in ToSet(rows) : r \in a2 \/ r \notin c2
  PROVE  Copies(Inserted(t, rows), a2, g2, b, c2)
<1> SUFFICES ASSUME NEW r \in Rows \ a2
             PROVE  LET n == Inserted(t, rows)[r]
                    IN n \in Nat /\ g2[r] <= n /\ n <= b[r] /\ (r \in c2 => n < b[r])
  BY DEF Copies
<1>1. t[r] \in Nat /\ g[r] <= t[r] /\ t[r] <= b[r] /\ (r \in c => t[r] < b[r])
  BY DEF Copies
<1>2. g[r] \in Nat /\ b[r] \in Nat /\ b[r] <= MaxCopies /\ MaxCopies \in Nat
  BY Counts
<1>3. CASE r \in ToSet(rows)
  <2>1. Inserted(t, rows)[r] = t[r] + 1
    BY <1>1, <1>2, <1>3 DEF Inserted, OneMore
  <2>2. r \notin c2 /\ r \in c /\ (g2[r] = g[r] \/ g2[r] = g[r] + 1)
    BY <1>3
  <2> QED BY <1>1, <1>2, <2>1, <2>2
<1>4. CASE r \notin ToSet(rows)
  <2>1. Inserted(t, rows)[r] = t[r] /\ g2[r] = g[r]
    BY <1>4 DEF Inserted
  <2> QED BY <1>1, <2>1
<1> QED BY <1>3, <1>4

LEMMA CopyStep ==
  ASSUME IInv, CopyInv, [Next]_vars
  PROVE  CopyInv'
<1>0. /\ {table, staging} \subseteq [Rows -> 0..MaxCopies] /\ given \in [Rows -> 0..MaxLoads]
      /\ brought \in [Rows -> 0..MaxLoads] /\ given \in [Rows -> Nat]
      /\ \A r \in Rows : brought[r] \in Nat
  <2>1. /\ {table, staging} \subseteq [Rows -> 0..MaxCopies] /\ given \in [Rows -> 0..MaxLoads]
        /\ brought \in [Rows -> 0..MaxLoads]
    BY DEF IInv, TypeOK
  <2>2. 0..MaxLoads \subseteq Nat
    BY Counts
  <2> QED BY <2>1, <2>2
<1>1. CASE Begin
  <2>1. /\ conn' = conn /\ UNCHANGED <<table, staging, staged, given, ambiguous>>
        /\ \A r \in Rows : brought'[r] = IF r \in batch' THEN brought[r] + 1 ELSE brought[r]
        /\ ToCome' \subseteq batch'
    <3>1. left' = <<>> /\ queue' = <<>> /\ phase' # "write"
      BY <1>1 DEF Begin
    <3> QED BY <1>1, <3>1 DEF Begin, ToCome, tableVars
  <2>2. \A r \in Rows : brought[r] <= brought'[r] /\ (r \in ToCome' => brought[r] < brought'[r])
    BY <1>0, <2>1
  <2>3. ASSUME NEW t \in [Rows -> 0..MaxCopies], Copies(t, ambiguous, given, brought, ToCome)
        PROVE  Copies(t, ambiguous, given, brought', ToCome')
    <3>1. ASSUME NEW r \in Rows \ ambiguous
          PROVE  /\ t[r] \in Nat /\ given[r] <= t[r] /\ t[r] <= brought'[r]
                 /\ r \in ToCome' => t[r] < brought'[r]
      <4>1. t[r] \in Nat /\ given[r] <= t[r] /\ t[r] <= brought[r]
        BY <2>3 DEF Copies
      <4>2. brought[r] \in Nat /\ brought'[r] \in Nat
        BY <1>0, <2>1
      <4> QED BY <2>2, <4>1, <4>2
    <3> QED BY <3>1 DEF Copies
  <2> QED BY <1>0, <2>1, <2>3, SameConnection DEF CopyInv
<1>2. CASE [Next]_vars /\ ~Begin /\ ~Execute /\ ~EndRun
  <2>1. /\ conn' = conn /\ UNCHANGED <<staging, given, brought, ambiguous>>
        /\ UNCHANGED table \/ Truncate
        /\ staged' => staged \/ ViaStaging
    <3>1. CASE Truncate
      BY <3>1 DEF Truncate
    <3>2. CASE Plan
      <4>1. UNCHANGED planFrame /\ (staged' = staged \/ staged' = (staged \/ ViaStaging))
        BY <3>2 DEF Plan
      <4>2. staged' => staged \/ ViaStaging
        BY <4>1
      <4>3. conn' = conn /\ UNCHANGED <<table, staging, given, brought, ambiguous>>
        BY <4>1 DEF planFrame, tableVars
      <4> QED BY <4>2, <4>3
    <3>3. CASE TakeTurn
      BY <3>3 DEF TakeTurn, planFrame, tableVars
    <3>4. CASE TakeChunk
      BY <3>4 DEF TakeChunk, planFrame, tableVars
    <3>5. CASE Return
      BY <3>5 DEF Return, planFrame, tableVars
    <3>6. CASE EndContext
      BY <3>6 DEF EndContext, tableVars, bookVars
    <3>7. CASE UNCHANGED vars
      BY <3>7 DEF vars, tableVars, bookVars
    <3> QED BY <1>2, <3>1, <3>2, <3>3, <3>4, <3>5, <3>6, <3>7 DEF Next
  <2>2. ToCome' \subseteq ToCome
    BY <1>2, ToComeShrinks
  <2>3. Truncate => Strategy # "append"
    BY DEF IInv, CountInv, Truncate, TruncatesFirst
  <2>4. \A t : Copies(t, ambiguous, given, brought, ToCome)
                 => Copies(t, ambiguous', given', brought', ToCome')
    BY <2>1, <2>2, CopiesStay
  <2> QED BY <2>1, <2>3, <2>4, SameConnection DEF CopyInv
<1>3. CASE Execute
  <2>1. conn' = conn /\ staged' = staged /\ brought' = brought /\ phase = "write"
    BY <1>3, Executed
  <2>2. PICK end \in Ends, landed \in BOOLEAN :
          Ended(Head(queue), ToSet(Head(queue).rows), OnEnd(Head(queue).how, end), end, landed)
    BY <1>3, Executed
  <2> DEFINE s == Head(queue)
             R == ToSet(s.rows)
             what == OnEnd(s.how, end)
  <2>3. Ended(s, R, what, end, landed)
    BY <2>2
  <2> HIDE DEF s, R, what
  <2>4. R = ToSet(s.rows) /\ R \subseteq Rows /\ R \subseteq Waiting /\ s \in Statement /\ Fits(s) /\ MaxCopies > 0
    BY <2>3 DEF Ended
  <2>5. ToCome' \subseteq ToCome /\ R \subseteq ToCome
    BY <1>3, <2>1, <2>4, ToComeShrinks DEF ToCome, Next, Begin
  <2>6. \A r \in Rows : given'[r] = given[r] \/ (r \in R /\ given'[r] = given[r] + 1)
    BY <2>3 DEF Ended
  <2>7. ambiguous \subseteq ambiguous' /\ (landed /\ end # "ok" => R \subseteq ambiguous')
    BY <2>3 DEF Ended
  <2>8. s.how # "delete" /\ end = "ok" => what = "loaded" /\ \A r \in R : r \notin ToCome'
    <3>1. SUFFICES ASSUME s.how # "delete" /\ end = "ok"
                   PROVE  what = "loaded" /\ \A r \in R : r \notin ToCome'
      OBVIOUS
    <3>2. what = "loaded" /\ phase' = phase /\ Waiting' = Waiting \ R
      BY <2>3, <3>1 DEF Ended
    <3> QED BY <2>1, <3>2 DEF ToCome
  <2>9. what # "loaded" => given' = given
    BY <2>3 DEF Ended
  <2>10. ASSUME NEW t \in [Rows -> 0..MaxCopies], Copies(t, ambiguous, given, brought, ToCome),
                s.how # "delete"
         PROVE  /\ landed => Copies(Inserted(t, s.rows), ambiguous', given', brought', ToCome')
                /\ ~landed => Copies(t, ambiguous', given', brought', ToCome')
    <3>1. CASE landed
      <4>1. \A r \in R : r \in ambiguous' \/ r \notin ToCome'
        BY <2>7, <2>8, <2>10, <3>1
      <4> QED BY <1>0, <2>1, <2>4, <2>5, <2>6, <2>7, <2>10, <3>1, <4>1, CopiesAdded
    <3>2. CASE ~landed
      <4>1. given' = given
        BY <2>3, <3>2 DEF Ended
      <4> QED BY <2>1, <2>5, <2>7, <2>10, <3>2, <4>1, CopiesStay
    <3> QED BY <3>1, <3>2
  <2>11. ~landed => UNCHANGED <<table, staging>>
    BY <2>3 DEF Ended, tableVars
  <2>12. landed => Effect(s)
    BY <2>3 DEF Ended
  <2>13. TypeOK
    BY DEF IInv
  <2>14. CASE Strategy = "append" /\ InsertOnly
    <3>1. s.how \in {"copy", "chunk", "single"} /\ Inserts(s.how) /\ ~ViaStaging
      BY <2>4, <2>14 DEF Fits, Statement, Hows, Inserts, ViaStaging
    <3>2. landed => table' = Inserted(table, s.rows)
      BY <2>4, <2>12, <2>13, <3>1, EffectIs
    <3>3. Copies(table', ambiguous', given', brought', ToCome')
      BY <1>0, <2>10, <2>11, <2>14, <3>1, <3>2 DEF CopyInv
    <3> QED BY <2>1, <3>1, <3>3, SameConnection DEF CopyInv
  <2>15. CASE ViaStaging
    <3>1. s.how \in {"stageCopy", "stageInsert"} /\ Strategy # "append"
      BY <2>4, <2>15 DEF Fits, ViaStaging
    <3>2. landed => staging' = Inserted(staging, s.rows)
      BY <2>4, <2>12, <2>13, <3>1, EffectIs
    <3>3. Copies(staging', ambiguous', given', brought', ToCome')
      BY <1>0, <2>10, <2>11, <2>15, <3>1, <3>2 DEF CopyInv
    <3> QED BY <2>1, <2>15, <3>1, <3>3, SameConnection DEF CopyInv
  <2>16. CASE ~(Strategy = "append" /\ InsertOnly) /\ ~ViaStaging
    BY <2>1, <2>16, SameConnection DEF CopyInv
  <2> QED BY <2>14, <2>15, <2>16
<1>4. CASE EndRun
  <2>1. conn' = conn /\ ambiguous' = ambiguous /\ staged' = FALSE /\ staging' = None
    BY <1>4 DEF EndRun
  <2>2. ToCome' = {} /\ ToCome' \subseteq ToCome
    BY <1>4 DEF EndRun, ToCome
  <2>3. ViaStaging => Copies(staging', ambiguous', given', brought', ToCome')
    <3>1. SUFFICES ASSUME ViaStaging PROVE Copies(None, ambiguous', given', brought', ToCome')
      BY <2>1
    <3>2. brought' = None /\ given' = None
      BY <1>4, <3>1 DEF EndRun, ViaStaging
    <3>3. \A r \in Rows : None[r] = 0
      BY DEF None
    <3> QED BY <2>2, <3>2, <3>3 DEF Copies
  <2>4. Strategy = "append" /\ InsertOnly => Copies(table', ambiguous', given', brought', ToCome')
    <3>1. SUFFICES ASSUME Strategy = "append", InsertOnly
                   PROVE  Copies(table', ambiguous', given', brought', ToCome')
      OBVIOUS
    <3>2. ~staged
      BY <3>1 DEF CopyInv, ViaStaging
    <3>3. table' = table /\ brought' = brought /\ given' = given
      BY <1>4, <3>1, <3>2 DEF EndRun, FinalizeRun
    <3> QED BY <2>1, <2>2, <3>1, <3>3, CopiesStay DEF CopyInv
  <2> QED BY <2>1, <2>3, <2>4, SameConnection DEF CopyInv
<1> QED BY <1>1, <1>2, <1>3, <1>4

LEMMA CopyInvariant == Spec => []CopyInv
<1>1. Init => CopyInv
  <2> SUFFICES ASSUME Init PROVE CopyInv
    OBVIOUS
  <2>1. \A r \in Rows : None[r] = 0
    BY DEF None
  <2>2. Copies(None, ambiguous, given, brought, ToCome)
    BY <2>1 DEF Init, ToCome, Copies
  <2> QED BY <2>2 DEF Init, CopyInv
<1>2. IInv /\ CopyInv /\ [Next]_vars => CopyInv'
  BY CopyStep
<1> QED BY <1>1, <1>2, TableInvariant, PTL DEF Spec

(* AppendOnce: in an append, a row whose statements all gave an answer is   *)
(* in the table once for each Load that loaded it, and no more often than    *)
(* Loads brought it, by COPY, by chunks or singly.                           *)
THEOREM AppendsOnce == Spec => []AppendOnce
<1>1. IInv /\ CopyInv => AppendOnce
  <2> SUFFICES ASSUME IInv, CopyInv, Strategy = "append", InsertOnly,
                      NEW r \in Rows \ ambiguous
               PROVE  table[r] \in given[r]..brought[r]
    BY DEF AppendOnce, AsLoaded
  <2>1. table[r] \in Nat /\ given[r] <= table[r] /\ table[r] <= brought[r]
    BY DEF CopyInv, Copies
  <2>2. given[r] \in Nat /\ brought[r] \in Nat
    BY Counts DEF IInv, TypeOK
  <2> QED BY <2>1, <2>2
<1> QED BY <1>1, TableInvariant, CopyInvariant, PTL

(* StagedSwap: a replace with a run ID changes the target at the end of a    *)
(* run without errors only, and then to what the run loaded.                *)
THEOREM SwapsOnlyAWholeRun == Spec => StagedSwap
<1>1. IInv /\ CopyInv /\ [Next]_vars =>
        (ViaStaging /\ table' # table => runID' # runID /\ ~runErrors /\ AsLoaded(table'))
  <2> SUFFICES ASSUME IInv, CopyInv, [Next]_vars, ViaStaging, table' # table
               PROVE  runID' # runID /\ ~runErrors /\ AsLoaded(table')
    OBVIOUS
  <2>1. ~Execute
    <3>1. SUFFICES ASSUME Execute PROVE FALSE
      OBVIOUS
    <3>2. PICK end \in Ends, landed \in BOOLEAN :
            Ended(Head(queue), ToSet(Head(queue).rows), OnEnd(Head(queue).how, end), end, landed)
      BY <3>1, Executed
    <3> DEFINE s == Head(queue)
    <3>3. /\ s \in Statement /\ Fits(s) /\ MaxCopies > 0
          /\ landed => Effect(s)
          /\ ~landed => UNCHANGED table
      BY <3>2 DEF Ended, tableVars
    <3> HIDE DEF s
    <3>4. s.how \in {"stageCopy", "stageInsert"}
      BY <3>3 DEF Fits
    <3> QED BY <3>3, <3>4, EffectIs DEF IInv
  <2>2. ~Truncate
    BY DEF IInv, CountInv, Truncate, TruncatesFirst
  <2>3. EndRun
    BY <2>1, <2>2 DEF Next, Begin, Plan, TakeTurn, TakeChunk, Return, EndContext, planFrame,
                      tableVars, vars
  <2>4. PICK succeeded \in {~runErrors, FALSE} : FinalizeRun(succeeded)
    BY <2>3 DEF EndRun
  <2>5. succeeded /\ table' = staging
    BY <2>4 DEF FinalizeRun
  <2>6. ~runErrors
    BY <2>4, <2>5
  <2>7. runID' # runID
    BY <2>3, Counts DEF EndRun, IInv, TypeOK
  <2>8. AsLoaded(staging)
    <3> SUFFICES ASSUME NEW r \in Rows \ ambiguous PROVE staging[r] \in given[r]..brought[r]
      BY DEF AsLoaded
    <3>1. staging[r] \in Nat /\ given[r] <= staging[r] /\ staging[r] <= brought[r]
      BY DEF CopyInv, Copies
    <3>2. given[r] \in Nat /\ brought[r] \in Nat
      BY Counts DEF IInv, TypeOK
    <3> QED BY <3>1, <3>2
  <2> QED BY <2>5, <2>6, <2>7, <2>8
<1> QED BY <1>1, TableInvariant, CopyInvariant, PTL DEF Spec, StagedSwap

------------------------------------------------------------------------------
\* What a replace and a delete leave

LEMMA InsertedAre ==
  ASSUME NEW t \in [Rows -> 0..MaxCopies], NEW rows, NEW r \in Rows, MaxCopies > 0
  PROVE  /\ Inserted(t, rows)[r] \in Nat /\ t[r] \in Nat /\ t[r] <= Inserted(t, rows)[r]
         /\ r \in ToSet(rows) => /\ Inserted(t, rows)[r] \in {t[r] + 1, MaxCopies}
                                 /\ Inserted(t, rows)[r] > 0
         /\ r \notin ToSet(rows) => Inserted(t, rows)[r] = t[r]
<1>1. t[r] \in 0..MaxCopies /\ MaxCopies \in Nat
  BY Counts
<1>2. Inserted(t, rows)[r] = IF r \in ToSet(rows) THEN OneMore(t[r]) ELSE t[r]
  BY DEF Inserted
<1> QED BY <1>1, <1>2 DEF OneMore

(* The steps that leave the tables, what was loaded and had as they were.    *)
Quiet == UNCHANGED <<conn, table, given, ambiguous, truncated, had, batch>>

LEMMA QuietSteps ==
  ASSUME Plan \/ TakeTurn \/ TakeChunk \/ Return \/ EndContext \/ UNCHANGED vars
  PROVE  Quiet
<1>1. CASE Plan
  BY <1>1 DEF Plan, planFrame, tableVars, Quiet
<1>2. CASE TakeTurn
  BY <1>2 DEF TakeTurn, planFrame, tableVars, Quiet
<1>3. CASE TakeChunk
  BY <1>3 DEF TakeChunk, planFrame, tableVars, Quiet
<1>4. CASE Return
  BY <1>4 DEF Return, planFrame, tableVars, Quiet
<1>5. CASE EndContext
  BY <1>5 DEF EndContext, tableVars, bookVars, loadVars, Quiet
<1>6. CASE UNCHANGED vars
  BY <1>6 DEF vars, tableVars, bookVars, loadVars, Quiet
<1> QED BY <1>1, <1>2, <1>3, <1>4, <1>5, <1>6

LEMMA ReplaceStep ==
  ASSUME IInv, CopyInv, ReplaceInv, [Next]_vars
  PROVE  ReplaceInv'
<1> SUFFICES ASSUME Strategy = "replace", conn.kind # "postgres"
             PROVE  /\ phase' = "truncate" => ~truncated'
                    /\ phase' \in {"plan", "write"} => truncated'
                    /\ ~truncated' => given' = None
                    /\ \A r \in Rows \ ambiguous' : table'[r] >= given'[r]
  <2>1. conn' = conn
    BY ConnectionStays
  <2> QED BY <2>1, SameConnection DEF ReplaceInv
<1>0. /\ ~ViaStaging /\ InsertOnly /\ ~staged
      /\ table \in [Rows -> 0..MaxCopies] /\ given \in [Rows -> 0..MaxLoads]
      /\ \A r \in Rows : table[r] \in Nat /\ given[r] \in Nat /\ None[r] = 0
  <2>1. conn.kind \in {"mysql", "snowflake"}
    BY TableAssumption DEF IInv, TypeOK, ConnectionType, Kinds
  <2>2. ~ViaStaging /\ InsertOnly
    BY <2>1 DEF ViaStaging, InsertOnly
  <2>3. table \in [Rows -> 0..MaxCopies] /\ given \in [Rows -> 0..MaxLoads]
    BY DEF IInv, TypeOK
  <2> QED BY <2>2, <2>3, Counts DEF CopyInv, None
<1>1. /\ phase = "truncate" => ~truncated
      /\ phase \in {"plan", "write"} => truncated
      /\ ~truncated => given = None
      /\ \A r \in Rows \ ambiguous : table[r] >= given[r]
  BY DEF ReplaceInv
<1>2. CASE Begin
  <2>1. UNCHANGED <<table, truncated, given, ambiguous>>
    BY <1>2 DEF Begin, tableVars
  <2>2. /\ phase' = "truncate" => TruncatesFirst
        /\ phase' = "plan" => ~TruncatesFirst
        /\ phase' # "write"
    BY <1>2 DEF Begin
  <2>3. TruncatesFirst <=> ~truncated
    BY <1>0 DEF TruncatesFirst
  <2> QED BY <1>1, <2>1, <2>2, <2>3
<1>3. CASE Truncate
  <2>1. phase = "truncate" /\ given = None /\ UNCHANGED <<given, ambiguous>>
    BY <1>1, <1>3 DEF Truncate
  <2>2. \/ table' = None /\ truncated' = TRUE /\ phase' = "plan"
        \/ phase' = "returned" /\ truncated' = truncated /\ table' \in {table, None}
    BY <1>3 DEF Truncate, Abort
  <2> QED BY <1>0, <2>1, <2>2
<1>4. CASE Plan \/ TakeTurn \/ TakeChunk \/ Return \/ EndContext \/ UNCHANGED vars
  <2>1. Quiet
    BY <1>4, QuietSteps
  <2>2. /\ phase' = "truncate" => phase = "truncate"
        /\ phase' \in {"plan", "write"} => phase \in {"plan", "write"}
    <3>1. CASE Plan
      BY <3>1 DEF Plan, Abort
    <3>2. CASE TakeTurn
      BY <3>2 DEF TakeTurn, Abort
    <3>3. CASE TakeChunk \/ Return
      BY <3>3 DEF TakeChunk, Return
    <3>4. CASE EndContext \/ UNCHANGED vars
      BY <3>4 DEF EndContext, vars, loadVars
    <3> QED BY <1>4, <3>1, <3>2, <3>3, <3>4
  <2> QED BY <1>1, <2>1, <2>2 DEF Quiet
<1>5. CASE Execute
  <2>1. truncated' = truncated /\ phase = "write"
    BY <1>5, Executed
  <2>2. PICK end \in Ends, landed \in BOOLEAN :
          Ended(Head(queue), ToSet(Head(queue).rows), OnEnd(Head(queue).how, end), end, landed)
    BY <1>5, Executed
  <2> DEFINE s == Head(queue)
             R == ToSet(s.rows)
             what == OnEnd(s.how, end)
  <2>3. Ended(s, R, what, end, landed)
    BY <2>2
  <2> HIDE DEF s, R, what
  <2>4. /\ R = ToSet(s.rows) /\ s \in Statement /\ Fits(s) /\ MaxCopies > 0
        /\ R \subseteq Rows /\ \A r \in R : given[r] < MaxLoads
        /\ what = "insertBatch" => s.how = "copy"
    BY <2>3 DEF Ended
  <2>5. s.how \in {"chunk", "single"}
    BY <1>0, <2>4 DEF Fits, Statement, Hows
  <2>6. phase' \in {"write", "returned"}
    BY <2>1, <2>3, <2>5 DEF Ended, Abort, Whats
  <2>7. /\ ~landed => table' = table /\ given' = given
        /\ what # "loaded" => given' = given
    BY <2>3 DEF Ended, tableVars
  <2>8. landed => table' = Inserted(table, s.rows)
    BY <1>0, <2>3, <2>4, <2>5, EffectIs DEF Ended, Inserts, IInv
  <2>9. /\ ambiguous \subseteq ambiguous'
        /\ \A r \in Rows : given'[r] = given[r] \/ (r \in R /\ given'[r] = given[r] + 1 /\ landed)
    BY <2>3, <2>7 DEF Ended
  <2>10. ASSUME NEW r \in Rows \ ambiguous' PROVE table'[r] >= given'[r]
    <3>1. table[r] >= given[r] /\ table[r] \in Nat /\ given[r] \in Nat
      BY <1>0, <1>1, <2>9
    <3>2. CASE ~landed
      BY <2>7, <3>1, <3>2
    <3>3. CASE landed
      <4>1. /\ table'[r] \in Nat /\ table[r] <= table'[r]
            /\ r \in R => table'[r] \in {table[r] + 1, MaxCopies}
        BY <1>0, <2>4, <2>8, <3>3, InsertedAre
      <4>2. CASE given'[r] = given[r]
        BY <3>1, <4>1, <4>2
      <4>3. CASE r \in R /\ given'[r] = given[r] + 1
        <5>1. given[r] + 1 <= MaxCopies
          BY <2>4, <3>1, <4>3, Counts
        <5> QED BY <3>1, <4>1, <4>3, <5>1
      <4> QED BY <2>9, <4>2, <4>3
    <3> QED BY <3>2, <3>3
  <2> QED BY <1>1, <2>1, <2>6, <2>10
<1>6. CASE EndRun
  <2>1. table' = table /\ truncated' = FALSE /\ given' = None /\ phase' = "returned"
    BY <1>0, <1>6 DEF EndRun, FinalizeRun
  <2> QED BY <1>0, <2>1
<1> QED BY <1>2, <1>3, <1>4, <1>5, <1>6 DEF Next

(* ReplacedByTheConnection: MySQL and Snowflake truncate before the first    *)
(* rows of a replace and never after one of them was loaded.                *)
THEOREM ReplacesBeforeItLoads == Spec => []ReplacedByTheConnection
<1>1. Init => ReplaceInv
  <2> SUFFICES ASSUME Init PROVE ReplaceInv
    OBVIOUS
  <2>1. \A r \in Rows : None[r] >= None[r]
    BY DEF None
  <2> QED BY <2>1 DEF Init, ReplaceInv
<1>2. IInv /\ CopyInv /\ ReplaceInv /\ [Next]_vars => ReplaceInv'
  BY ReplaceStep
<1>3. ReplaceInv => ReplacedByTheConnection
  BY DEF ReplaceInv, ReplacedByTheConnection, ReplacedByTheRun
<1> QED BY <1>1, <1>2, <1>3, TableInvariant, CopyInvariant, PTL DEF Spec

(* An upsert that the database does not refuse leaves the keys of its rows.  *)
LEMMA UpsertedAre ==
  ASSUME TypeOK, NEW s \in Statement, conn.kind = "postgres", s.how \in {"chunk", "single"},
         ~Inserts(s.how), ~Refused(s)
  PROVE  /\ \A r \in ToSet(s.rows) : Upserted(table, s.rows)[r] = 1
         /\ \A r \in Rows : KeyOf[r] \notin Keys(ToSet(s.rows)) => Upserted(table, s.rows)[r] = table[r]
<1>0. s.rows \in Seq(batch) /\ DOMAIN s.rows = 1..Len(s.rows) /\ Len(s.rows) \in Nat
      /\ ToSet(s.rows) \subseteq Rows
  <2>1. s.rows \in Seq(batch) /\ batch \subseteq Rows
    BY DEF Statement, TypeOK
  <2>2. ToSet(s.rows) \subseteq batch
    BY <2>1 DEF ToSet
  <2> QED BY <2>1, <2>2
<1>1. \A i \in DOMAIN s.rows : ~Repeats(s.rows, i)
  BY DEF Refused
<1>2. ASSUME NEW i \in DOMAIN s.rows PROVE LastOfItsKey(s.rows[i], s.rows)
  <2>1. ASSUME NEW j \in DOMAIN s.rows, j > i PROVE KeyOf[s.rows[j]] # KeyOf[s.rows[i]]
    <3>1. i \in 1..(j - 1)
      BY <1>0, <2>1
    <3> QED BY <1>1, <3>1 DEF Repeats
  <2> QED BY <2>1 DEF LastOfItsKey
<1>3. \A r \in ToSet(s.rows) : KeyOf[r] \in Keys(ToSet(s.rows)) /\ LastOfItsKey(r, s.rows) /\ r \in Rows
  BY <1>0, <1>2 DEF ToSet, Keys
<1> QED BY <1>3 DEF Upserted

(* A row or a chunk that is written leaves every key that was there, and    *)
(* its own.                                                                *)
LEMMA KeysLeft ==
  ASSUME TypeOK, MaxCopies > 0, conn.kind = "postgres" \/ InsertOnly,
         NEW s \in Statement, s.how \in {"chunk", "single"}, Effect(s), ~Refused(s)
  PROVE  Keys(Present(table)) \cup Keys(ToSet(s.rows)) \subseteq Keys(Present(table'))
<1>0. table \in [Rows -> 0..MaxCopies] /\ batch \subseteq Rows /\ \A r \in Rows : table[r] \in Nat
  BY Counts DEF TypeOK
<1>1. table' = IF Inserts(s.how) THEN Inserted(table, s.rows) ELSE Upserted(table, s.rows)
  BY EffectIs
<1>2. ToSet(s.rows) \subseteq Rows
  <2>1. s.rows \in Seq(batch)
    BY DEF Statement
  <2>2. ToSet(s.rows) \subseteq batch
    BY <2>1 DEF ToSet
  <2> QED BY <1>0, <2>2
<1>3. \A r \in ToSet(s.rows) : table'[r] > 0
  <2>1. CASE Inserts(s.how)
    BY <1>0, <1>1, <1>2, <2>1, InsertedAre
  <2>2. CASE ~Inserts(s.how)
    <3>1. conn.kind = "postgres"
      BY <2>2 DEF Inserts
    <3> QED BY <1>1, <2>2, <3>1, UpsertedAre
  <2> QED BY <2>1, <2>2
<1>4. \A r \in Rows : table[r] > 0 /\ KeyOf[r] \notin Keys(ToSet(s.rows)) => table'[r] > 0
  <2>1. CASE Inserts(s.how)
    <3>1. \A r \in Rows : Inserted(table, s.rows)[r] \in Nat /\ table[r] <= Inserted(table, s.rows)[r]
      BY <1>0, InsertedAre
    <3> QED BY <1>0, <1>1, <2>1, <3>1
  <2>2. CASE ~Inserts(s.how)
    <3>1. conn.kind = "postgres"
      BY <2>2 DEF Inserts
    <3>2. \A r \in Rows : KeyOf[r] \notin Keys(ToSet(s.rows)) => table'[r] = table[r]
      BY <1>1, <2>2, <3>1, UpsertedAre
    <3> QED BY <3>2
  <2> QED BY <2>1, <2>2
<1> QED BY <1>2, <1>3, <1>4 DEF Keys, Present

LEMMA LostStep ==
  ASSUME IInv, CopyInv, LostInv, [Next]_vars
  PROVE  LostInv'
<1> SUFFICES ASSUME Strategy = "delete+insert",
                    phase' \in {"plan", "write"} \/ (phase' = "returned" /\ ~fatal'),
                    NEW k \in had' \ Keys(Present(table'))
             PROVE  \E r \in batch' : KeyOf[r] = k /\ (verdict'[r] = "error" \/ r \in unreported' \cup RowsOf(queue'))
  <2>1. conn' = conn
    BY ConnectionStays
  <2>2. Keys(Present(table))' = Keys(Present(table'))
    BY DEF Keys, Present
  <2> QED BY <2>1, <2>2, SameConnection DEF LostInv
<1>0. ~ViaStaging /\ ~SkipsLog /\ ~staged
  BY DEF ViaStaging, SkipsLog, CopyInv
<1>1. ASSUME phase \in {"plan", "write"} \/ (phase = "returned" /\ ~fatal),
             had' = had, k \notin Keys(Present(table))
      PROVE  \E r \in batch : KeyOf[r] = k /\ (verdict[r] = "error" \/ r \in unreported \cup RowsOf(queue))
  BY <1>1 DEF LostInv
<1>2. CASE Begin
  <2>1. had' = Keys(Present(table)) /\ table' = table
    BY <1>2 DEF Begin, tableVars
  <2> QED BY <2>1
<1>3. CASE Truncate
  BY <1>3 DEF IInv, CountInv, Truncate, TruncatesFirst
<1>4. CASE Plan
  <2>1. phase = "plan" /\ Quiet
    BY <1>4, QuietSteps DEF Plan
  <2>2. PICK r \in batch : KeyOf[r] = k /\ (verdict[r] = "error" \/ r \in unreported \cup RowsOf(queue))
    BY <1>1, <2>1 DEF Quiet
  <2>3. RowsOf(queue) = {} /\ unreported = {} /\ batch \subseteq Rows
    BY <2>1, LineOfNone DEF IInv, LineInv, CountInv, TypeOK
  <2>4. verdict[r] = "none"
    BY <2>1, <2>3 DEF IInv, CountInv
  <2> QED BY <2>2, <2>3, <2>4
<1>5. CASE TakeTurn
  <2>1. phase = "write" /\ Quiet /\ queue = <<>> /\ unreported' = unreported
        /\ (Abort \/ \E h, p : TurnTaken(h, p))
    BY <1>5, QuietSteps, TakeTurnIs
  <2>2. PICK h, p : TurnTaken(h, p)
    BY <2>1 DEF Abort
  <2>3. PICK r \in batch : KeyOf[r] = k /\ (verdict[r] = "error" \/ r \in unreported \cup RowsOf(queue))
    BY <1>1, <2>1 DEF Quiet
  <2>4. RowsOf(queue) = {}
    BY <2>1, LineOfNone
  <2>5. h \in Waiting /\ r \in Rows
    BY <2>2 DEF TurnTaken, Waiting
  <2>6. verdict[h] = "none"
    BY <2>5 DEF IInv, CountInv
  <2>7. verdict[r] = "error" => verdict'[r] = "error"
    BY <2>2, <2>5, <2>6 DEF TurnTaken
  <2> QED BY <2>1, <2>3, <2>4, <2>7 DEF Quiet
<1>6. CASE TakeChunk
  <2>1. phase = "write" /\ Quiet /\ queue = <<>> /\ UNCHANGED <<unreported, verdict>>
    BY <1>6, QuietSteps, TakeChunkIs
  <2>2. RowsOf(queue) = {}
    BY <2>1, LineOfNone
  <2> QED BY <1>1, <2>1, <2>2 DEF Quiet
<1>7. CASE Return \/ EndContext \/ UNCHANGED vars
  <2>1. Quiet
    BY <1>7, QuietSteps
  <2>2. /\ UNCHANGED <<verdict, queue, unreported>>
        /\ phase \in {"plan", "write"} \/ (phase = "returned" /\ ~fatal)
    <3>1. CASE Return
      BY <3>1 DEF Return, planFrame
    <3>2. CASE EndContext \/ UNCHANGED vars
      BY <3>2 DEF EndContext, vars, loadVars, bookVars
    <3> QED BY <1>7, <3>1, <3>2
  <2> QED BY <1>1, <2>1, <2>2 DEF Quiet
<1>8. CASE Execute
  <2>1. had' = had /\ phase = "write" /\ batch' = batch
    BY <1>8, Executed
  <2>2. PICK end \in Ends, landed \in BOOLEAN :
          Ended(Head(queue), ToSet(Head(queue).rows), OnEnd(Head(queue).how, end), end, landed)
    BY <1>8, Executed
  <2> DEFINE s == Head(queue)
             R == ToSet(s.rows)
             what == OnEnd(s.how, end)
  <2>3. Ended(s, R, what, end, landed)
    BY <2>2
  <2> HIDE DEF s, R, what
  <2>4. /\ R = ToSet(s.rows) /\ s \in Statement /\ Fits(s) /\ MaxCopies > 0
        /\ R \subseteq Rows /\ R \subseteq batch /\ batch \subseteq Rows
        /\ \A r \in R : verdict[r] = "none"
        /\ landed => Effect(s) /\ ~Refused(s)
        /\ ~landed => table' = table /\ what # "loaded"
    BY <2>3 DEF Ended, tableVars
  <2>5. s.how \in {"chunk", "single", "delete"}
    BY <1>0, <2>4 DEF Fits, Statement, Hows
  <2>6. what \notin {"fatal", "insertBatch", "stageInsert"} /\ what \in Whats
    BY <2>3, <2>5 DEF Ended, Abort
  <2>7. \A r \in Rows \ R : verdict'[r] = verdict[r] /\ (r \in RowsOf(queue) => r \in RowsOf(queue'))
    BY <2>3, <2>6 DEF Ended, Whats
  <2>8. unreported \subseteq unreported'
    BY <2>3 DEF Ended
  <2>9. what # "loaded" =>
          \A r \in R : verdict'[r] = "error" \/ r \in unreported' \cup RowsOf(queue')
    BY <2>3, <2>6 DEF Ended, Whats
  <2>11. ASSUME k \notin Keys(Present(table)), k \notin Keys(R) \/ what # "loaded"
         PROVE  \E r \in batch' : KeyOf[r] = k /\ (verdict'[r] = "error" \/ r \in unreported' \cup RowsOf(queue'))
    <3>1. PICK r \in batch : KeyOf[r] = k /\ (verdict[r] = "error" \/ r \in unreported \cup RowsOf(queue))
      BY <1>1, <2>1, <2>11
    <3>2. CASE r \in R
      <4>1. what # "loaded"
        BY <2>11, <3>1, <3>2 DEF Keys
      <4> QED BY <2>1, <2>9, <3>1, <3>2, <4>1
    <3>3. CASE r \notin R
      BY <2>1, <2>4, <2>7, <2>8, <3>1, <3>3
    <3> QED BY <3>2, <3>3
  <2>12. CASE ~landed
    BY <2>4, <2>11, <2>12
  <2>13. CASE landed /\ s.how = "delete"
    <3>1. table' = WithoutKeys(table, Keys(R)) /\ what # "loaded"
      BY <2>3, <2>4, <2>13, EffectIs DEF Ended, IInv
    <3>2. CASE k \in Keys(R)
      <4>1. PICK r \in R : KeyOf[r] = k
        BY <3>2 DEF Keys
      <4> QED BY <2>1, <2>4, <2>9, <3>1, <4>1
    <3>3. CASE k \notin Keys(R)
      <4>1. k \notin Keys(Present(table))
        <5>1. \A r \in Rows : KeyOf[r] = k => table'[r] = table[r]
          BY <3>1, <3>3 DEF WithoutKeys
        <5> QED BY <5>1 DEF Keys, Present
      <4> QED BY <2>11, <3>3, <4>1
    <3> QED BY <3>2, <3>3
  <2>14. CASE landed /\ s.how \in {"chunk", "single"}
    <3>1. conn.kind = "postgres" \/ InsertOnly
      <4>1. conn.kind \in Kinds
        BY TableAssumption DEF IInv, TypeOK, ConnectionType
      <4> QED BY <4>1 DEF Kinds, InsertOnly
    <3>2. Keys(Present(table)) \cup Keys(R) \subseteq Keys(Present(table'))
      BY <2>4, <2>14, <3>1, KeysLeft DEF IInv
    <3> QED BY <2>11, <3>2
  <2> QED BY <2>5, <2>12, <2>13, <2>14
<1>9. CASE EndRun
  <2>1. /\ UNCHANGED <<table, had, batch, verdict, unreported, queue, phase, fatal>>
        /\ phase = "returned"
    BY <1>0, <1>9 DEF EndRun, FinalizeRun
  <2> QED BY <1>1, <2>1
<1> QED BY <1>2, <1>3, <1>4, <1>5, <1>6, <1>7, <1>8, <1>9 DEF Next

(* LostKeyReported: a key that was in the table when a delete+insert began   *)
(* and is gone at its end is the key of a row reported as failed, or left    *)
(* undecided by a timeout of the driver.                                    *)
THEOREM ReportsLostKeys == Spec => []LostKeyReported
<1>1. Init => LostInv
  BY DEF Init, LostInv
<1>2. IInv /\ CopyInv /\ LostInv /\ [Next]_vars => LostInv'
  BY LostStep
<1>3. IInv /\ LostInv => LostKeyReported
  <2>1. phase = "returned" /\ ~fatal /\ IInv => RowsOf(queue) = {}
    BY LineOfNone DEF IInv, LineInv
  <2> QED BY <2>1 DEF LostInv, LostKeyReported
<1> QED BY <1>1, <1>2, <1>3, TableInvariant, CopyInvariant, PTL DEF Spec

------------------------------------------------------------------------------
\* The order in which versions of a row are written

OrderOf(l, q) ==
  /\ InSequence(l)
  /\ \A i \in DOMAIN q : InSequence(q[i].rows)
  /\ \A i, j \in DOMAIN q : i < j /\ q[1].how # "delete" =>
       \A x \in ToSet(q[i].rows), y \in ToSet(q[j].rows) : Versions(x, y) => x < y
  /\ \A x \in RowsOf(q), y \in ToSet(l) : Versions(x, y) => x < y

LEMMA OneInSequence ==
  \A r : InSequence(<<r>>)
<1> TAKE r
<1>1. DOMAIN <<r>> = {1}
  OBVIOUS
<1> QED BY <1>1 DEF InSequence

LEMMA OrderStep ==
  ASSUME IInv, OrderInv, [Next]_vars
  PROVE  OrderInv'
<1> SUFFICES OrderOf(left', queue')
  BY DEF OrderOf, OrderInv
<1>0. OrderOf(left, queue)
  BY DEF OrderOf, OrderInv
<1>1. ASSUME UNCHANGED <<left, queue>> PROVE OrderOf(left', queue')
  BY <1>0, <1>1
<1>2. CASE Begin
  <2>1. left' = <<>> /\ queue' = <<>>
    BY <1>2 DEF Begin
  <2>2. OrderOf(<<>>, <<>>)
    <3>1. DOMAIN <<>> = {}
      OBVIOUS
    <3> QED BY <3>1, LineOfNone DEF OrderOf
  <2> QED BY <2>1, <2>2
<1>3. CASE Truncate \/ Return \/ EndRun \/ EndContext \/ UNCHANGED vars
  <2>1. UNCHANGED <<left, queue>>
    <3>1. CASE Truncate
      BY <3>1 DEF Truncate
    <3>2. CASE Return
      BY <3>2 DEF Return
    <3>3. CASE EndRun
      BY <3>3 DEF EndRun
    <3>4. CASE EndContext
      BY <3>4 DEF EndContext, loadVars
    <3>5. CASE UNCHANGED vars
      BY <3>5 DEF vars, loadVars
    <3> QED BY <1>3, <3>1, <3>2, <3>3, <3>4, <3>5
  <2> QED BY <1>1, <2>1
<1>4. CASE Plan
  <2>0. left = <<>> /\ queue = <<>> /\ batch # {} /\ phase = "plan" /\ batch \in SUBSET Rows
    BY <1>4 DEF Plan, IInv, LineInv, CountInv, TypeOK
  <2>1. CASE UNCHANGED <<left, queue>>
    BY <1>1, <2>1
  <2>2. CASE /\ bulk \/ ViaStaging
             /\ queue' = <<Stmt(IF ~ViaStaging THEN "copy" ELSE IF bulk THEN "stageCopy"
                                ELSE "stageInsert", Ordered(batch, AsSent(batch)))>>
             /\ left' = left
    <3>1. DOMAIN queue' = {1} /\ InSequence(queue'[1].rows)
      BY <2>0, <2>2, WholeBatch DEF IInv
    <3>2. left' = <<>> /\ ToSet(left') = {} /\ InSequence(left')
      BY <2>0, <2>2, LineOfNone
    <3> QED BY <3>1, <3>2 DEF OrderOf
  <2>3. ASSUME NEW rows \in SUBSET batch, PutInLine(rows) PROVE OrderOf(left', queue')
    <3>1. /\ InSequence(left') /\ \A i \in DOMAIN queue' : InSequence(queue'[i].rows)
          /\ \A i, j \in DOMAIN queue' : i < j =>
               \A x \in ToSet(queue'[i].rows), y \in ToSet(queue'[j].rows) : x < y
          /\ left' = <<>> \/ queue' = <<>>
      BY <2>0, <2>3, PutInLineIs
    <3>2. ToSet(left') = {} \/ RowsOf(queue') = {}
      BY <3>1, LineOfNone
    <3> QED BY <3>1, <3>2 DEF OrderOf
  <2>4. \/ UNCHANGED <<left, queue>>
        \/ /\ bulk \/ ViaStaging
           /\ queue' = <<Stmt(IF ~ViaStaging THEN "copy" ELSE IF bulk THEN "stageCopy"
                              ELSE "stageInsert", Ordered(batch, AsSent(batch)))>>
           /\ left' = left
        \/ \E unread : PutInLine(batch) \/ PutInLine(Pending(batch, unread))
    BY <1>4 DEF Plan
  <2>5. \A unread : Pending(batch, unread) \in SUBSET batch
    BY DEF Pending
  <2> QED BY <2>1, <2>2, <2>3, <2>4, <2>5
<1>5. CASE TakeTurn
  <2>1. /\ left # <<>> /\ left \in Seq(batch) /\ Distinct(left)
        /\ UNCHANGED <<left, queue>> \/ \E h, p : TurnTaken(h, p)
    BY <1>5, TakeTurnIs
  <2>2. SUFFICES ASSUME NEW h, NEW p, TurnTaken(h, p) PROVE OrderOf(left', queue')
    BY <1>1, <2>1
  <2>3. /\ h = Head(left) /\ left' = Tail(left) /\ RowsOf(queue') \subseteq {h} /\ Apart(queue')
        /\ \A i \in DOMAIN queue' : queue'[i].rows = <<h>>
    BY <2>2 DEF TurnTaken
  <2>4. /\ h = left[1] /\ 1 \in DOMAIN left
        /\ \A i \in DOMAIN left' : i + 1 \in DOMAIN left /\ left'[i] = left[i + 1]
        /\ left' \in Seq(batch)
    BY <2>1, <2>3, HeadOfLine
  <2>5. DOMAIN left' \subseteq Nat \ {0}
    BY <2>4
  <2>6. InSequence(left')
    <3>1. \A i, j \in DOMAIN left' : i < j => i + 1 < j + 1
      BY <2>5
    <3> QED BY <1>0, <2>4, <3>1 DEF OrderOf, InSequence
  <2>7. \A x \in RowsOf(queue'), y \in ToSet(left') : Versions(x, y) => x < y
    <3>1. ASSUME NEW i \in DOMAIN left', Versions(h, left'[i]) PROVE h < left'[i]
      <4>1. 1 < i + 1
        BY <2>5
      <4> QED BY <1>0, <2>4, <3>1, <4>1 DEF OrderOf, InSequence
    <3> QED BY <2>3, <3>1 DEF ToSet
  <2>8. ASSUME NEW i \in DOMAIN queue', NEW j \in DOMAIN queue', i < j, queue'[1].how # "delete"
        PROVE  FALSE
    <3>1. i # j
      <4>1. queue' \in Seq(Statement)
        BY <2>2 DEF TurnTaken
      <4>2. i \in Nat /\ j \in Nat
        BY <4>1
      <4> QED BY <2>8, <4>2
    <3>2. h \in ToSet(<<h>>)
      BY DEF ToSet
    <3> QED BY <2>3, <2>8, <3>1, <3>2 DEF Apart
  <2>9. \A i \in DOMAIN queue' : InSequence(queue'[i].rows)
    BY <2>3, OneInSequence
  <2> QED BY <2>6, <2>7, <2>8, <2>9 DEF OrderOf
<1>6. CASE TakeChunk
  <2>1. PICK a : ChunkTaken(a)
    BY <1>6, TakeChunkIs
  <2>2. /\ a \in Seq(batch) \ {<<>>} /\ left' \in Seq(batch) /\ left \in Seq(batch)
        /\ \A i \in DOMAIN a : i \in DOMAIN left /\ i <= Len(a) /\ a[i] = left[i]
        /\ \A i \in DOMAIN left' : i + Len(a) \in DOMAIN left /\ left'[i] = left[i + Len(a)]
        /\ queue' \in Seq(Statement) /\ Apart(queue') /\ RowsOf(queue') = ToSet(a)
        /\ \A i \in DOMAIN queue' : queue'[i].rows = a
    BY <1>6, <2>1, TakeChunkIs DEF ChunkTaken
  <2>3. Len(a) \in Nat /\ DOMAIN a \subseteq Nat \ {0} /\ DOMAIN left' \subseteq Nat \ {0}
    BY <2>2
  <2>4. InSequence(a)
    BY <1>0, <2>2 DEF OrderOf, InSequence
  <2>5. InSequence(left')
    <3>1. \A i, j \in DOMAIN left' : i < j => i + Len(a) < j + Len(a)
      BY <2>3
    <3> QED BY <1>0, <2>2, <3>1 DEF OrderOf, InSequence
  <2>6. ASSUME NEW x \in RowsOf(queue'), NEW y \in ToSet(left'), Versions(x, y) PROVE x < y
    <3>1. PICK i \in DOMAIN a : x = a[i]
      BY <2>2 DEF ToSet
    <3>2. PICK j \in DOMAIN left' : y = left'[j]
      BY DEF ToSet
    <3>3. i < j + Len(a) /\ i \in DOMAIN left /\ j + Len(a) \in DOMAIN left
      BY <2>2, <2>3
    <3>4. x = left[i] /\ y = left[j + Len(a)]
      BY <2>2, <3>1, <3>2
    <3> QED BY <1>0, <2>6, <3>3, <3>4 DEF OrderOf, InSequence
  <2>7. ASSUME NEW i \in DOMAIN queue', NEW j \in DOMAIN queue', i < j, queue'[1].how # "delete"
        PROVE  FALSE
    <3>1. i # j
      <4>1. i \in Nat /\ j \in Nat
        BY <2>2
      <4> QED BY <2>7, <4>1
    <3>2. ToSet(a) # {}
      <4>1. 1 \in DOMAIN a
        BY <2>2, EmptySeq
      <4> QED BY <4>1 DEF ToSet
    <3>3. ToSet(a) \cap ToSet(a) = {}
      BY <2>2, <2>7, <3>1 DEF Apart
    <3> QED BY <3>2, <3>3
  <2> QED BY <2>2, <2>4, <2>5, <2>6, <2>7 DEF OrderOf
<1>7. CASE Execute
  <2>2. PICK end \in Ends, landed \in BOOLEAN :
          Ended(Head(queue), ToSet(Head(queue).rows), OnEnd(Head(queue).how, end), end, landed)
    BY <1>7, Executed
  <2> DEFINE s == Head(queue)
             R == ToSet(s.rows)
             what == OnEnd(s.how, end)
  <2>3. Ended(s, R, what, end, landed)
    BY <2>2
  <2> HIDE DEF s, R, what
  <2>4. /\ s = queue[1] /\ 1 \in DOMAIN queue /\ left' = left /\ RowsOf(queue') \subseteq RowsOf(queue)
        /\ s.rows \in Seq(batch) /\ InSequence(s.rows) /\ Distinct(s.rows)
    BY <1>0, <2>3 DEF Ended, OrderOf, Statement
  <2>5. /\ InSequence(left')
        /\ \A x \in RowsOf(queue'), y \in ToSet(left') : Versions(x, y) => x < y
    BY <1>0, <2>4 DEF OrderOf
  <2>6. CASE queue' = <<>>
    <3>1. DOMAIN queue' = {}
      BY <2>6
    <3> QED BY <2>5, <3>1 DEF OrderOf
  <2>7. CASE queue' = Tail(queue)
    <3>1. /\ queue \in Seq(Statement) /\ Shape(queue) /\ queue' \in Seq(Statement)
          /\ \A i \in DOMAIN queue' : i + 1 \in DOMAIN queue /\ queue'[i] = queue[i + 1]
      BY <2>3, <2>7 DEF Ended, IInv, LineInv
    <3>2. DOMAIN queue' \subseteq Nat \ {0} /\ DOMAIN queue = 1..Len(queue) /\ Len(queue) \in Nat
      BY <3>1
    <3>3. \A i \in DOMAIN queue' : InSequence(queue'[i].rows)
      BY <1>0, <3>1 DEF OrderOf
    <3>4. ASSUME NEW i \in DOMAIN queue', NEW j \in DOMAIN queue', i < j,
                 NEW x \in ToSet(queue'[i].rows), NEW y \in ToSet(queue'[j].rows), Versions(x, y)
          PROVE  x < y
      <4>1. i + 1 < j + 1 /\ i + 1 > 1
        BY <3>2, <3>4
      <4>2. CASE queue[1].how # "delete"
        BY <1>0, <3>1, <3>4, <4>1, <4>2 DEF OrderOf
      <4>3. CASE queue[1].how = "delete"
        <5>1. Len(queue) = 2
          BY <2>4, <4>3, <3>1 DEF Shape
        <5>2. i + 1 <= 2 /\ j + 1 <= 2
          BY <3>1, <3>2, <5>1
        <5> QED BY <3>2, <4>1, <5>2
      <4> QED BY <4>2, <4>3
    <3> QED BY <2>5, <3>3, <3>4 DEF OrderOf
  <2>8. CASE queue' = Singles(s.rows)
    <3> DEFINE t == Singles(s.rows)
    <3>0. /\ DOMAIN t = DOMAIN s.rows
          /\ \A i \in DOMAIN t : t[i] = Stmt("single", <<s.rows[i]>>) /\ ToSet(t[i].rows) = {s.rows[i]}
      BY <2>4, LineOfSingles
    <3> HIDE DEF t
    <3>1. /\ DOMAIN queue' = DOMAIN s.rows
          /\ \A i \in DOMAIN queue' : /\ queue'[i] = Stmt("single", <<s.rows[i]>>)
                                      /\ ToSet(queue'[i].rows) = {s.rows[i]}
      BY <2>8, <3>0 DEF t
    <3>2. ASSUME NEW i \in DOMAIN queue' PROVE InSequence(queue'[i].rows)
      <4>1. queue'[i].rows = <<s.rows[i]>>
        <5>1. queue'[i] = Stmt("single", <<s.rows[i]>>)
          BY <3>1
        <5>2. Stmt("single", <<s.rows[i]>>).rows = <<s.rows[i]>>
          BY DEF Stmt
        <5> QED BY <5>1, <5>2
      <4> QED BY <4>1, OneInSequence
    <3>3. ASSUME NEW i \in DOMAIN queue', NEW j \in DOMAIN queue', i < j,
                 NEW x \in ToSet(queue'[i].rows), NEW y \in ToSet(queue'[j].rows), Versions(x, y)
          PROVE  x < y
      <4>1. x = s.rows[i] /\ y = s.rows[j] /\ i \in DOMAIN s.rows /\ j \in DOMAIN s.rows
        BY <3>1, <3>3
      <4> QED BY <2>4, <3>3, <4>1 DEF InSequence
    <3> QED BY <2>5, <3>2, <3>3 DEF OrderOf
  <2>9. CASE queue' = <<Stmt("stageInsert", s.rows)>>
    <3>1. DOMAIN queue' = {1} /\ queue'[1].rows = s.rows
      BY <2>9 DEF Stmt
    <3> QED BY <2>4, <2>5, <3>1 DEF OrderOf
  <2>10. queue' \in {<<>>, Tail(queue), Singles(s.rows), <<Stmt("stageInsert", s.rows)>>}
    BY <2>3 DEF Ended, Whats
  <2> QED BY <2>6, <2>7, <2>8, <2>9, <2>10
<1> QED BY <1>2, <1>3, <1>4, <1>5, <1>6, <1>7 DEF Next

(* Only a statement loads a row.                                           *)
LEMMA NothingLoaded ==
  ASSUME IInv, Plan \/ TakeTurn \/ TakeChunk \/ Return \/ EndContext \/ EndRun \/ UNCHANGED vars,
         NEW r \in Rows, verdict'[r] = "loaded"
  PROVE  verdict[r] = "loaded" /\ ~Plan
<1>1. CASE Plan
  <2>1. verdict[r] = "none" /\ batch \subseteq Rows
    BY <1>1 DEF Plan, IInv, CountInv, TypeOK
  <2>2. UNCHANGED verdict \/ \E unread : verdict' = Book(batch, unread)
    BY <1>1 DEF Plan
  <2>3. \A unread : Book(batch, unread)[r] \in {verdict[r], "skipped", "error"}
    BY <2>1, BookIs DEF IInv
  <2> QED BY <2>1, <2>2, <2>3
<1>2. CASE TakeTurn
  <2>1. UNCHANGED verdict \/ \E h, p : TurnTaken(h, p)
    BY <1>2, TakeTurnIs
  <2>2. phase = "write" /\ ~Plan
    BY <1>2 DEF TakeTurn, Plan
  <2> QED BY <2>1, <2>2 DEF TurnTaken
<1>3. CASE TakeChunk \/ Return
  BY <1>3 DEF TakeChunk, Return, Plan
<1>4. CASE EndContext \/ UNCHANGED vars
  <2>1. UNCHANGED <<verdict, phase>>
    BY <1>4 DEF EndContext, vars, loadVars
  <2>2. ~Plan
    BY <2>1 DEF Plan, Abort
  <2> QED BY <2>1, <2>2
<1>5. CASE EndRun
  BY <1>5 DEF EndRun, Plan
<1> QED BY <1>1, <1>2, <1>3, <1>4, <1>5

LEMMA LatestStep ==
  ASSUME IInv, CopyInv, OrderInv, LatestInv, [Next]_vars
  PROVE  LatestInv'
<1> SUFFICES ASSUME Strategy \in {"merge", "upsert"}, conn.match > 0
             PROVE  /\ \A q \in Waiting', r \in batch' : Versions(q, r) /\ q < r => verdict'[r] # "loaded"
                    /\ \A r \in batch' : Latest(r)' /\ verdict'[r] = "loaded" => table'[r] = 1
  <2>1. conn' = conn
    BY ConnectionStays
  <2> QED BY <2>1, SameConnection DEF LatestInv
<1>0. /\ ~ViaStaging /\ ~SkipsLog /\ ~staged /\ ~InsertOnly
      /\ batch \subseteq Rows /\ table \in [Rows -> 0..MaxCopies] /\ Rows \subseteq Nat
      /\ \A q \in Waiting, r \in batch : Versions(q, r) /\ q < r => verdict[r] # "loaded"
      /\ \A r \in batch : Latest(r) /\ verdict[r] = "loaded" => table[r] = 1
  <2>1. ~ViaStaging /\ ~SkipsLog /\ ~staged
    BY DEF ViaStaging, SkipsLog, CopyInv
  <2>2. conn.kind \in Kinds /\ Connects(conn)
    BY TableAssumption DEF IInv, TypeOK, ConnectionType
  <2>3. ~InsertOnly
    BY <2>1, <2>2 DEF InsertOnly, Kinds, Connects, MySQLConnects, SnowflakeConnects, Strategy
  <2>4. batch \subseteq Rows /\ table \in [Rows -> 0..MaxCopies] /\ Rows \subseteq Nat
    BY TableAssumption DEF IInv, TypeOK
  <2> QED BY <2>1, <2>3, <2>4 DEF LatestInv
<1>1. CASE Begin
  <2>1. \A r \in Rows : verdict'[r] = "none"
    BY <1>1 DEF Begin
  <2>2. batch' \subseteq Rows
    BY <1>1 DEF Begin
  <2>3. \A r \in batch' : verdict'[r] # "loaded"
    BY <2>1, <2>2
  <2> QED BY <2>3
<1>2. CASE Truncate
  BY <1>2 DEF IInv, CountInv, Truncate, TruncatesFirst
<1>3. CASE Plan \/ TakeTurn \/ TakeChunk \/ Return \/ EndContext \/ EndRun \/ UNCHANGED vars
  <2>1. \A r \in batch : verdict'[r] = "loaded" => verdict[r] = "loaded" /\ ~Plan
    BY <1>0, <1>3, NothingLoaded
  <2>2. batch' = batch /\ table' = table
    <3>1. CASE EndRun
      BY <1>0, <3>1 DEF EndRun, FinalizeRun
    <3>2. CASE ~EndRun
      BY <1>3, <3>2, QuietSteps DEF Quiet
    <3> QED BY <3>1, <3>2
  <2>3. ~Plan => Waiting' \subseteq Waiting
    <3>1. CASE TakeTurn
      <4>1. UNCHANGED <<left, queue>> \/ \E h, p : TurnTaken(h, p)
        BY <3>1, TakeTurnIs
      <4> QED BY <4>1 DEF TurnTaken, Waiting
    <3>2. CASE TakeChunk
      BY <3>2, TakeChunkIs DEF ChunkTaken
    <3>3. CASE Return
      BY <3>3 DEF Return, Waiting
    <3>4. CASE EndContext \/ UNCHANGED vars
      BY <3>4 DEF EndContext, vars, loadVars, Waiting
    <3>5. CASE EndRun
      BY <3>5 DEF EndRun, Waiting
    <3> QED BY <1>3, <3>1, <3>2, <3>3, <3>4, <3>5
  <2>4. ASSUME NEW q \in Waiting', NEW r \in batch', Versions(q, r), q < r
        PROVE  verdict'[r] # "loaded"
    BY <1>0, <2>1, <2>2, <2>3, <2>4
  <2>5. ASSUME NEW r \in batch', Latest(r)', verdict'[r] = "loaded" PROVE table'[r] = 1
    <3>1. Latest(r)
      BY <2>2, <2>5 DEF Latest
    <3> QED BY <1>0, <2>1, <2>2, <2>5, <3>1
  <2> QED BY <2>4, <2>5
<1>4. CASE Execute
  <2>1. batch' = batch
    BY <1>4, Executed
  <2>2. PICK end \in Ends, landed \in BOOLEAN :
          Ended(Head(queue), ToSet(Head(queue).rows), OnEnd(Head(queue).how, end), end, landed)
    BY <1>4, Executed
  <2> DEFINE s == Head(queue)
             R == ToSet(s.rows)
             what == OnEnd(s.how, end)
  <2>3. Ended(s, R, what, end, landed)
    BY <2>2
  <2> HIDE DEF s, R, what
  <2>4. /\ s = queue[1] /\ 1 \in DOMAIN queue /\ R = ToSet(s.rows) /\ s \in Statement /\ Fits(s)
        /\ MaxCopies > 0 /\ R \subseteq Rows /\ R \subseteq batch /\ R \subseteq Waiting
        /\ R \subseteq RowsOf(queue) /\ left' = left
        /\ Waiting \subseteq batch
        /\ \A r \in R : verdict[r] = "none"
        /\ \A r \in Rows \ R : verdict'[r] = verdict[r]
        /\ landed => Effect(s) /\ ~Refused(s)
        /\ ~landed => table' = table /\ end # "ok"
    BY <2>3 DEF Ended, tableVars
  <2>5. s.how \in {"chunk", "single"} /\ ~Inserts(s.how)
    BY <1>0, <2>4 DEF Fits, Statement, Hows, Inserts
  <2>6. landed => table' = Upserted(table, s.rows)
    BY <2>4, <2>5, EffectIs DEF IInv
  <2>7. ASSUME NEW r \in R, verdict'[r] = "loaded"
        PROVE  /\ what = "loaded" /\ landed /\ Waiting' = Waiting \ R
               /\ queue' = Tail(queue)
    <3>1. what = "loaded"
      BY <2>3, <2>4, <2>7 DEF Ended
    <3> QED BY <2>3, <2>5, <3>1 DEF Ended
  <2>8. ASSUME NEW q \in Waiting', NEW r \in batch, Versions(q, r), q < r, verdict'[r] = "loaded"
        PROVE  FALSE
    <3>1. CASE r \notin R
      <4>1. q \in Waiting /\ verdict[r] = "loaded"
        <5>1. Waiting' \subseteq Waiting
          BY <2>3 DEF Ended, Waiting
        <5> QED BY <1>0, <2>4, <2>8, <3>1, <5>1
      <4> QED BY <1>0, <2>8, <4>1
    <3>2. CASE r \in R
      <4>1. what = "loaded" /\ q \notin R /\ q \in Waiting
        BY <2>7, <2>8, <3>2
      <4>2. Versions(r, q) /\ ~(r < q)
        <5>1. q \in Nat /\ r \in Nat
          BY <1>0, <2>4, <4>1
        <5> QED BY <2>8, <5>1 DEF Versions
      <4>3. CASE q \in ToSet(left)
        BY <2>4, <3>2, <4>2, <4>3 DEF OrderInv
      <4>4. CASE q \in RowsOf(queue)
        <5>1. PICK j \in DOMAIN queue : q \in ToSet(queue[j].rows)
          BY <4>4 DEF RowsOf
        <5>2. 1 < j
          <6>1. queue \in Seq(Statement)
            BY DEF IInv, LineInv
          <6>2. j \in Nat \ {0}
            BY <6>1
          <6> QED BY <2>4, <4>1, <5>1, <6>2
        <5>3. queue[1].how # "delete"
          BY <2>4, <2>5
        <5> QED BY <2>4, <3>2, <4>2, <5>1, <5>2, <5>3 DEF OrderInv
      <4> QED BY <4>1, <4>3, <4>4 DEF Waiting
    <3> QED BY <3>1, <3>2
  <2>9. ASSUME NEW r \in batch, Latest(r), verdict'[r] = "loaded" PROVE table'[r] = 1
    <3>1. CASE r \in R
      <4>1. landed
        BY <2>7, <2>9, <3>1
      <4>2. LastOfItsKey(r, s.rows)
        <5>1. PICK i \in DOMAIN s.rows : s.rows[i] = r
          BY <2>4, <3>1 DEF ToSet
        <5>2. ASSUME NEW j \in DOMAIN s.rows, j > i, KeyOf[s.rows[j]] = KeyOf[r] PROVE FALSE
          <6>1. s.rows[j] \in R
            BY <2>4 DEF ToSet
          <6>2. s.rows[j] \in batch /\ s.rows[j] \in Nat /\ r \in Nat
            BY <1>0, <2>4, <6>1
          <6>3. s.rows[j] <= r /\ Versions(r, s.rows[j])
            BY <2>9, <5>2, <6>2 DEF Latest, Versions
          <6>4. InSequence(s.rows)
            BY <2>4 DEF OrderInv
          <6>5. i < j
            <7>1. s.rows \in Seq(batch)
              BY <2>4 DEF Statement
            <7> QED BY <5>2, <7>1
          <6>6. r < s.rows[j]
            BY <5>1, <6>3, <6>4, <6>5 DEF InSequence
          <6> QED BY <6>2, <6>3, <6>6
        <5> QED BY <5>1, <5>2 DEF LastOfItsKey
      <4>3. KeyOf[r] \in Keys(ToSet(s.rows)) /\ r \in Rows
        BY <1>0, <2>4, <3>1 DEF Keys
      <4> QED BY <2>6, <4>1, <4>2, <4>3 DEF Upserted
    <3>2. CASE r \notin R
      <4>1. verdict[r] = "loaded" /\ table[r] = 1 /\ r \in Rows
        BY <1>0, <2>4, <2>9, <3>2
      <4>2. KeyOf[r] \notin Keys(R)
        <5>1. SUFFICES ASSUME NEW q \in R, KeyOf[q] = KeyOf[r] PROVE FALSE
          BY DEF Keys
        <5>2. q \in batch /\ q \in Waiting /\ q # r /\ q \in Nat /\ r \in Nat
          BY <1>0, <2>4, <3>2
        <5>3. q <= r /\ ColumnsOf[q] = ColumnsOf[r]
          BY <2>9, <5>1, <5>2 DEF Latest
        <5>4. q < r /\ Versions(q, r)
          BY <5>1, <5>2, <5>3 DEF Versions
        <5> QED BY <1>0, <4>1, <5>2, <5>4
      <4>3. landed => table'[r] = table[r]
        BY <2>4, <2>6, <4>1, <4>2 DEF Upserted
      <4> QED BY <2>4, <4>1, <4>3
    <3> QED BY <3>1, <3>2
  <2>10. \A r \in batch : Latest(r)' => Latest(r)
    BY <2>1 DEF Latest
  <2> QED BY <2>1, <2>8, <2>9, <2>10
<1> QED BY <1>1, <1>2, <1>3, <1>4 DEF Next

(* LatestWins: sorted by key, cut into chunks and taken apart again, the     *)
(* versions of a row in one Load reach the table in their order: of those    *)
(* that are all loaded the last one stays.                                  *)
THEOREM LatestVersionStays == Spec => []LatestWins
<1>1. Init => OrderInv /\ LatestInv
  <2> SUFFICES ASSUME Init PROVE OrderInv /\ LatestInv
    OBVIOUS
  <2>1. left = <<>> /\ queue = <<>> /\ batch = {} /\ DOMAIN queue = {}
    BY DEF Init
  <2> QED BY <2>1, LineOfNone DEF OrderInv, LatestInv
<1>2. IInv /\ OrderInv /\ [Next]_vars => OrderInv'
  BY OrderStep
<1>3. IInv /\ CopyInv /\ OrderInv /\ LatestInv /\ [Next]_vars => LatestInv'
  BY LatestStep
<1>4. LatestInv => LatestWins
  BY DEF LatestInv, LatestWins, Latest
<1> QED BY <1>1, <1>2, <1>3, <1>4, TableInvariant, CopyInvariant, PTL DEF Spec

LEMMA CurrentStep ==
  ASSUME IInv, OneCurrent, [Next]_vars
  PROVE  OneCurrent'
<1> SUFFICES ASSUME Strategy = "scd2", NEW k \in Keys(written')
             PROVE  Cardinality({r \in current' : KeyOf[r] = k}) = 1
  <2>1. conn' = conn
    BY ConnectionStays
  <2>2. Keys(written)' = Keys(written')
    BY DEF Keys
  <2> QED BY <2>1, <2>2, SameConnection DEF OneCurrent
<1>0. ~SkipsLog /\ ~ViaStaging
  BY DEF SkipsLog, ViaStaging
<1>1. ASSUME k \in Keys(written) PROVE Cardinality({r \in current : KeyOf[r] = k}) = 1
  BY <1>1 DEF OneCurrent
<1>2. CASE ~Execute
  <2>1. UNCHANGED <<written, current>>
    <3>1. CASE Begin
      BY <1>0, <3>1 DEF Begin, tableVars
    <3>2. CASE Truncate
      BY <3>2 DEF Truncate
    <3>3. CASE Plan \/ TakeTurn \/ TakeChunk \/ Return
      BY <3>3 DEF Plan, TakeTurn, TakeChunk, Return, planFrame, tableVars
    <3>4. CASE EndRun
      BY <3>4 DEF EndRun
    <3>5. CASE EndContext
      BY <3>5 DEF EndContext, tableVars, bookVars
    <3>6. CASE UNCHANGED vars
      BY <3>6 DEF vars, tableVars, bookVars
    <3> QED BY <1>2, <3>1, <3>2, <3>3, <3>4, <3>5, <3>6 DEF Next
  <2> QED BY <1>1, <2>1
<1>3. CASE Execute
  <2>2. PICK end \in Ends, landed \in BOOLEAN :
          Ended(Head(queue), ToSet(Head(queue).rows), OnEnd(Head(queue).how, end), end, landed)
    BY <1>3, Executed
  <2> DEFINE s == Head(queue)
             R == ToSet(s.rows)
             what == OnEnd(s.how, end)
  <2>3. Ended(s, R, what, end, landed)
    BY <2>2
  <2> HIDE DEF s, R, what
  <2>4. /\ R = ToSet(s.rows) /\ s \in Statement /\ Fits(s) /\ MaxCopies > 0
        /\ landed => Effect(s)
        /\ ~landed => UNCHANGED current
        /\ written' = IF landed /\ s.how # "delete" THEN written \cup R ELSE written
    BY <2>3 DEF Ended, tableVars
  <2>5. s.how = "scd2" /\ Len(s.rows) = 1
    BY <2>4 DEF Fits
  <2>6. CASE ~landed
    BY <1>1, <2>4, <2>6
  <2>7. CASE landed
    <3> DEFINE h == s.rows[1]
    <3>1. R = {h}
      <4>1. s.rows \in Seq(batch)
        BY <2>4 DEF Statement
      <4>2. DOMAIN s.rows = {1}
        BY <2>5, <4>1
      <4> QED BY <2>4, <4>2 DEF ToSet
    <3>2. current' = {q \in current : KeyOf[q] # KeyOf[h]} \cup {h}
      <4>1. Scd2(h)
        BY <2>4, <2>5, <2>7, EffectIs DEF IInv
      <4> QED BY <4>1 DEF Scd2
    <3>3. written' = written \cup {h}
      BY <2>4, <2>5, <2>7, <3>1
    <3> HIDE DEF h
    <3>4. CASE k = KeyOf[h]
      <4>1. {r \in current' : KeyOf[r] = k} = {h}
        BY <3>2, <3>4
      <4> QED BY <4>1, FS_Singleton
    <3>5. CASE k # KeyOf[h]
      <4>1. {r \in current' : KeyOf[r] = k} = {r \in current : KeyOf[r] = k}
        BY <3>2, <3>5
      <4>2. k \in Keys(written)
        BY <3>3, <3>5 DEF Keys
      <4> QED BY <1>1, <4>1, <4>2
    <3> QED BY <3>4, <3>5
  <2> QED BY <2>6, <2>7
<1> QED BY <1>2, <1>3

(* OneCurrent: each key that was ever written has exactly one current        *)
(* version, also when a commit's answer was lost and the row came again.     *)
THEOREM OneVersionCurrent == Spec => []OneCurrent
<1>1. Init => OneCurrent
  BY DEF Init, OneCurrent, Keys
<1>2. IInv /\ OneCurrent /\ [Next]_vars => OneCurrent'
  BY CurrentStep
<1> QED BY <1>1, <1>2, TableInvariant, PTL DEF Spec

------------------------------------------------------------------------------
\* The contract of destination.go

(* The log as the contract sees it: a strategy that skips the delivery log   *)
(* keeps the contract within one Load.                                     *)
Logged == IF SkipsLog THEN {r \in Rows : verdict[r] = "loaded"} ELSE marked
AtWork == {"truncate", "plan", "write"}

(* What makes a step of the model one of the contract.                     *)
ContractKept ==
  /\ phase \in AtWork /\ phase' \in AtWork \cup {"returned"} /\ UNCHANGED <<conn, batch>>
  /\ written \subseteq written' /\ (written' \ written) \cap Logged = {}
  /\ marked \subseteq marked'
  /\ \A r \in Rows : verdict'[r] # verdict[r] =>
       /\ verdict[r] = "none"
       /\ verdict'[r] = "skipped" => ~SkipsLog /\ r \in marked
       /\ verdict'[r] = "loaded" => r \in written' /\ (~SkipsLog => r \in marked' \ marked)
  /\ ~SkipsLog => \A r \in marked' \ marked : verdict[r] = "none" /\ verdict'[r] = "loaded"

LEMMA KeptIsStep ==
  ASSUME IInv, IInv', ContractKept
  PROVE  Contract!Step
<1>1. SkipsLog' = SkipsLog
  BY SameConnection DEF ContractKept
<1>2. Logged' = IF SkipsLog THEN {r \in Rows : verdict'[r] = "loaded"} ELSE marked'
  BY <1>1 DEF Logged
<1>3. Logged \subseteq Logged'
  BY <1>2 DEF Logged, ContractKept
<1>4. marked' \subseteq Rows
  BY DEF IInv, TypeOK
<1>5. \A r \in Logged' \ Logged : verdict[r] = "none" /\ verdict'[r] = "loaded"
  BY <1>2, <1>4 DEF Logged, ContractKept
<1>6. ASSUME NEW r \in Rows, verdict'[r] # verdict[r]
      PROVE  /\ verdict'[r] = "skipped" => r \in Logged
             /\ verdict'[r] = "loaded" => r \in written' /\ r \in Logged' \ Logged
  BY <1>2, <1>6 DEF Logged, ContractKept
<1>7. phase \notin {"idle", "returned"} /\ ~fatal /\ fatal' \in BOOLEAN /\ batch' \subseteq Rows
  BY DEF ContractKept, AtWork, IInv, CountInv, TypeOK
<1>8. phase' \notin {"idle", "returned"} => ~fatal'
  BY DEF ContractKept, AtWork, IInv, CountInv
<1>9. phase' = "returned" /\ ~fatal' /\ unreported' = {} => \A r \in batch : verdict'[r] \in Contract!Counted
  <2>1. \A r \in batch : verdict'[r] \in {"none"} \cup Contract!Counted
    BY DEF IInv, TypeOK, ContractKept, Contract!Counted
  <2>2. phase' = "returned" /\ ~fatal' /\ unreported' = {} => \A r \in batch : verdict'[r] # "none"
    BY DEF ContractKept, IInv, CountInv
  <2> QED BY <2>1, <2>2
<1>10. Contract!Count
  BY <1>3, <1>5, <1>6 DEF Contract!Count, Logged, ContractKept
<1>11. written \subseteq written' /\ (written' \ written) \cap Logged = {} /\ batch' = batch
       /\ phase' \in AtWork \cup {"returned"}
  BY DEF ContractKept
<1>12. fatal = FALSE /\ (phase' # "returned" => fatal' = FALSE)
  BY <1>7, <1>8, <1>11 DEF AtWork
<1> QED BY <1>7, <1>9, <1>10, <1>11, <1>12 DEF Contract!Step, Contract!Between, Logged, AtWork

\* Steps that write nothing and count at most rows as skipped or failed.
LEMMA TurnKept ==
  ASSUME IInv, Truncate \/ Plan \/ TakeTurn \/ TakeChunk \/ Return
  PROVE  ContractKept
<1>1. UNCHANGED <<conn, batch, written, marked>>
  BY DEF Truncate, Plan, TakeTurn, TakeChunk, Return, planFrame
<1>2. phase \in AtWork /\ phase' \in AtWork \cup {"returned"}
  BY DEF Truncate, Plan, TakeTurn, TakeChunk, Return, Abort, AtWork
<1>3. \/ UNCHANGED verdict
      \/ \E rows, unread : /\ rows \in SUBSET Rows /\ verdict' = Book(rows, unread)
                           /\ \A r \in rows : verdict[r] = "none"
  <2>1. CASE Truncate \/ TakeChunk \/ Return
    BY <2>1 DEF Truncate, TakeChunk, Return
  <2>2. CASE Plan
    <3>1. batch \in SUBSET Rows /\ \A r \in batch : verdict[r] = "none"
      BY <2>2 DEF Plan, IInv, CountInv, TypeOK
    <3>2. UNCHANGED verdict \/ \E unread : verdict' = Book(batch, unread)
      BY <2>2 DEF Plan
    <3> QED BY <3>1, <3>2
  <2>3. CASE TakeTurn
    <3>1. /\ Head(left) \in ToSet(left) /\ Waiting = ToSet(left) /\ ToSet(left) \subseteq Rows
      <4>1. left # <<>> /\ left \in Seq(batch) /\ Waiting = ToSet(left) /\ batch \subseteq Rows
        BY <2>3, TakeTurnIs DEF IInv, TypeOK
      <4>2. 1 \in DOMAIN left /\ Head(left) = left[1]
        BY <4>1, EmptySeq, HeadTailProperties
      <4> QED BY <4>1, <4>2 DEF ToSet
    <3>2. {Head(left)} \in SUBSET Rows /\ \A r \in {Head(left)} : verdict[r] = "none"
      BY <3>1 DEF IInv, CountInv
    <3>3. UNCHANGED verdict \/ \E unread : verdict' = Book({Head(left)}, unread)
      BY <2>3 DEF TakeTurn
    <3> QED BY <3>2, <3>3
  <2> QED BY <2>1, <2>2, <2>3
<1>4. ASSUME NEW r \in Rows, verdict'[r] # verdict[r]
      PROVE  /\ verdict[r] = "none" /\ verdict'[r] # "loaded"
             /\ verdict'[r] = "skipped" => ~SkipsLog /\ r \in marked
  <2>1. PICK rows, unread : /\ rows \in SUBSET Rows /\ verdict' = Book(rows, unread)
                            /\ \A q \in rows : verdict[q] = "none"
    BY <1>3, <1>4
  <2> QED BY <1>4, <2>1 DEF Book, Pending
<1> QED BY <1>1, <1>2, <1>4 DEF ContractKept

(* A statement writes rows that wait, so not in the log; those it loads enter *)
(* the log and were written.                                               *)
LEMMA StatementKept ==
  ASSUME IInv, Execute
  PROVE  ContractKept
<1>0. /\ phase = "write" /\ queue # <<>> /\ UNCHANGED <<conn, batch>>
  BY Executed
<1>1. PICK end \in Ends, landed \in BOOLEAN :
        Ended(Head(queue), ToSet(Head(queue).rows), OnEnd(Head(queue).how, end), end, landed)
  BY Executed
<1> DEFINE s == Head(queue)
           R == ToSet(s.rows)
           what == OnEnd(s.how, end)
<1>2. Ended(s, R, what, end, landed)
  BY <1>1
<1> HIDE DEF s, R, what
<1>3. phase' \in AtWork \cup {"returned"}
  BY <1>0, <1>2 DEF Ended, Abort, AtWork
<1>4. /\ R \subseteq Rows /\ R \subseteq RowsOf(queue) /\ \A r \in R : verdict[r] = "none"
      /\ written' = IF landed /\ s.how # "delete" THEN written \cup R ELSE written
  BY <1>2 DEF Ended
<1>5. R \cap Logged = {}
  BY <1>4 DEF Logged, IInv, CountInv
<1>6. /\ \A r \in Rows \ R : verdict'[r] = verdict[r]
      /\ what # "loaded" => marked' = marked /\ \A r \in R : verdict'[r] \in {verdict[r], "error"}
      /\ what = "loaded" =>
           /\ \A r \in R : verdict'[r] \in {"loaded", "error"}
           /\ marked' = marked \cup (IF Marks(s.how) THEN {r \in R : verdict'[r] = "loaded"} ELSE {})
  BY <1>2 DEF Ended
<1>7. what = "loaded" => R \subseteq written' /\ (~SkipsLog => Marks(s.how))
  <2>1. what = "loaded" => landed /\ s.how # "delete"
    BY <1>2 DEF Ended
  <2>2. ~SkipsLog => Marks(s.how)
    <3>1. Fits(s)
      BY <1>2 DEF Ended
    <3> QED BY <3>1 DEF Fits, Marks, ViaStaging, SkipsLog
  <2> QED BY <1>4, <2>1, <2>2
<1>8. ~SkipsLog => R \cap marked = {}
  BY <1>5 DEF Logged
<1>9. written \subseteq written' /\ (written' \ written) \cap Logged = {}
  BY <1>4, <1>5
<1>10. ASSUME NEW r \in Rows, verdict'[r] # verdict[r]
       PROVE  /\ verdict[r] = "none"
              /\ verdict'[r] # "skipped"
              /\ verdict'[r] = "loaded" => r \in written' /\ (~SkipsLog => r \in marked' \ marked)
  BY <1>4, <1>6, <1>7, <1>8, <1>10
<1>11. marked \subseteq marked'
       /\ \A r \in marked' \ marked : verdict[r] = "none" /\ verdict'[r] = "loaded"
  BY <1>4, <1>6
<1> QED BY <1>0, <1>3, <1>9, <1>10, <1>11 DEF ContractKept, AtWork

LEMMA LoadBegins ==
  ASSUME IInv, Begin
  PROVE  Contract!Begin
<1>1. /\ phase \in {"idle", "returned"} /\ batch' \subseteq Rows /\ fatal' = ctxDone
      /\ phase' = IF ctxDone THEN "returned" ELSE IF TruncatesFirst THEN "truncate" ELSE "plan"
      /\ verdict' = [r \in Rows |-> "none"] /\ unreported' = {}
      /\ written' = (IF SkipsLog THEN {} ELSE written) /\ UNCHANGED <<conn, marked>>
  BY DEF Begin
<1>2. SkipsLog' = SkipsLog /\ ctxDone \in BOOLEAN
  BY <1>1, SameConnection DEF IInv, TypeOK
<1>3. CASE SkipsLog
  <2>1. Logged' = {} /\ written' = {}
    BY <1>1, <1>2, <1>3 DEF Logged
  <2> QED BY <1>1, <1>2, <2>1 DEF Contract!Begin, Contract!Between, Logged
<1>4. CASE ~SkipsLog
  <2>1. Logged' = Logged /\ written' = written
    BY <1>1, <1>2, <1>4 DEF Logged
  <2> QED BY <1>1, <1>2, <2>1 DEF Contract!Begin, Contract!Between, Logged
<1> QED BY <1>3, <1>4

LEMMA ContractNext ==
  ASSUME IInv, IInv', [Next]_vars
  PROVE  [Contract!Next]_(Contract!vars)
<1>1. CASE Begin
  BY <1>1, LoadBegins DEF Contract!Next
<1>2. CASE Truncate \/ Plan \/ TakeTurn \/ TakeChunk \/ Return \/ Execute
  BY <1>2, TurnKept, StatementKept, KeptIsStep DEF Contract!Next
<1>3. CASE EndRun \/ EndContext \/ UNCHANGED vars
  <2>1. UNCHANGED <<conn, phase, batch, verdict, fatal, written, marked, unreported>>
    BY <1>3 DEF EndRun, EndContext, vars, loadVars, bookVars
  <2>2. SkipsLog' = SkipsLog
    BY <2>1, SameConnection
  <2> QED BY <2>1, <2>2 DEF Contract!vars
<1> QED BY <1>1, <1>2, <1>3 DEF Next

(* The database destinations implement the contract of destination.go under  *)
(* every strategy: a row the log has is not written again, a row enters the  *)
(* log only when written, is counted once, and all are counted when a Load  *)
(* returns without an error and no driver's timeout; through COPY, chunks,   *)
(* the retry row by row, lost answers and Loads after Loads.                *)
THEOREM TableKeepsTheContract == Spec => KeepsContract
<1>1. Init => Contract!Init
  BY DEF Init, SkipsLog, Contract!Init
<1>2. IInv /\ IInv' /\ [Next]_vars => [Contract!Next]_(Contract!vars)
  BY ContractNext
<1> QED BY <1>1, <1>2, TableInvariant, PTL DEF Spec, KeepsContract, Contract!Spec
=============================================================================
