----------------------------- MODULE ExtractProofs -----------------------------
(***************************************************************************)
(* What the runs that read a batch source read, for every source, table,    *)
(* page size, number of runs and faults.                                   *)
(***************************************************************************)
EXTENDS BatchExtract, FiniteSetTheorems, SequenceTheorems, WellFoundedInduction, TLAPS

------------------------------------------------------------------------------
\* The invariants

(* Where a row is: with the engine or in the channel, or in a page.         *)
InOut(r) == \E k \in DOMAIN out : out[k].row = r
Sent(r) == taken[r] > 0 \/ InOut(r)
InPage(i, r) == \E k \in DOMAIN scans[i].page : scans[i].page[k].row = r

(* Its present content is there.                                            *)
SentFresh(r) == r \in fresh \/ \E k \in DOMAIN out : out[k].row = r /\ out[k].at = time[r]
PageFresh(i, r) == [row |-> r, at |-> time[r]] \in Range(scans[i].page)
Held(r) == SentFresh(r) \/ \E i \in DOMAIN scans : PageFresh(i, r)

(* A later statement of the scan reads the row, if it is in scope.          *)
ToCome(i, r) ==
  /\ scans[i].pc = "query" \/ (scans[i].pc = "emit" /\ scans[i].more)
  /\ CASE reading.pages \in {"keyset", "server"} ->
            r > scans[i].last /\ \A k \in DOMAIN scans[i].page : r > scans[i].page[k].row
       [] reading.pages = "ranges" -> r \in scans[i].lo..scans[i].hi
       [] reading.pages = "offset" -> ~Sent(r) /\ ~InPage(i, r)
       [] OTHER -> TRUE

Reached(r) == Held(r) \/ \E i \in DOMAIN scans : ToCome(i, r)

(* Rows that did not commit late.                                           *)
Timely == Present \ late

InScope(r) == IF AppendOnly THEN r > start ELSE InWindow(reading, Compared(r), start, end)

Running == phase \in {"extract", "ended"} /\ ~ctxDone

PageItem == [row : Rows, at : Nat \ {0}]
OutItem == [row : Rows, at : Nat \ {0}, wm : Nat]
ScanType == [pc : {"query", "emit", "ended"}, lo : Int, hi : Int, last : Nat, sent : Nat,
             more : BOOLEAN, page : Seq(PageItem)]

Typed ==
  /\ source \in Sources
  /\ reading = ReadingOf(source) \/ (reading = PgPages /\ ReadingOf(source) = PgRanges)
  /\ clock \in 2..MaxTime /\ time \in [Rows -> 0..clock]
  /\ phase \in {"idle", "plan", "extract", "ended"}
  /\ {ctxDone, stopped, smooth, cutShort} \subseteq BOOLEAN
  /\ failed \in {"no", "error", "timeout"}
  /\ scans \in Seq(ScanType) /\ out \in Seq(OutItem)
  /\ {highest, watermark, start, end} \subseteq Nat
  /\ taken \in [Rows -> Nat] /\ {fresh, changed, unread, late, tied} \subseteq SUBSET Rows
  /\ runs \in 0..MaxRuns /\ faults \in 0..MaxFaults

(* What a phase has, a scan and the beginning of a run.                     *)
Phases ==
  /\ phase # "extract" => scans = <<>> /\ out = <<>>
  /\ phase # "idle" =>
       /\ start = watermark /\ (stopped => ctxDone)
       /\ end = IF source.bounded /\ changed = {} THEN clock ELSE end
       /\ ~source.bounded => end = 0
  /\ phase = "plan" => failed = "no"
  /\ failed = "timeout" => cutShort
  /\ phase = "extract" /\ scans = <<>> => failed # "no"
  /\ phase # "idle" /\ (\A i \in DOMAIN scans : scans[i].sent = 0) /\ phase # "ended"
       => out = <<>> /\ taken = [r \in Rows |-> 0] /\ fresh = {} /\ highest = 0
Scans ==
  \A i \in DOMAIN scans :
    /\ reading.pages \in {"offset", "keyset", "server", "ranges", "one"}
    /\ IF reading.pages = "ranges" THEN Len(scans) >= 2 ELSE Len(scans) = 1
    /\ scans[i].pc # "emit" => scans[i].page = <<>>
    /\ scans[i].sent = 0 => scans[i].last = IF AppendOnly THEN start ELSE 0
    /\ AppendOnly => start <= scans[i].last
    /\ reading.pages \in {"ranges", "one"} =>
         (scans[i].pc = "emit" => ~scans[i].more) /\ (scans[i].pc = "query" => scans[i].sent = 0)
    /\ reading.pages \in {"keyset", "server"} =>
         \A k \in DOMAIN scans[i].page :
           /\ scans[i].page[k].row > scans[i].last
           /\ \A m \in 1..(k - 1) : scans[i].page[m].row < scans[i].page[k].row
    /\ reading.pages = "ranges" =>
         /\ \A k \in DOMAIN scans[i].page : scans[i].page[k].row \in scans[i].lo..scans[i].hi
         /\ \A j \in DOMAIN scans : i # j =>
              (scans[i].lo..scans[i].hi) \cap (scans[j].lo..scans[j].hi) = {}

(* Counts.                                                                  *)
Counts ==
  /\ \A i \in DOMAIN scans :
       IF reading.pages \in {"keyset", "server"}
         THEN scans[i].sent <= Cardinality({q \in Rows : q <= scans[i].last})
              /\ scans[i].last \in Rows \cup {0}
         ELSE scans[i].sent + Len(scans[i].page) <= Cardinality(Rows)
              /\ scans[i].last \in Rows \cup {0}
  /\ \A i \in DOMAIN scans : reading.pages = "offset" =>
       \A r \in Rows : taken[r] + Len(out) <= scans[i].sent
  /\ \A r \in Rows :
       taken[r] <= IF reading.pages = "offset" THEN Cardinality(Rows) ELSE 1
  /\ Len(out) <= Capacity

(* Watermarks are of the past, or keys of rows that are there.              *)
Marks ==
  /\ \A k \in DOMAIN out : out[k].at <= clock
  /\ \A i \in DOMAIN scans : \A k \in DOMAIN scans[i].page : scans[i].page[k].at <= clock
  /\ ~AppendOnly =>
       highest <= clock /\ watermark <= clock /\ \A k \in DOMAIN out : out[k].wm <= clock
  /\ AppendOnly =>
       /\ highest \in Present \cup {0} /\ watermark \in Present \cup {0}
       /\ \A k \in DOMAIN out : /\ out[k].row \in Present /\ out[k].at = time[out[k].row]
                                 /\ out[k].wm = out[k].row
       /\ \A i \in DOMAIN scans :
            /\ scans[i].last \in Present \cup {0}
            /\ \A k \in DOMAIN scans[i].page :
                 /\ scans[i].page[k].row \in Present
                 /\ scans[i].page[k].at = time[scans[i].page[k].row]

(* What was read of a row that did not change is its present content.       *)
StableFresh ==
  /\ phase # "idle" => \A r \in fresh : taken[r] > 0
  /\ phase # "idle" => \A r \in Rows \ changed :
       /\ taken[r] > 0 => r \in fresh
       /\ \A k \in DOMAIN out : out[k].row = r => out[k].at = time[r]
       /\ \A i \in DOMAIN scans : \A k \in DOMAIN scans[i].page :
            scans[i].page[k].row = r => scans[i].page[k].at = time[r]

(* No row is in two places, nor will be.                                    *)
Apart ==
  /\ \A r \in Rows : taken[r] <= 1 /\ (taken[r] = 1 => ~InOut(r))
  /\ \A k, m \in DOMAIN out : out[k].row = out[m].row => k = m
  /\ \A i \in DOMAIN scans : \A k, m \in DOMAIN scans[i].page :
       scans[i].page[k].row = scans[i].page[m].row => k = m
  /\ \A i \in DOMAIN scans : \A r \in Rows :
       /\ InPage(i, r) => ~Sent(r) /\ \A j \in DOMAIN scans : InPage(j, r) => i = j
       /\ ToCome(i, r) => ~Sent(r) /\ \A j \in DOMAIN scans : ~InPage(j, r)
Unique == Running /\ (reading.pages = "offset" => smooth) => Apart

(* Pages by offset cut one order of a table at rest.                        *)
OffsetOrder ==
  Running /\ smooth /\ changed = {} /\ reading.pages = "offset" =>
    \A i \in DOMAIN scans : scans[i].sent + Len(scans[i].page) > 0 /\ scans[i].pc # "ended" =>
      \E rows \in Orders(Selected) :
        /\ scans[i].sent + Len(scans[i].page) <= Len(rows)
        /\ \A r \in Rows : Sent(r) <=> \E k \in 1..scans[i].sent : rows[k] = r
        /\ \A k \in DOMAIN scans[i].page : scans[i].page[k].row = rows[scans[i].sent + k]

(* A row in scope that did not change has been read or will be.             *)
StableSeen ==
  Running /\ failed = "no" /\ ~cutShort /\ (reading.pages = "offset" => smooth)
  /\ (AppendOnly => source.limit = 0) =>
    \A r \in Present \ changed :
      InScope(r) => Reached(r)

(* A row that changed has, too, or is newer than what has been read, or one  *)
(* more statement will tell.                                               *)
Newer(r) ==
  /\ time[r] > highest /\ \A k \in DOMAIN out : time[r] > out[k].wm
  /\ \A i \in DOMAIN scans : \A k \in DOMAIN scans[i].page : time[r] > scans[i].page[k].at
Another == changed # {} /\ reading.pages = "ranges" /\ \E i \in DOMAIN scans : scans[i].pc = "query"
ChangedSeen ==
  Running /\ failed = "no" /\ ~cutShort /\ smooth /\ ~AppendOnly =>
    \A r \in Timely \cap changed :
      InScope(r) /\ Compared(r) > 0 => Reached(r) \/ Newer(r) \/ Another

(* Rows come in order: what has not come is not below what has.              *)
Orderly ==
  \/ AppendOnly
  \/ smooth /\ reading.ordered /\ reading.bare # "now" /\ reading.pages \in {"offset", "one"}
Mark(item) == IF AppendOnly THEN item.row ELSE ShownAt(item.row, item.at)
NotBelow(r) ==
  /\ Compared(r) >= highest /\ \A k \in DOMAIN out : Compared(r) >= out[k].wm
  /\ \A i \in DOMAIN scans : \A k \in DOMAIN scans[i].page :
       \/ Compared(r) >= Mark(scans[i].page[k])
       \/ \E m \in 1..(k - 1) : scans[i].page[m] = [row |-> r, at |-> time[r]]
InOrder ==
  Running /\ Orderly =>
    /\ \A r \in Timely : InScope(r) /\ Compared(r) > 0 => SentFresh(r) \/ NotBelow(r)
    /\ AppendOnly => \A i \in DOMAIN scans : \A r \in Timely :
         start < r /\ r <= scans[i].last => SentFresh(r)

(* Nothing is read from beyond the end of the interval.                     *)
Limited == reading.upper = "always" \/ (reading.upper = "ifGiven" /\ end # 0)
ComparedAt(item) == IF reading.pages = "server" THEN item.at ELSE ShownAt(item.row, item.at)
UpToEnd ==
  phase # "idle" /\ smooth /\ Limited =>
    /\ highest <= end /\ \A k \in DOMAIN out : out[k].wm <= end
    /\ \A i \in DOMAIN scans : \A k \in DOMAIN scans[i].page :
         ComparedAt(scans[i].page[k]) \in 1..end

(* The position passes nothing unread.                                      *)
NothingPassed ==
  smooth /\ (cutShort => ReadingOf(source).ordered /\ ReadingOf(source).bare # "now") =>
    \A r \in (Timely \cap unread) \ tied : Compared(r) > 0 => Ahead(r)

------------------------------------------------------------------------------
\* Sets, sequences and ranges

LEMMA Least ==
  ASSUME NEW T \in SUBSET Nat, T # {}
  PROVE  \E i \in T : \A j \in T : i <= j
<1> DEFINE R == {p \in Nat \X Nat : p[1] < p[2]}
<1>1. IsWellFoundedOn(R, Nat)
  BY NatLessThanWellFounded DEF OpToRel
<1>2. PICK i \in T : \A j \in T : ~(<<j, i>> \in R)
  <2> HIDE DEF R
  <2> QED BY <1>1, WFMin
<1>3. ASSUME NEW j \in T, ~(i <= j) PROVE FALSE
  <2>1. i \in Nat /\ j \in Nat
    OBVIOUS
  <2>2. <<j, i>> \in R
    BY <1>3, <2>1
  <2> QED BY <1>2, <2>2
<1> QED BY <1>3

(* A finite set of numbers has a greatest: one with the fewest above it.     *)
LEMMA MaxIs ==
  ASSUME NEW S \in SUBSET Nat, IsFiniteSet(S), S # {}
  PROVE  Max(S) \in S /\ \A y \in S : y <= Max(S)
<1> DEFINE Up(x) == {y \in S : y > x}
           T == {Cardinality(Up(x)) : x \in S}
<1>1. \A x \in S : IsFiniteSet(Up(x)) /\ Cardinality(Up(x)) \in Nat
  BY FS_Subset, FS_CardinalityType
<1>2. PICK n \in T : \A m \in T : n <= m
  <2>1. T \in SUBSET Nat /\ T # {}
    BY <1>1
  <2> QED BY <2>1, Least
<1>3. PICK x \in S : n = Cardinality(Up(x))
  OBVIOUS
<1>4. ASSUME NEW y \in S, y > x PROVE FALSE
  <2>0. x \in Nat /\ y \in Nat
    OBVIOUS
  <2>1. Up(y) \in SUBSET Up(x) /\ y \in Up(x) /\ y \notin Up(y)
    <3>1. \A z \in S : z > y => z > x
      BY <1>4, <2>0
    <3>2. y \in Up(x) /\ ~(y > y)
      BY <1>4, <2>0
    <3>3. \A z \in Up(y) : z \in Up(x)
      BY <3>1
    <3>4. y \notin Up(y)
      BY <3>2
    <3> QED BY <3>2, <3>3, <3>4
  <2>2. Cardinality(Up(y)) <= Cardinality(Up(x)) /\ Cardinality(Up(y)) # Cardinality(Up(x))
    BY <1>1, <2>1, FS_Subset
  <2>3. Cardinality(Up(y)) \in T
    OBVIOUS
  <2>4. Cardinality(Up(x)) <= Cardinality(Up(y))
    BY <1>2, <1>3, <2>3
  <2> HIDE DEF Up
  <2> QED BY <1>1, <2>2, <2>4
<1>5. x \in S /\ \A y \in S : x >= y
  BY <1>4
<1>6. \A y \in S : Max(S) >= y /\ Max(S) \in S
  BY <1>5 DEF Max
<1> QED BY <1>6

LEMMA MinIs ==
  ASSUME NEW S \in SUBSET Nat, S # {}
  PROVE  Min(S) \in S /\ \A y \in S : Min(S) <= y
BY Least DEF Min

(* A sequence of a finite set's members, each once, has them all.           *)
LEMMA SeqsOf ==
  ASSUME NEW S, IsFiniteSet(S), NEW s \in SetToSeqs(S)
  PROVE  /\ s \in Seq(S) /\ Len(s) = Cardinality(S) /\ DOMAIN s = 1..Len(s)
         /\ \A k, m \in DOMAIN s : s[k] = s[m] => k = m
         /\ \A r \in S : \E k \in DOMAIN s : s[k] = r
<1> DEFINE n == Cardinality(S)
           T == {s[k] : k \in 1..n}
<1>1. n \in Nat
  BY FS_CardinalityType
<1>2. s \in [1..n -> S] /\ \A k, m \in 1..n : k # m => s[k] # s[m]
  BY DEF SetToSeqs
<1>3. s \in Seq(S) /\ Len(s) = n /\ DOMAIN s = 1..n
  BY <1>1, <1>2
<1>4. s \in Surjection(1..n, T) /\ s \in Injection(1..n, T)
  BY <1>2 DEF Surjection, Injection, IsInjective
<1>5. IsFiniteSet(1..n) /\ Cardinality(1..n) = n
  BY <1>1, FS_Interval
<1>6. IsFiniteSet(T) /\ Cardinality(T) = n
  <2> HIDE DEF T, n
  <2> QED BY <1>4, <1>5, FS_Surjection
<1>7. T \in SUBSET S
  BY <1>2
<1>8. T = S
  <2> HIDE DEF T
  <2> QED BY <1>6, <1>7, FS_Subset
<1> QED BY <1>2, <1>3, <1>8

LEMMA LeftIs ==
  ASSUME NEW S, NEW s \in Seq(S), NEW n \in Int
  PROVE  /\ Left(s, n) \in Seq(S) /\ DOMAIN Left(s, n) = 1..Len(Left(s, n))
         /\ Len(Left(s, n)) = IF n < 0 THEN 0 ELSE IF n < Len(s) THEN n ELSE Len(s)
         /\ \A k \in DOMAIN Left(s, n) : k \in DOMAIN s /\ Left(s, n)[k] = s[k]
<1> DEFINE m == IF n < Len(s) THEN n ELSE Len(s)
<1>1. m \in Int /\ m <= Len(s) /\ (~(n < 0) => m \in 0..Len(s))
  OBVIOUS
<1>2. Left(s, n) = SubSeq(s, 1, m)
  BY DEF Left
<1>3. CASE n < 0
  <2>1. m < 1
    BY <1>3
  <2> HIDE DEF m
  <2>2. Left(s, n) = <<>>
    BY <1>1, <1>2, <2>1
  <2>3. <<>> \in Seq(S) /\ Len(<<>>) = 0 /\ DOMAIN <<>> = 1..0
    OBVIOUS
  <2> QED BY <1>3, <2>2, <2>3
<1>4. CASE ~(n < 0)
  <2>1. m \in 0..Len(s)
    BY <1>1, <1>4
  <2> HIDE DEF m
  <2>2. SubSeq(s, 1, m) \in Seq(S) /\ Len(SubSeq(s, 1, m)) = m
        /\ \A k \in 1..m : SubSeq(s, 1, m)[k] = s[k]
    BY <2>1
  <2> QED BY <1>1, <1>2, <1>4, <2>1, <2>2 DEF m
<1> QED BY <1>3, <1>4

LEMMA RestIs ==
  ASSUME NEW S, NEW s \in Seq(S), NEW n \in Nat
  PROVE  LET t == SubSeq(s, n + 1, Len(s))
         IN /\ t \in Seq(S) /\ Len(t) = IF n < Len(s) THEN Len(s) - n ELSE 0
            /\ DOMAIN t = 1..Len(t)
            /\ \A k \in DOMAIN t : n + k \in DOMAIN s /\ t[k] = s[n + k]
<1> DEFINE t == SubSeq(s, n + 1, Len(s))
<1>1. CASE n < Len(s)
  <2>1. t \in Seq(S) /\ Len(t) = Len(s) - n /\ \A k \in 1..(Len(s) - n) : t[k] = s[n + k]
    BY <1>1
  <2> QED BY <1>1, <2>1
<1>2. CASE ~(n < Len(s))
  <2>1. t = <<>>
    BY <1>2
  <2> QED BY <1>2, <2>1
<1> QED BY <1>1, <1>2

LEMMA Multiples ==
  ASSUME NEW s \in Nat \ {0}, NEW x \in Nat, NEW y \in Nat, x < y
  PROVE  /\ x * s \in Nat /\ y * s \in Nat /\ x * s + s <= y * s
<1> DEFINE d == y - (x + 1)
<1>1. d \in Nat /\ y = x + 1 + d
  OBVIOUS
<1> HIDE DEF d
<1>2. y * s = x * s + s + d * s /\ d * s >= 0
  BY <1>1
<1>3. x * s \in Nat /\ y * s \in Nat /\ d * s \in Nat
  BY <1>1
<1> QED BY <1>2, <1>3

(* The ranges of parallelRangeExtract take every key, each once.            *)
LEMMA RangesCut ==
  ASSUME NEW lo \in Nat, NEW hi \in Nat, lo <= hi, NEW n \in Nat \ {0}
  PROVE  LET parts == Ranges(lo, hi, n)
         IN /\ DOMAIN parts = 1..n
            /\ \A i \in 1..n : parts[i].lo \in Int /\ parts[i].hi \in Int
            /\ \A k \in lo..hi : \E i \in 1..n : k \in parts[i].lo..parts[i].hi
            /\ \A i, j \in 1..n : i # j =>
                 (parts[i].lo..parts[i].hi) \cap (parts[j].lo..parts[j].hi) = {}
<1> DEFINE size == IF (hi - lo + 1) \div n = 0 THEN 1 ELSE (hi - lo + 1) \div n
           parts == Ranges(lo, hi, n)
<1>1. size \in Nat \ {0}
  <2>1. (hi - lo + 1) \div n \in Nat
    OBVIOUS
  <2> QED BY <2>1
<1>2. /\ DOMAIN parts = 1..n
      /\ \A i \in 1..n : /\ parts[i].lo = lo + (i - 1) * size
                         /\ parts[i].hi = IF i = n THEN hi ELSE lo + i * size - 1
  BY DEF Ranges
<1> HIDE DEF size, parts
<1>3. \A i \in Nat : i * size \in Nat
  BY <1>1
<1>4. \A i \in 1..n : (i - 1) * size \in Nat /\ i * size \in Nat
  BY <1>3
<1>5. ASSUME NEW i \in 1..n PROVE parts[i].lo \in Int /\ parts[i].hi \in Int
  <2>1. PICK a \in Nat : a = (i - 1) * size
    BY <1>4
  <2>2. PICK b \in Nat : b = i * size
    BY <1>4
  <2>3. parts[i].lo = lo + a /\ parts[i].hi = IF i = n THEN hi ELSE lo + b - 1
    BY <1>2, <2>1, <2>2
  <2> QED BY <2>3
<1>6. ASSUME NEW k \in lo..hi PROVE \E i \in 1..n : k \in parts[i].lo..parts[i].hi
  <2> DEFINE d == k - lo
             q == d \div size
  <2>1. d \in Nat /\ k = lo + d /\ q \in Nat
    BY <1>1
  <2>2. q * size <= d /\ d < q * size + size
    BY <1>1, <2>1
  <2> HIDE DEF d, q
  <2>3. CASE q < n - 1
    <3>1. q + 1 \in 1..n /\ q + 1 # n /\ (q + 1) - 1 = q
      BY <2>1, <2>3
    <3>2. (q + 1) * size = q * size + size /\ q * size \in Nat
      BY <1>1, <2>1
    <3>3. parts[q + 1].lo = lo + q * size /\ parts[q + 1].hi = lo + (q + 1) * size - 1
      BY <1>2, <3>1
    <3>4. k \in parts[q + 1].lo..parts[q + 1].hi
      BY <1>1, <2>1, <2>2, <3>2, <3>3
    <3> QED BY <3>1, <3>4
  <2>4. CASE ~(q < n - 1)
    <3>1. (n - 1) * size <= q * size
      <4>1. CASE n - 1 = q
        BY <1>3, <2>1, <4>1
      <4>2. CASE n - 1 < q
        <5>1. n - 1 \in Nat
          OBVIOUS
        <5>2. (n - 1) * size + size <= q * size /\ q * size \in Nat /\ (n - 1) * size \in Nat
          BY <1>1, <2>1, <4>2, <5>1, Multiples
        <5> QED BY <1>1, <5>2
      <4> QED BY <2>1, <2>4, <4>1, <4>2
    <3>2. n \in 1..n
      OBVIOUS
    <3>3. parts[n].lo = lo + (n - 1) * size /\ parts[n].hi = hi
      BY <1>2, <3>2
    <3>4. (n - 1) * size \in Nat /\ q * size \in Nat
      BY <1>3, <1>4, <2>1, <3>2
    <3>5. k \in parts[n].lo..parts[n].hi
      BY <2>1, <2>2, <3>1, <3>3, <3>4
    <3> QED BY <3>2, <3>5
  <2> QED BY <2>3, <2>4
<1>7. ASSUME NEW i \in 1..n, NEW j \in 1..n, i < j
      PROVE  (parts[i].lo..parts[i].hi) \cap (parts[j].lo..parts[j].hi) = {}
  <2>1. i # n /\ i \in Nat /\ j - 1 \in Nat /\ i <= j - 1
    BY <1>7
  <2>2. i * size <= (j - 1) * size
    <3>1. CASE i = j - 1
      BY <1>4, <3>1
    <3>2. CASE i < j - 1
      <4>1. i * size + size <= (j - 1) * size
        BY <1>1, <2>1, <3>2, Multiples
      <4> QED BY <1>1, <1>4, <4>1
    <3> QED BY <2>1, <3>1, <3>2
  <2>3. parts[i].hi < parts[j].lo
    <3>1. parts[i].hi = lo + i * size - 1 /\ parts[j].lo = lo + (j - 1) * size
      BY <1>2, <2>1
    <3>2. i * size \in Nat /\ (j - 1) * size \in Nat
      BY <1>4
    <3> QED BY <2>2, <3>1, <3>2
  <2> QED BY <1>5, <2>3
<1>8. ASSUME NEW i \in 1..n, NEW j \in 1..n, i # j
      PROVE  (parts[i].lo..parts[i].hi) \cap (parts[j].lo..parts[j].hi) = {}
  <2>1. i < j \/ j < i
    BY <1>8
  <2>2. (parts[i].lo..parts[i].hi) \cap (parts[j].lo..parts[j].hi)
          = (parts[j].lo..parts[j].hi) \cap (parts[i].lo..parts[i].hi)
    OBVIOUS
  <2> QED BY <1>7, <2>1, <2>2
<1> QED BY <1>2, <1>5, <1>6, <1>8 DEF parts

(* Two orders of rows with distinct watermarks are one.                     *)
LEMMA OneOrder ==
  ASSUME NEW S, IsFiniteSet(S), \A r \in S : Rank(r) \in Int, ~Tied(S),
         NEW s \in Orders(S), NEW t \in Orders(S)
  PROVE  s = t
<1>1. /\ s \in SetToSeqs(S) /\ \A i, j \in DOMAIN s : i < j => Rank(s[i]) <= Rank(s[j])
      /\ t \in SetToSeqs(S) /\ \A i, j \in DOMAIN t : i < j => Rank(t[i]) <= Rank(t[j])
  BY DEF Orders
<1>2. /\ s \in Seq(S) /\ Len(s) = Cardinality(S) /\ DOMAIN s = 1..Len(s)
      /\ \A k, m \in DOMAIN s : s[k] = s[m] => k = m
      /\ \A r \in S : \E k \in DOMAIN s : s[k] = r
  BY <1>1, SeqsOf
<1>3. /\ t \in Seq(S) /\ Len(t) = Cardinality(S) /\ DOMAIN t = 1..Len(t)
      /\ \A k, m \in DOMAIN t : t[k] = t[m] => k = m
      /\ \A r \in S : \E k \in DOMAIN t : t[k] = r
  BY <1>1, SeqsOf
<1> DEFINE n == Cardinality(S)
           D == {k \in 1..n : s[k] # t[k]}
<1>4. n \in Nat
  BY FS_CardinalityType
<1>5. CASE D = {}
  <2>1. \A k \in 1..n : s[k] = t[k]
    BY <1>5
  <2> QED BY <1>2, <1>3, <2>1
<1>6. CASE D # {}
  <2>1. PICK k \in D : \A j \in D : k <= j
    <3>1. D \in SUBSET Nat
      BY <1>4
    <3> QED BY <1>6, <3>1, Least
  <2>2. k \in 1..n /\ s[k] # t[k] /\ s[k] \in S /\ t[k] \in S
    BY <1>2, <1>3
  <2>3. \A j \in 1..n : j < k => s[j] = t[j]
    BY <1>4, <2>1
  <2>4. PICK m \in 1..n : t[m] = s[k]
    BY <1>3, <2>2
  <2>5. PICK l \in 1..n : s[l] = t[k]
    BY <1>2, <2>2
  <2>6. ~(m < k)
    BY <1>2, <2>2, <2>3, <2>4
  <2>7. ~(l < k)
    BY <1>3, <2>2, <2>3, <2>5
  <2>8. k < m /\ k < l
    BY <1>4, <2>2, <2>4, <2>5, <2>6, <2>7
  <2>9. Rank(t[k]) <= Rank(t[m]) /\ Rank(s[k]) <= Rank(s[l])
    BY <1>1, <1>2, <1>3, <2>2, <2>8
  <2>10. Rank(s[k]) = Rank(t[k])
    BY <2>2, <2>4, <2>5, <2>9
  <2> QED BY <2>2, <2>10 DEF Tied
<1> QED BY <1>5, <1>6

------------------------------------------------------------------------------
\* How sources read

Readings ==
  {Refused, PgPages, PgRanges, PgSnapshot, PgNumeric, PgCustomQuery, MySQLSelect(TRUE),
   MySQLSelect(FALSE), MySQLCustomQuery, MySQLNumeric, SnowflakeSelect, SnowflakeCustomQuery,
   BigQuerySelect, BigQueryCustomQuery, RestExtract}

LEMMA ReadingOfIs ==
  ASSUME NEW c \in SourceType
  PROVE  /\ ReadingOf(c) \in Readings
         /\ ReadingOf(c).pages = "ranges" => ReadingOf(c) = PgRanges /\ c.parallel > 1
         /\ c.column = "none" /\ ~c.query /\ c.kind \in SnapshotKinds
              => ReadingOf(c) \in {PgSnapshot, MySQLSelect(FALSE)}
<1> USE DEF Reading, Refused, PgSelect, PgPages, PgRanges, PgSnapshot, PgNumeric, PgCustomQuery,
            MySQLSelect, MySQLCustomQuery, MySQLNumeric, SnowflakeSelect, SnowflakeCustomQuery,
            BigQuerySelect, BigQueryCustomQuery, RestExtract
<1>1. /\ c.kind \in SourceKinds /\ c.column \in {"time", "int", "other", "missing", "none"}
      /\ c.query \in BOOLEAN /\ c.key \in BOOLEAN /\ c.routed \in BOOLEAN
      /\ c.parallel \in Nat \ {0}
  BY DEF SourceType
<1>2. CASE c.kind \in {"postgres", "redshift"}
  BY <1>1, <1>2 DEF ReadingOf, CursorKind, PgCursorKind, PgExtract, PgValidateWatermarkColumn, Readings, SnapshotKinds
<1>3. CASE c.kind = "mysql"
  <2>1. c.routed /\ CursorKind(c) = "error" => ReadingOf(c) = Refused
    BY DEF ReadingOf
  <2>2. c.routed /\ CursorKind(c) = "int" => ReadingOf(c) = MySQLNumeric
    BY <1>3 DEF ReadingOf
  <2>3. ~(c.routed /\ CursorKind(c) \in {"error", "int"}) => ReadingOf(c) = MySQLExtract(c)
    BY <1>3 DEF ReadingOf
  <2>4. MySQLExtract(c) \in {Refused, MySQLSelect(TRUE), MySQLSelect(FALSE), MySQLCustomQuery}
    BY <1>1 DEF MySQLExtract
  <2>5. c.column = "none" => CursorKind(c) = "snapshot"
    BY <1>3 DEF CursorKind, MySQLCursorKind
  <2>6. c.column = "none" /\ ~c.query => MySQLExtract(c) = MySQLSelect(FALSE)
    BY <1>1 DEF MySQLExtract, MySQLValidateWatermarkColumn
  <2>7. ReadingOf(c) \in {Refused, MySQLSelect(TRUE), MySQLSelect(FALSE), MySQLCustomQuery, MySQLNumeric}
    BY <1>1, <2>1, <2>2, <2>3, <2>4
  <2>8. ReadingOf(c) \in Readings /\ ReadingOf(c).pages # "ranges"
    BY <2>7 DEF Readings
  <2> QED BY <2>3, <2>5, <2>6, <2>8
<1>4. CASE c.kind \in {"snowflake", "bigquery", "restapi"}
  <2>1. ReadingOf(c) \in {SnowflakeSelect, SnowflakeCustomQuery, BigQuerySelect, BigQueryCustomQuery, RestExtract}
    BY <1>1, <1>4 DEF ReadingOf, CursorKind, SnowflakeExtract, BigQueryExtract
  <2>2. ReadingOf(c) \in Readings /\ ReadingOf(c).pages # "ranges"
    BY <2>1 DEF Readings
  <2> QED BY <1>4, <2>2 DEF SnapshotKinds
<1> QED BY <1>1, <1>2, <1>3, <1>4 DEF SourceKinds

ReadingFits(d) ==
  /\ d.pages \in {"refused", "offset", "keyset", "server", "ranges", "one"}
  /\ d.lower \in {"none", "above", "from", "aboveSecond"}
  /\ d.upper \in {"none", "ifGiven", "always"} /\ d.bare \in {"unset", "error", "now"}
  /\ d.ordered \in BOOLEAN
  /\ d.pages = "keyset" => d.bare = "unset" /\ d.upper = "none"
  /\ d.ordered /\ d.bare # "now" => d.pages \in {"keyset", "offset", "one"}

LEMMA ReadingsFit == \A d \in Readings : ReadingFits(d)
<1> USE DEF ReadingFits, Reading
<1>1. ReadingFits(Refused)
  BY DEF Refused
<1>2. ReadingFits(PgPages)
  BY DEF PgPages, PgSelect
<1>3. ReadingFits(PgRanges)
  BY DEF PgRanges, PgSelect
<1>4. ReadingFits(PgSnapshot)
  BY DEF PgSnapshot
<1>5. ReadingFits(PgNumeric)
  BY DEF PgNumeric
<1>6. ReadingFits(PgCustomQuery)
  BY DEF PgCustomQuery
<1>7. ReadingFits(MySQLSelect(TRUE))
  BY DEF MySQLSelect
<1>8. ReadingFits(MySQLSelect(FALSE))
  BY DEF MySQLSelect
<1>9. ReadingFits(MySQLCustomQuery)
  BY DEF MySQLCustomQuery
<1>10. ReadingFits(MySQLNumeric)
  BY DEF MySQLNumeric
<1>11. ReadingFits(SnowflakeSelect)
  BY DEF SnowflakeSelect
<1>12. ReadingFits(SnowflakeCustomQuery)
  BY DEF SnowflakeCustomQuery
<1>13. ReadingFits(BigQuerySelect)
  BY DEF BigQuerySelect
<1>14. ReadingFits(BigQueryCustomQuery)
  BY DEF BigQueryCustomQuery
<1>15. ReadingFits(RestExtract)
  BY DEF RestExtract
<1> HIDE DEF ReadingFits
<1> QED BY <1>1, <1>2, <1>3, <1>4, <1>5, <1>6, <1>7, <1>8, <1>9, <1>10, <1>11, <1>12, <1>13, <1>14, <1>15 DEF Readings

LEMMA PagesIs ==
  /\ PgPages.pages = "offset" /\ PgPages.lower = PgRanges.lower /\ PgPages.bare = PgRanges.bare
  /\ PgPages.upper = PgRanges.upper /\ PgRanges.pages = "ranges" /\ ~PgRanges.ordered
  /\ PgPages \in Readings /\ PgPages.upper = "ifGiven" /\ PgPages.lower = "above"
BY DEF PgPages, PgRanges, PgSelect, Reading, Readings

(* The reading of a state.                                                  *)
LEMMA ReadingNow ==
  ASSUME Typed
  PROVE  /\ source \in SourceType /\ reading \in Readings
         /\ reading.pages \in {"refused", "offset", "keyset", "server", "ranges", "one"}
         /\ reading.lower \in {"none", "above", "from", "aboveSecond"}
         /\ reading.upper \in {"none", "ifGiven", "always"} /\ reading.bare \in {"unset", "error", "now"}
         /\ reading.ordered \in BOOLEAN
         /\ AppendOnly => reading.bare = "unset" /\ reading.upper = "none"
         /\ reading.ordered /\ reading.bare # "now" => reading.pages \in {"keyset", "offset", "one"}
         /\ reading.pages = "ranges" => source.parallel \in Nat /\ source.parallel > 1
         /\ source.column = "none" /\ ~source.query /\ source.kind \in SnapshotKinds
              => reading.lower = "none" /\ reading.upper = "none" /\ ~AppendOnly
<1>1. source \in SourceType
  BY ExtractAssumption DEF Typed
<1>2. source.parallel \in Nat
  BY <1>1 DEF SourceType
<1>3. reading \in Readings
  BY <1>1, ReadingOfIs, PagesIs DEF Typed
<1>4. reading.pages = "ranges" => source.parallel > 1
  BY <1>1, ReadingOfIs, PagesIs DEF Typed
<1>5. source.column = "none" /\ ~source.query /\ source.kind \in SnapshotKinds
        => reading.lower = "none" /\ reading.upper = "none" /\ reading.pages = "one"
  <2> SUFFICES ASSUME source.column = "none" /\ ~source.query /\ source.kind \in SnapshotKinds
               PROVE  reading.lower = "none" /\ reading.upper = "none" /\ reading.pages = "one"
    OBVIOUS
  <2>1. ReadingOf(source) \in {PgSnapshot, MySQLSelect(FALSE)}
    BY <1>1, ReadingOfIs
  <2>2. /\ PgSnapshot.lower = "none" /\ PgSnapshot.upper = "none" /\ PgSnapshot.pages = "one"
        /\ MySQLSelect(FALSE).lower = "none" /\ MySQLSelect(FALSE).upper = "none"
        /\ MySQLSelect(FALSE).pages = "one"
    BY DEF PgSnapshot, MySQLSelect, Reading
  <2>3. ReadingOf(source).pages # "ranges"
    BY <2>1, <2>2
  <2>4. reading = ReadingOf(source)
    BY <2>3, PagesIs DEF Typed
  <2> QED BY <2>1, <2>2, <2>4
<1>6. ReadingFits(reading)
  BY <1>3, ReadingsFit
<1> QED BY <1>1, <1>2, <1>3, <1>4, <1>5, <1>6 DEF AppendOnly, ReadingFits

LEMMA ComparedIs ==
  ASSUME Typed, NEW r \in Rows
  PROVE  /\ r \in Nat \ {0} /\ time[r] \in 0..clock /\ Shown(r) \in {0, time[r]} /\ Compared(r) \in Nat
         /\ AppendOnly => Compared(r) = r
         /\ ~AppendOnly => Compared(r) \in {0, time[r]} /\ Compared(r) <= clock
         /\ reading.pages = "server" => Compared(r) = time[r]
         /\ reading.pages \notin {"keyset", "server"} => Compared(r) = Shown(r)
         /\ Rank(r) \in Nat /\ (Shown(r) > 0 => Rank(r) = Shown(r))
         /\ ~AppendOnly /\ Compared(r) > 0 => Compared(r) = time[r]
<1>1. r \in Nat \ {0} /\ time[r] \in 0..clock /\ clock \in Nat /\ MaxTime \in Nat
  BY ExtractAssumption DEF Typed
<1>2. Shown(r) \in {0, time[r]}
  BY DEF Shown, ShownAt
<1>3. Rank(r) \in Nat /\ (Shown(r) > 0 => Rank(r) = Shown(r))
  BY <1>1, <1>2 DEF Rank
<1>4. /\ AppendOnly => Compared(r) = r
      /\ reading.pages = "server" => Compared(r) = time[r]
      /\ reading.pages \notin {"keyset", "server"} => Compared(r) = Shown(r)
  BY DEF Compared, AppendOnly
<1>5. reading.pages \in {"keyset", "server"} \/ reading.pages \notin {"keyset", "server"}
  OBVIOUS
<1> QED BY <1>1, <1>2, <1>3, <1>4 DEF AppendOnly

LEMMA AboveWhenGreater ==
  ASSUME NEW lower \in {"none", "above", "from", "aboveSecond"}, NEW t \in Nat, NEW w \in Nat, t > w
  PROVE  Above(lower, t, w)
<1>1. w % Second \in Nat
  BY SourcesAssumption
<1>2. t > w - (w % Second)
  BY <1>1
<1>3. Above("none", t, w) /\ Above("above", t, w)
  BY DEF Above
<1>4. Above("from", t, w) /\ Above("aboveSecond", t, w)
  BY <1>2 DEF Above
<1> QED BY <1>3, <1>4

(* What Extract promises is in scope.                                       *)
LEMMA PromisedInScope ==
  ASSUME Typed, NEW r \in Rows, Promised(r), ~NeedsEnd
  PROVE  InScope(r)
<1>1. CASE AppendOnly
  BY <1>1, ReadingNow, ComparedIs DEF Promised, InScope
<1>2. CASE ~AppendOnly
  <2>1. CASE source.column = "none" /\ ~source.query /\ source.kind \in SnapshotKinds
    BY <1>2, <2>1, ReadingNow DEF InScope, InWindow, Above, UpTo
  <2>2. CASE Compared(r) > start /\ (end = 0 \/ Compared(r) <= end)
    <3>1. Compared(r) \in Nat /\ start \in Nat /\ end \in Nat /\ Second \in Nat \ {0}
      BY ComparedIs, SourcesAssumption DEF Typed
    <3>2. start % Second \in Nat
      BY <3>1
    <3>3. Above(reading.lower, Compared(r), start)
      BY <2>2, <3>1, ReadingNow, AboveWhenGreater
    <3>4. UpTo(reading.upper, Compared(r), end)
      <4>1. reading.upper \in {"none", "ifGiven", "always"}
        BY ReadingNow
      <4>2. reading.upper = "always" => end # 0
        BY DEF NeedsEnd
      <4>3. UpTo("none", Compared(r), end) /\ UpTo("ifGiven", Compared(r), end)
        BY <2>2, <3>1 DEF UpTo
      <4>4. end # 0 => UpTo("always", Compared(r), end)
        BY <2>2, <3>1 DEF UpTo
      <4> QED BY <4>1, <4>2, <4>3, <4>4
    <3> QED BY <1>2, <3>3, <3>4 DEF InScope, InWindow
  <2> QED BY <2>1, <2>2 DEF Promised
<1> QED BY <1>1, <1>2

------------------------------------------------------------------------------
\* What a statement reads

Reads(i) ==
  /\ ~ctxDone
  /\ CASE reading.pages = "offset" -> OffsetPage(i)
       [] reading.pages = "keyset" -> KeysetPage(i)
       [] reading.pages = "server" -> ServerPage(i)
       [] reading.pages = "ranges" -> RangePage(i)
       [] reading.pages = "one" -> OnePage(i)
  /\ smooth' = (/\ smooth
                /\ Later(i) /\ ~AppendOnly => changed = {}
                /\ Later(i) /\ reading.pages = "offset" => ~Tied(Selected))
  /\ NoFault /\ UNCHANGED <<failed, cutShort>>
Breaks(i) ==
  /\ IF ctxDone THEN NoFault /\ Fail(i, "error")
     ELSE Fault /\ \E how \in {"error", "timeout"} : Fail(i, how)
  /\ UNCHANGED smooth

LEMMA QueryIs ==
  ASSUME NEW i, Query(i)
  PROVE  /\ phase = "extract" /\ scans[i].pc = "query"
         /\ UNCHANGED <<scanFrame, out, stopped, taken, fresh>> /\ (Reads(i) \/ Breaks(i))
BY DEF Query, Reads, Breaks

(* The rows of a page and whether another follows.                          *)
PageOf(i, page, more) ==
  /\ page \in Seq(Rows) /\ more \in BOOLEAN
  /\ \A k, m \in DOMAIN page : page[k] = page[m] => k = m
  /\ \A k \in DOMAIN page : page[k] \in Present /\ InScope(page[k])
CursorPage(i, page, more) ==
  /\ \A k \in DOMAIN page : page[k] > scans[i].last /\ \A m \in 1..(k - 1) : page[m] < page[k]
  /\ \A r \in Present : InScope(r) /\ r > scans[i].last =>
       (\E k \in DOMAIN page : page[k] = r) \/ \A k \in DOMAIN page : r > page[k]
  /\ more \/ (AppendOnly /\ source.limit # 0) \/
       \A r \in Present : InScope(r) /\ r > scans[i].last => \E k \in DOMAIN page : page[k] = r
OrderPage(i, page, more) ==
  \E rows \in Orders(Selected) :
    /\ rows \in Seq(Rows) /\ DOMAIN rows = 1..Len(rows) /\ Len(rows) <= Cardinality(Rows)
    /\ scans[i].sent <= Len(rows) => scans[i].sent + Len(page) <= Len(rows)
    /\ ~(scans[i].sent <= Len(rows)) => Len(page) = 0
    /\ \A k \in DOMAIN page : scans[i].sent + k \in DOMAIN rows /\ page[k] = rows[scans[i].sent + k]
    /\ more \/ \A p \in DOMAIN rows : p > scans[i].sent =>
                   p - scans[i].sent \in DOMAIN page /\ page[p - scans[i].sent] = rows[p]
WholePage(i, page, more) ==
  /\ ~more
  /\ \A r \in Present : InScope(r) /\ (reading.pages = "ranges" => r \in scans[i].lo..scans[i].hi) =>
       \E k \in DOMAIN page : page[k] = r
  /\ reading.pages = "ranges" => \A k \in DOMAIN page : page[k] \in scans[i].lo..scans[i].hi
  /\ reading.ordered => \A k, m \in DOMAIN page : k < m => Rank(page[k]) <= Rank(page[m])

LEMMA Finite ==
  ASSUME NEW S, S \subseteq Rows
  PROVE  IsFiniteSet(S) /\ Cardinality(S) \in Nat /\ Cardinality(S) <= Cardinality(Rows)
         /\ Cardinality(Rows) \in Nat
BY ExtractAssumption, FS_Subset, FS_CardinalityType

LEMMA SelectedIs ==
  ASSUME Typed, ~AppendOnly
  PROVE  /\ Selected \subseteq Rows /\ Selected \subseteq Present
         /\ \A r \in Present : r \in Selected <=> InScope(r)
BY DEF Selected, Present, InScope

LEMMA OrdersAre ==
  ASSUME NEW S, S \subseteq Rows, NEW s \in SetToSeqs(S)
  PROVE  /\ s \in Seq(Rows) /\ s \in Seq(S) /\ Len(s) <= Cardinality(Rows) /\ DOMAIN s = 1..Len(s)
         /\ \A k, m \in DOMAIN s : s[k] = s[m] => k = m
         /\ \A k \in DOMAIN s : s[k] \in S
         /\ \A r \in S : \E k \in DOMAIN s : s[k] = r
<1>1. IsFiniteSet(S) /\ Cardinality(S) <= Cardinality(Rows)
  BY Finite
<1>2. /\ s \in Seq(S) /\ Len(s) = Cardinality(S) /\ DOMAIN s = 1..Len(s)
      /\ \A k, m \in DOMAIN s : s[k] = s[m] => k = m
      /\ \A r \in S : \E k \in DOMAIN s : s[k] = r
  BY <1>1, SeqsOf
<1>3. s \in Seq(Rows) /\ \A k \in DOMAIN s : s[k] \in S
  BY <1>2
<1> QED BY <1>1, <1>2, <1>3

LEMMA ScanIs ==
  ASSUME Typed, NEW i \in DOMAIN scans
  PROVE  /\ i \in Nat \ {0} /\ DOMAIN scans = 1..Len(scans) /\ Len(scans) \in Nat
         /\ scans[i] \in ScanType /\ scans[i].pc \in {"query", "emit", "ended"}
         /\ scans[i].lo \in Int /\ scans[i].hi \in Int /\ scans[i].last \in Nat
         /\ scans[i].sent \in Nat /\ scans[i].more \in BOOLEAN
         /\ scans[i].page \in Seq(PageItem)
         /\ DOMAIN scans[i].page = 1..Len(scans[i].page) /\ Len(scans[i].page) \in Nat
         /\ \A k \in DOMAIN scans[i].page :
              scans[i].page[k].row \in Rows /\ scans[i].page[k].at \in Nat \ {0}
<1>1. scans \in Seq(ScanType) /\ DOMAIN scans = 1..Len(scans) /\ Len(scans) \in Nat
  BY DEF Typed
<1>2. scans[i] \in ScanType /\ i \in Nat \ {0}
  BY <1>1
<1>3. /\ scans[i].pc \in {"query", "emit", "ended"}
      /\ scans[i].lo \in Int /\ scans[i].hi \in Int /\ scans[i].last \in Nat
      /\ scans[i].sent \in Nat /\ scans[i].more \in BOOLEAN
      /\ scans[i].page \in Seq(PageItem)
  BY <1>2 DEF ScanType
<1>4. /\ DOMAIN scans[i].page = 1..Len(scans[i].page) /\ Len(scans[i].page) \in Nat
      /\ \A k \in DOMAIN scans[i].page : scans[i].page[k] \in PageItem
  BY <1>3
<1>5. \A x \in PageItem : x.row \in Rows /\ x.at \in Nat \ {0}
  BY DEF PageItem
<1> QED BY <1>1, <1>2, <1>3, <1>4, <1>5

LEMMA OutIs ==
  ASSUME Typed
  PROVE  /\ out \in Seq(OutItem) /\ DOMAIN out = 1..Len(out) /\ Len(out) \in Nat
         /\ \A k \in DOMAIN out : /\ out[k] \in OutItem /\ out[k].row \in Rows
                                  /\ out[k].at \in Nat \ {0} /\ out[k].wm \in Nat
<1>1. out \in Seq(OutItem) /\ DOMAIN out = 1..Len(out) /\ Len(out) \in Nat
  BY DEF Typed
<1>2. \A x \in OutItem : x.row \in Rows /\ x.at \in Nat \ {0} /\ x.wm \in Nat
  BY DEF OutItem
<1> QED BY <1>1, <1>2

LEMMA SumCancels == \A a, b, c \in Int : a + b = a + c => b = c
OBVIOUS

LEMMA OffsetReads ==
  ASSUME Typed, Scans, NEW i \in DOMAIN scans, reading.pages = "offset", OffsetPage(i)
  PROVE  \E page \in Seq(Rows), more \in BOOLEAN :
           Fetch(i, page, more) /\ PageOf(i, page, more) /\ OrderPage(i, page, more)
<1>0. ~AppendOnly /\ scans[i].sent \in Nat /\ BatchSize \in Nat \ {0}
  BY ScanIs, ExtractAssumption DEF AppendOnly
<1>1. Selected \subseteq Rows /\ \A r \in Selected : r \in Present /\ InScope(r)
  BY <1>0, SelectedIs
<1>2. PICK rows \in Orders(Selected) :
        LET page == Left(SubSeq(rows, scans[i].sent + 1, Len(rows)), BatchSize)
        IN Fetch(i, page, Len(page) = BatchSize)
  BY DEF OffsetPage
<1>3. rows \in SetToSeqs(Selected)
  BY DEF Orders
<1>4. /\ rows \in Seq(Rows) /\ Len(rows) <= Cardinality(Rows) /\ DOMAIN rows = 1..Len(rows)
      /\ \A k, m \in DOMAIN rows : rows[k] = rows[m] => k = m
      /\ \A k \in DOMAIN rows : rows[k] \in Selected
  BY <1>1, <1>3, OrdersAre
<1> DEFINE n == scans[i].sent
           rest == SubSeq(rows, n + 1, Len(rows))
           page == Left(rest, BatchSize)
           more == Len(page) = BatchSize
<1>5. /\ rest \in Seq(Rows) /\ Len(rest) = (IF n < Len(rows) THEN Len(rows) - n ELSE 0)
      /\ DOMAIN rest = 1..Len(rest)
      /\ \A k \in DOMAIN rest : n + k \in DOMAIN rows /\ rest[k] = rows[n + k]
  BY <1>0, <1>4, RestIs
<1> HIDE DEF rest
<1>6. /\ page \in Seq(Rows) /\ Len(page) = (IF BatchSize < Len(rest) THEN BatchSize ELSE Len(rest))
      /\ DOMAIN page = 1..Len(page)
      /\ \A k \in DOMAIN page : k \in DOMAIN rest /\ page[k] = rest[k]
  <2>1. BatchSize \in Int /\ ~(BatchSize < 0)
    BY <1>0
  <2> QED BY <1>5, <2>1, LeftIs
<1>7. Fetch(i, page, more)
  BY <1>2 DEF rest
<1> HIDE DEF page
<1>8. \A k \in DOMAIN page : n + k \in DOMAIN rows /\ page[k] = rows[n + k]
  BY <1>5, <1>6
<1>9. PageOf(i, page, more)
  <2>1. ASSUME NEW k \in DOMAIN page, NEW m \in DOMAIN page, page[k] = page[m] PROVE k = m
    <3>1. n + k = n + m
      BY <1>4, <1>8, <2>1
    <3>2. k \in Int /\ m \in Int /\ n \in Int
      BY <1>0, <1>6
    <3> QED BY <3>1, <3>2, SumCancels
  <2>2. \A k \in DOMAIN page : page[k] \in Present /\ InScope(page[k])
    BY <1>1, <1>4, <1>8
  <2> QED BY <1>6, <2>1, <2>2 DEF PageOf
<1>10. OrderPage(i, page, more)
  <2>1. n <= Len(rows) => n + Len(page) <= Len(rows)
    BY <1>0, <1>4, <1>5, <1>6
  <2>2. ~(n <= Len(rows)) => Len(page) = 0
    BY <1>0, <1>4, <1>5, <1>6
  <2>3. more \/ \A p \in DOMAIN rows : p > n => p - n \in DOMAIN page /\ page[p - n] = rows[p]
    <3> SUFFICES ASSUME ~more, NEW p \in DOMAIN rows, p > n
                 PROVE  p - n \in DOMAIN page /\ page[p - n] = rows[p]
      OBVIOUS
    <3>1. Len(page) = Len(rest) /\ Len(rest) = Len(rows) - n
      BY <1>0, <1>4, <1>5, <1>6
    <3>2. p - n \in DOMAIN page /\ n + (p - n) = p
      BY <1>0, <1>4, <1>6, <3>1
    <3> QED BY <1>8, <3>2
  <2> QED BY <1>4, <1>8, <2>1, <2>2, <2>3 DEF OrderPage
<1> QED BY <1>6, <1>7, <1>9, <1>10

(* The first n of the rows above a key, in the order of their keys.         *)
LEMMA FirstKeys ==
  ASSUME NEW S, S \subseteq Rows, NEW last \in Nat, \A r \in S : r > last,
         NEW above \in ByKey(S), NEW n \in Int
  PROVE  LET page == Left(above, n)
         IN /\ page \in Seq(Rows) /\ DOMAIN page = 1..Len(page) /\ above \in Seq(Rows)
            /\ \A k \in DOMAIN page : page[k] \in S
            /\ \A k, m \in DOMAIN page : page[k] = page[m] => k = m
            /\ \A k \in DOMAIN page : \A m \in 1..(k - 1) : page[m] < page[k]
            /\ Len(page) = (IF n < 0 THEN 0 ELSE IF n < Len(above) THEN n ELSE Len(above))
            /\ \A r \in S : (\E k \in DOMAIN page : page[k] = r) \/ \A k \in DOMAIN page : r > page[k]
            /\ Len(page) = Len(above) => \A r \in S : \E k \in DOMAIN page : page[k] = r
<1> DEFINE page == Left(above, n)
<1>1. above \in SetToSeqs(S) /\ \A k, m \in DOMAIN above : k < m => above[k] < above[m]
  BY DEF ByKey
<1>2. /\ above \in Seq(Rows) /\ above \in Seq(S) /\ DOMAIN above = 1..Len(above)
      /\ \A k, m \in DOMAIN above : above[k] = above[m] => k = m
      /\ \A k \in DOMAIN above : above[k] \in S
      /\ \A r \in S : \E k \in DOMAIN above : above[k] = r
  BY <1>1, OrdersAre
<1>3. /\ page \in Seq(Rows) /\ Len(page) = (IF n < 0 THEN 0 ELSE IF n < Len(above) THEN n ELSE Len(above))
      /\ DOMAIN page = 1..Len(page)
      /\ \A k \in DOMAIN page : k \in DOMAIN above /\ page[k] = above[k]
  BY <1>2, LeftIs
<1> HIDE DEF page
<1>4. ASSUME NEW k \in DOMAIN page, NEW m \in 1..(k - 1) PROVE page[m] < page[k]
  <2>1. Len(page) \in Nat
    BY <1>3
  <2>2. m \in DOMAIN page /\ m < k
    BY <1>3, <2>1
  <2> QED BY <1>1, <1>3, <2>2
<1>5. ASSUME NEW r \in S, ~\E k \in DOMAIN page : page[k] = r
      PROVE  (\A k \in DOMAIN page : r > page[k]) /\ Len(page) # Len(above)
  <2>1. PICK p \in DOMAIN above : above[p] = r
    BY <1>2
  <2>2. p \notin DOMAIN page
    BY <1>3, <1>5, <2>1
  <2>3. \A k \in DOMAIN page : k < p /\ page[k] = above[k] /\ k \in DOMAIN above
    BY <1>2, <1>3, <2>2
  <2>4. \A k \in DOMAIN page : above[k] < above[p]
    BY <1>1, <2>3
  <2>5. Rows \subseteq Nat
    BY ExtractAssumption
  <2>6. \A k \in DOMAIN page : r > page[k]
    BY <1>2, <2>1, <2>3, <2>4, <2>5
  <2> QED BY <1>2, <1>3, <2>2, <2>6
<1>6. \A k \in DOMAIN page : page[k] \in S
  BY <1>2, <1>3
<1>7. \A k, m \in DOMAIN page : page[k] = page[m] => k = m
  BY <1>2, <1>3
<1> QED BY <1>2, <1>3, <1>4, <1>5, <1>6, <1>7 DEF page

LEMMA KeysetReads ==
  ASSUME Typed, Scans, NEW i \in DOMAIN scans, reading.pages = "keyset", KeysetPage(i)
  PROVE  \E page \in Seq(Rows), more \in BOOLEAN :
           Fetch(i, page, more) /\ PageOf(i, page, more) /\ CursorPage(i, page, more)
<1>0. /\ AppendOnly /\ scans[i].sent \in Nat /\ scans[i].last \in Nat /\ BatchSize \in Nat \ {0}
      /\ start <= scans[i].last /\ Rows \subseteq Nat \ {0} /\ start \in Nat
  BY ScanIs, ExtractAssumption DEF AppendOnly, Scans, Typed
<1> DEFINE S == {r \in Present : r > scans[i].last}
           room == IF source.limit > 0 /\ source.limit - scans[i].sent < BatchSize
                     THEN source.limit - scans[i].sent ELSE BatchSize
<1>1. S \subseteq Rows /\ \A r \in S : r > scans[i].last
  BY DEF Present
<1>2. PICK above \in ByKey(S) :
        LET page == Left(above, room)
        IN Fetch(i, page, /\ Len(page) = BatchSize
                          /\ ~(source.limit > 0 /\ scans[i].sent + Len(page) >= source.limit))
  BY DEF KeysetPage
<1>3. source.limit \in Nat
  BY ReadingNow DEF SourceType
<1>4. room \in Int
  BY <1>0, <1>3
<1>5. source.limit = 0 => room = BatchSize
  BY <1>3
<1> DEFINE page == Left(above, room)
           more == Len(page) = BatchSize /\ ~(source.limit > 0 /\ scans[i].sent + Len(page) >= source.limit)
<1>6. Fetch(i, page, more)
  BY <1>2
<1> HIDE DEF room, S
<1>7. /\ page \in Seq(Rows) /\ DOMAIN page = 1..Len(page) /\ above \in Seq(Rows)
      /\ \A k \in DOMAIN page : page[k] \in S
      /\ \A k, m \in DOMAIN page : page[k] = page[m] => k = m
      /\ \A k \in DOMAIN page : \A m \in 1..(k - 1) : page[m] < page[k]
      /\ Len(page) = (IF room < 0 THEN 0 ELSE IF room < Len(above) THEN room ELSE Len(above))
      /\ \A r \in S : (\E k \in DOMAIN page : page[k] = r) \/ \A k \in DOMAIN page : r > page[k]
      /\ Len(page) = Len(above) => \A r \in S : \E k \in DOMAIN page : page[k] = r
  <2>1. scans[i].last \in Nat
    BY <1>0
  <2> HIDE DEF more
  <2> QED BY <1>1, <1>4, <2>1, FirstKeys
<1> HIDE DEF page
<1>8. ASSUME NEW r \in S PROVE r \in Present /\ InScope(r) /\ r > scans[i].last
  <2>1. r \in Present /\ r > scans[i].last /\ r \in Nat
    BY <1>0, <1>1 DEF S
  <2> QED BY <1>0, <2>1 DEF InScope
<1>9. PageOf(i, page, more)
  BY <1>7, <1>8 DEF PageOf
<1>10. more \/ source.limit # 0 \/ Len(page) = Len(above)
  BY <1>0, <1>3, <1>5, <1>7
<1>11. \A r \in Present : InScope(r) /\ r > scans[i].last => r \in S
  BY DEF S
<1>12. CursorPage(i, page, more)
  <2>1. \A k \in DOMAIN page : page[k] > scans[i].last /\ \A m \in 1..(k - 1) : page[m] < page[k]
    BY <1>7, <1>8
  <2>2. \A r \in Present : InScope(r) /\ r > scans[i].last =>
          (\E k \in DOMAIN page : page[k] = r) \/ \A k \in DOMAIN page : r > page[k]
    BY <1>7, <1>11
  <2>3. more \/ (AppendOnly /\ source.limit # 0) \/
          \A r \in Present : InScope(r) /\ r > scans[i].last => \E k \in DOMAIN page : page[k] = r
    <3> HIDE DEF more
    <3> QED BY <1>0, <1>7, <1>10, <1>11
  <2> HIDE DEF more
  <2> QED BY <2>1, <2>2, <2>3 DEF CursorPage
<1>13. page \in Seq(Rows) /\ more \in BOOLEAN
  BY <1>7
<1> HIDE DEF more
<1> QED BY <1>6, <1>9, <1>12, <1>13

LEMMA ServerReads ==
  ASSUME Typed, Scans, NEW i \in DOMAIN scans, reading.pages = "server", ServerPage(i)
  PROVE  \E page \in Seq(Rows), more \in BOOLEAN :
           Fetch(i, page, more) /\ PageOf(i, page, more) /\ CursorPage(i, page, more)
<1>0. ~AppendOnly /\ scans[i].last \in Nat /\ BatchSize \in Nat \ {0}
  BY ScanIs, ExtractAssumption DEF AppendOnly
<1> DEFINE S == {r \in Selected : r > scans[i].last}
<1>1. S \subseteq Rows /\ \A r \in S : r > scans[i].last
  BY <1>0, SelectedIs
<1>2. PICK above \in ByKey(S) : Fetch(i, Left(above, BatchSize), Len(above) > BatchSize)
  BY DEF ServerPage
<1> DEFINE page == Left(above, BatchSize)
           more == Len(above) > BatchSize
<1>6. Fetch(i, page, more)
  BY <1>2
<1>8. \A r \in S : r \in Present /\ InScope(r) /\ r > scans[i].last
  BY <1>0, <1>1, SelectedIs
<1>11. \A r \in Present : InScope(r) /\ r > scans[i].last => r \in S
  BY <1>0, SelectedIs
<1> HIDE DEF S
<1>7. /\ page \in Seq(Rows) /\ DOMAIN page = 1..Len(page) /\ above \in Seq(Rows)
      /\ \A k \in DOMAIN page : page[k] \in S
      /\ \A k, m \in DOMAIN page : page[k] = page[m] => k = m
      /\ \A k \in DOMAIN page : \A m \in 1..(k - 1) : page[m] < page[k]
      /\ Len(page) = (IF BatchSize < 0 THEN 0 ELSE IF BatchSize < Len(above) THEN BatchSize ELSE Len(above))
      /\ \A r \in S : (\E k \in DOMAIN page : page[k] = r) \/ \A k \in DOMAIN page : r > page[k]
      /\ Len(page) = Len(above) => \A r \in S : \E k \in DOMAIN page : page[k] = r
  BY <1>0, <1>1, FirstKeys
<1> HIDE DEF page
<1>9. PageOf(i, page, more)
  BY <1>7, <1>8 DEF PageOf
<1>10. more \/ Len(page) = Len(above)
  BY <1>0, <1>7
<1>12. CursorPage(i, page, more)
  <2>1. \A k \in DOMAIN page : page[k] > scans[i].last /\ \A m \in 1..(k - 1) : page[m] < page[k]
    BY <1>7, <1>8
  <2>2. \A r \in Present : InScope(r) /\ r > scans[i].last =>
          (\E k \in DOMAIN page : page[k] = r) \/ \A k \in DOMAIN page : r > page[k]
    BY <1>7, <1>11
  <2>3. more \/ \A r \in Present : InScope(r) /\ r > scans[i].last => \E k \in DOMAIN page : page[k] = r
    <3> HIDE DEF more
    <3> QED BY <1>7, <1>10, <1>11
  <2> HIDE DEF more
  <2> QED BY <2>1, <2>2, <2>3 DEF CursorPage
<1>13. page \in Seq(Rows) /\ more \in BOOLEAN
  BY <1>7
<1> HIDE DEF more
<1> QED BY <1>6, <1>9, <1>12, <1>13

LEMMA AnyOrderIs ==
  ASSUME Typed, NEW S, NEW s \in AnyOrder(S)
  PROVE  /\ s \in SetToSeqs(S)
         /\ reading.ordered => \A k, m \in DOMAIN s : k < m => Rank(s[k]) <= Rank(s[m])
BY DEF AnyOrder, Orders

LEMMA WholeReads ==
  ASSUME Typed, NEW i \in DOMAIN scans,
         \/ reading.pages = "ranges" /\ RangePage(i)
         \/ reading.pages = "one" /\ OnePage(i)
  PROVE  \E page \in Seq(Rows), more \in BOOLEAN :
           Fetch(i, page, more) /\ PageOf(i, page, more) /\ WholePage(i, page, more)
<1> DEFINE S == {r \in Selected : reading.pages = "ranges" => r \in scans[i].lo..scans[i].hi}
<1>0. ~AppendOnly
  BY DEF AppendOnly
<1>1. PICK page \in AnyOrder(S) : Fetch(i, page, FALSE)
  <2>1. CASE reading.pages = "ranges" /\ RangePage(i)
    <3>1. S = {r \in Selected : r \in scans[i].lo..scans[i].hi}
      BY <2>1
    <3> QED BY <2>1, <3>1 DEF RangePage
  <2>2. CASE reading.pages = "one" /\ OnePage(i)
    <3>1. S = Selected
      BY <2>2
    <3> QED BY <2>2, <3>1 DEF OnePage
  <2> QED BY <2>1, <2>2
<1>2. S \subseteq Rows /\ S \subseteq Present
  BY <1>0, SelectedIs
<1>3. \A r \in S : InScope(r) /\ (reading.pages = "ranges" => r \in scans[i].lo..scans[i].hi)
  BY <1>0, SelectedIs
<1>4. \A r \in Present : InScope(r) /\ (reading.pages = "ranges" => r \in scans[i].lo..scans[i].hi) => r \in S
  BY <1>0, SelectedIs
<1> HIDE DEF S
<1>5. page \in SetToSeqs(S) /\ (reading.ordered => \A k, m \in DOMAIN page : k < m => Rank(page[k]) <= Rank(page[m]))
  BY AnyOrderIs
<1>6. /\ page \in Seq(Rows) /\ DOMAIN page = 1..Len(page)
      /\ \A k, m \in DOMAIN page : page[k] = page[m] => k = m
      /\ \A k \in DOMAIN page : page[k] \in S
      /\ \A r \in S : \E k \in DOMAIN page : page[k] = r
  BY <1>2, <1>5, OrdersAre
<1>7. PageOf(i, page, FALSE)
  BY <1>2, <1>3, <1>6 DEF PageOf
<1>8. WholePage(i, page, FALSE)
  BY <1>3, <1>4, <1>5, <1>6 DEF WholePage
<1> QED BY <1>1, <1>6, <1>7, <1>8

(* Every statement that succeeds.                                           *)
LEMMA ReadsPage ==
  ASSUME Typed, Scans, NEW i \in DOMAIN scans, Reads(i)
  PROVE  \E page \in Seq(Rows), more \in BOOLEAN :
           /\ Fetch(i, page, more) /\ PageOf(i, page, more)
           /\ reading.pages = "offset" => OrderPage(i, page, more)
           /\ reading.pages \in {"keyset", "server"} => CursorPage(i, page, more)
           /\ reading.pages \in {"ranges", "one"} => WholePage(i, page, more)
<1>1. reading.pages \in {"offset", "keyset", "server", "ranges", "one"}
  BY DEF Scans
<1>2. CASE reading.pages = "offset"
  <2>1. OffsetPage(i)
    BY <1>2 DEF Reads
  <2> QED BY <1>2, <2>1, OffsetReads
<1>3. CASE reading.pages = "keyset"
  <2>1. KeysetPage(i)
    BY <1>3 DEF Reads
  <2> QED BY <1>3, <2>1, KeysetReads
<1>4. CASE reading.pages = "server"
  <2>1. ServerPage(i)
    BY <1>4 DEF Reads
  <2> QED BY <1>4, <2>1, ServerReads
<1>5. CASE reading.pages = "ranges"
  <2>1. RangePage(i)
    BY <1>5 DEF Reads
  <2> QED BY <1>5, <2>1, WholeReads
<1>6. CASE reading.pages = "one"
  <2>1. OnePage(i)
    BY <1>6 DEF Reads
  <2> QED BY <1>6, <2>1, WholeReads
<1> QED BY <1>1, <1>2, <1>3, <1>4, <1>5, <1>6

------------------------------------------------------------------------------
\* What the steps do

LEMMA Steps ==
  ASSUME [Next]_vars
  PROVE  \/ Begin \/ Plan \/ PlanWithoutRange \/ Take \/ Return \/ Finish \/ EndContext
         \/ \E i \in DOMAIN scans : Query(i) \/ Emit(i) \/ Interrupt(i) \/ EndPage(i)
         \/ \E r \in Rows : Write(r)
         \/ UNCHANGED vars
BY DEF Next, Scan

Sends(i) ==
  LET item == Head(scans[i].page)
      now == reading.bare = "now" /\ ShownAt(item.row, item.at) = 0
  IN /\ ~(reading.bare = "error" /\ ShownAt(item.row, item.at) = 0)
     /\ Len(out) < Capacity
     /\ out' = Append(out, [row |-> item.row, at |-> item.at,
                            wm |-> RowWatermark(item.row, item.at)])
     /\ Get(i, NextRow(scans[i]))
     /\ smooth' = (smooth /\ (now => changed = {}))
     /\ UNCHANGED <<failed, cutShort>>

LEMMA EmitIs ==
  ASSUME NEW i, Emit(i)
  PROVE  /\ phase = "extract" /\ scans[i].pc = "emit" /\ scans[i].page # <<>>
         /\ UNCHANGED <<scanFrame, stopped, taken, fresh, faults>>
         /\ (Fail(i, "error") /\ UNCHANGED <<out, smooth>>) \/ Sends(i)
BY DEF Emit, Sends

(* One scan of the list changes.                                            *)
OnlyScan(i) ==
  /\ DOMAIN scans' = DOMAIN scans /\ Len(scans') = Len(scans)
  /\ \A j \in DOMAIN scans : j # i => scans'[j] = scans[j]

LEMMA GetIs ==
  ASSUME Typed, NEW i \in DOMAIN scans, NEW s \in ScanType, Get(i, s)
  PROVE  scans' \in Seq(ScanType) /\ OnlyScan(i) /\ scans'[i] = s
<1>1. scans \in Seq(ScanType) /\ DOMAIN scans = 1..Len(scans)
  BY DEF Typed
<1>2. scans' = [scans EXCEPT ![i] = s]
  BY DEF Get
<1>3. DOMAIN scans' = DOMAIN scans /\ scans'[i] = s /\ \A j \in DOMAIN scans : j # i => scans'[j] = scans[j]
  BY <1>1, <1>2
<1>4. scans' \in Seq(ScanType) /\ Len(scans') = Len(scans)
  BY <1>1, <1>2
<1> QED BY <1>3, <1>4 DEF OnlyScan

(* A statement fails.                                                       *)
FailsScan(i) ==
  /\ scans' \in Seq(ScanType) /\ OnlyScan(i)
  /\ scans'[i].pc = "ended" /\ scans'[i].page = <<>> /\ scans'[i].more = scans[i].more
  /\ scans'[i].lo = scans[i].lo /\ scans'[i].hi = scans[i].hi
  /\ scans'[i].last = scans[i].last /\ scans'[i].sent = scans[i].sent
  /\ failed' \in {"no", "error", "timeout"} /\ cutShort' \in BOOLEAN
  /\ failed # "no" => failed' # "no"
  /\ cutShort => cutShort'
  /\ failed' # "no" \/ cutShort'
  /\ failed' \in {failed, "error"} \/ cutShort'
LEMMA FailIs ==
  ASSUME Typed, NEW i \in DOMAIN scans, NEW how \in {"error", "timeout"}, Fail(i, how)
  PROVE  FailsScan(i)
<1> DEFINE s == [scans[i] EXCEPT !.pc = "ended", !.page = <<>>]
<1>1. scans[i] \in ScanType
  BY ScanIs
<1>2. <<>> \in Seq(PageItem)
  OBVIOUS
<1>3. /\ s \in ScanType /\ s.pc = "ended" /\ s.page = <<>> /\ s.more = scans[i].more
      /\ s.lo = scans[i].lo /\ s.hi = scans[i].hi /\ s.last = scans[i].last /\ s.sent = scans[i].sent
  BY <1>1, <1>2 DEF ScanType
<1>4. Get(i, s)
  BY DEF Fail
<1> HIDE DEF s
<1>5. scans' \in Seq(ScanType) /\ OnlyScan(i) /\ scans'[i] = s
  BY <1>3, <1>4, GetIs
<1>6. /\ failed' = (IF failed # "no" \/ (how = "timeout" /\ source.kind = "restapi") THEN failed ELSE how)
      /\ cutShort' = (cutShort \/ how = "timeout")
  BY DEF Fail
<1>7. failed \in {"no", "error", "timeout"} /\ cutShort \in BOOLEAN
  BY DEF Typed
<1>8. /\ failed' \in {"no", "error", "timeout"} /\ (failed # "no" => failed' # "no")
  BY <1>6, <1>7
<1>9. /\ failed' # "no" \/ how = "timeout"
      /\ failed' \in {failed, "error"} \/ how = "timeout"
  BY <1>6, <1>7
<1>10. cutShort' \in BOOLEAN /\ (cutShort => cutShort') /\ (how = "timeout" => cutShort')
  BY <1>6, <1>7
<1> QED BY <1>3, <1>5, <1>8, <1>9, <1>10 DEF FailsScan

(* A page comes.                                                            *)
FetchesScan(i, page, more) ==
  /\ scans' \in Seq(ScanType) /\ OnlyScan(i)
  /\ scans'[i].pc = "emit" /\ scans'[i].more = more
  /\ scans'[i].lo = scans[i].lo /\ scans'[i].hi = scans[i].hi
  /\ scans'[i].last = scans[i].last /\ scans'[i].sent = scans[i].sent
  /\ DOMAIN scans'[i].page = DOMAIN page /\ Len(scans'[i].page) = Len(page)
  /\ DOMAIN page = 1..Len(page) /\ Len(page) \in Nat
  /\ \A k \in DOMAIN page : /\ page[k] \in Present
                            /\ scans'[i].page[k] = [row |-> page[k], at |-> time[page[k]]]
                            /\ scans'[i].page[k].row = page[k] /\ scans'[i].page[k].at = time[page[k]]
LEMMA FetchIs ==
  ASSUME Typed, NEW i \in DOMAIN scans, NEW page \in Seq(Rows), NEW more \in BOOLEAN,
         Fetch(i, page, more), \A k \in DOMAIN page : page[k] \in Present
  PROVE  FetchesScan(i, page, more)
<1> DEFINE items == Items(page)
           s == [scans[i] EXCEPT !.pc = "emit", !.page = items, !.more = more]
<1>0. DOMAIN page = 1..Len(page) /\ Len(page) \in Nat /\ \A k \in DOMAIN page : page[k] \in Rows
  OBVIOUS
<1>1. scans[i] \in ScanType
  BY ScanIs
<1>2. items = [k \in 1..Len(page) |-> [row |-> page[k], at |-> time[page[k]]]]
  BY <1>0 DEF Items
<1>3. ASSUME NEW k \in 1..Len(page) PROVE [row |-> page[k], at |-> time[page[k]]] \in PageItem
  <2>1. page[k] \in Rows /\ time[page[k]] > 0
    BY <1>0 DEF Present
  <2>2. time \in [Rows -> 0..clock] /\ clock \in Nat
    BY ExtractAssumption DEF Typed
  <2>3. time[page[k]] \in Nat \ {0}
    BY <2>1, <2>2
  <2> QED BY <2>1, <2>3 DEF PageItem
<1>4. items \in Seq(PageItem) /\ DOMAIN items = 1..Len(page) /\ Len(items) = Len(page)
  BY <1>0, <1>2, <1>3
<1>5. \A k \in 1..Len(page) : items[k] = [row |-> page[k], at |-> time[page[k]]]
                              /\ items[k].row = page[k] /\ items[k].at = time[page[k]]
  BY <1>2
<1> HIDE DEF items
<1>6. /\ s \in ScanType /\ s.pc = "emit" /\ s.page = items /\ s.more = more
      /\ s.lo = scans[i].lo /\ s.hi = scans[i].hi /\ s.last = scans[i].last /\ s.sent = scans[i].sent
  BY <1>1, <1>4 DEF ScanType
<1>7. Get(i, s)
  BY DEF Fetch, items
<1> HIDE DEF s
<1>8. scans' \in Seq(ScanType) /\ OnlyScan(i) /\ scans'[i] = s
  BY <1>6, <1>7, GetIs
<1> QED BY <1>0, <1>4, <1>5, <1>6, <1>8 DEF FetchesScan

(* A row is sent.                                                           *)
SendsRow(i) ==
  /\ scans' \in Seq(ScanType) /\ OnlyScan(i)
  /\ scans'[i].pc = scans[i].pc /\ scans'[i].more = scans[i].more
  /\ scans'[i].lo = scans[i].lo /\ scans'[i].hi = scans[i].hi
  /\ scans'[i].last = scans[i].page[1].row /\ scans'[i].sent = scans[i].sent + 1
  /\ Len(scans[i].page) > 0 /\ 1 \in DOMAIN scans[i].page
  /\ Len(scans'[i].page) = Len(scans[i].page) - 1
  /\ DOMAIN scans'[i].page = 1..(Len(scans[i].page) - 1)
  /\ \A k \in DOMAIN scans'[i].page : k + 1 \in DOMAIN scans[i].page
                                      /\ scans'[i].page[k] = scans[i].page[k + 1]
LEMMA NextIs ==
  ASSUME Typed, NEW i \in DOMAIN scans, scans[i].page # <<>>, Get(i, NextRow(scans[i]))
  PROVE  SendsRow(i)
<1> DEFINE p == scans[i].page
           s == NextRow(scans[i])
<1>1. scans[i] \in ScanType /\ p \in Seq(PageItem) /\ scans[i].sent \in Nat
  BY ScanIs
<1>2. /\ Len(p) > 0 /\ 1 \in DOMAIN p /\ Head(p) = p[1] /\ Tail(p) \in Seq(PageItem)
      /\ Len(Tail(p)) = Len(p) - 1 /\ DOMAIN Tail(p) = 1..(Len(p) - 1)
      /\ \A k \in 1..(Len(p) - 1) : k + 1 \in DOMAIN p /\ Tail(p)[k] = p[k + 1]
  BY <1>1
<1>3. p[1].row \in Nat
  BY <1>1, <1>2, ScanIs, ExtractAssumption
<1> DEFINE rest == Tail(p)
           last == p[1].row
           sent == scans[i].sent + 1
<1>4. s = [scans[i] EXCEPT !.page = rest, !.sent = sent, !.last = last]
  BY <1>1, <1>2 DEF NextRow
<1>7. rest \in Seq(PageItem) /\ last \in Nat /\ sent \in Nat
  BY <1>1, <1>2, <1>3
<1> HIDE DEF s, p, rest, last, sent
<1>8. /\ s \in ScanType /\ s.page = rest /\ s.sent = sent /\ s.last = last
      /\ s.pc = scans[i].pc /\ s.more = scans[i].more /\ s.lo = scans[i].lo /\ s.hi = scans[i].hi
  BY <1>1, <1>4, <1>7 DEF ScanType
<1>5. /\ s \in ScanType /\ s.page = Tail(p) /\ s.sent = scans[i].sent + 1 /\ s.last = p[1].row
      /\ s.pc = scans[i].pc /\ s.more = scans[i].more /\ s.lo = scans[i].lo /\ s.hi = scans[i].hi
  BY <1>8 DEF rest, last, sent
<1>6. scans' \in Seq(ScanType) /\ OnlyScan(i) /\ scans'[i] = s
  BY <1>5, GetIs DEF s
<1> QED BY <1>2, <1>5, <1>6 DEF SendsRow, p

(* A page ends.                                                             *)
EndsPage(i) ==
  /\ scans' \in Seq(ScanType) /\ OnlyScan(i)
  /\ scans[i].pc = "emit" /\ scans[i].page = <<>>
  /\ scans'[i].pc = (IF scans[i].more THEN "query" ELSE "ended")
  /\ scans'[i].more = scans[i].more /\ scans'[i].page = <<>>
  /\ scans'[i].lo = scans[i].lo /\ scans'[i].hi = scans[i].hi
  /\ scans'[i].last = scans[i].last /\ scans'[i].sent = scans[i].sent
LEMMA EndIs ==
  ASSUME Typed, NEW i \in DOMAIN scans, EndPage(i)
  PROVE  EndsPage(i)
<1> DEFINE c == IF scans[i].more THEN "query" ELSE "ended"
           s == [scans[i] EXCEPT !.pc = c]
<1>1. scans[i] \in ScanType
  BY ScanIs
<1>2. c \in {"query", "emit", "ended"}
  OBVIOUS
<1>3. /\ s \in ScanType /\ s.pc = c /\ s.page = scans[i].page /\ s.more = scans[i].more
      /\ s.lo = scans[i].lo /\ s.hi = scans[i].hi /\ s.last = scans[i].last /\ s.sent = scans[i].sent
  BY <1>1, <1>2 DEF ScanType
<1>4. Get(i, s) /\ scans[i].pc = "emit" /\ scans[i].page = <<>>
  BY DEF EndPage
<1> HIDE DEF s
<1>5. scans' \in Seq(ScanType) /\ OnlyScan(i) /\ scans'[i] = s
  BY <1>3, <1>4, GetIs
<1> QED BY <1>3, <1>4, <1>5 DEF EndsPage

------------------------------------------------------------------------------
\* Where rows go

(* The channel gets a row.                                                  *)
AppendsOut(i) ==
  /\ out' \in Seq(OutItem) /\ Len(out) < Capacity
  /\ Len(out') = Len(out) + 1 /\ DOMAIN out' = 1..(Len(out) + 1) /\ Len(out) + 1 \in DOMAIN out'
  /\ \A k \in DOMAIN out : k \in DOMAIN out' /\ k # Len(out) + 1 /\ out'[k] = out[k]
  /\ \A k \in DOMAIN out' : k \in DOMAIN out \/ k = Len(out) + 1
  /\ out'[Len(out) + 1].row = scans[i].page[1].row /\ out'[Len(out) + 1].at = scans[i].page[1].at
  /\ out'[Len(out) + 1].wm = RowWatermark(scans[i].page[1].row, scans[i].page[1].at)

LEMMA WatermarkIs ==
  ASSUME Typed, NEW r \in Rows, NEW t \in Nat
  PROVE  /\ RowWatermark(r, t) \in Nat /\ ShownAt(r, t) \in {0, t}
         /\ AppendOnly => RowWatermark(r, t) = r
         /\ ~AppendOnly => RowWatermark(r, t) = IF reading.bare = "now" /\ ShownAt(r, t) = 0
                                                  THEN clock ELSE ShownAt(r, t)
<1>1. ShownAt(r, t) \in {0, t}
  BY DEF ShownAt
<1>2. AppendOnly => RowWatermark(r, t) = r
  BY DEF RowWatermark, AppendOnly
<1>3. ~AppendOnly /\ reading.bare = "now" /\ ShownAt(r, t) = 0 => RowWatermark(r, t) = clock
  BY DEF RowWatermark, AppendOnly
<1>4. ~AppendOnly /\ ~(reading.bare = "now" /\ ShownAt(r, t) = 0) => RowWatermark(r, t) = ShownAt(r, t)
  BY DEF RowWatermark, AppendOnly
<1>5. r \in Nat /\ clock \in Nat
  BY ExtractAssumption DEF Typed
<1> HIDE DEF AppendOnly
<1> QED BY <1>1, <1>2, <1>3, <1>4, <1>5

LEMMA SendsIs ==
  ASSUME Typed, NEW i \in DOMAIN scans, scans[i].page # <<>>, Sends(i)
  PROVE  /\ SendsRow(i) /\ AppendsOut(i)
         /\ smooth' => smooth
         /\ smooth' /\ reading.bare = "now" /\ ShownAt(scans[i].page[1].row, scans[i].page[1].at) = 0
              => changed = {}
         /\ UNCHANGED <<failed, cutShort>> /\ smooth' \in BOOLEAN
<1>1. Get(i, NextRow(scans[i]))
  BY DEF Sends
<1>2. SendsRow(i)
  BY <1>1, NextIs
<1>3. scans[i].page \in Seq(PageItem) /\ Head(scans[i].page) = scans[i].page[1] /\ 1 \in DOMAIN scans[i].page
  BY ScanIs
<1> DEFINE item == scans[i].page[1]
           wm == RowWatermark(item.row, item.at)
           o == [row |-> item.row, at |-> item.at, wm |-> wm]
<1>4. item.row \in Rows /\ item.at \in Nat \ {0}
  BY <1>3, ScanIs
<1>5. wm \in Nat
  BY <1>4, WatermarkIs
<1>6. out' = Append(out, o) /\ Len(out) < Capacity
  BY <1>3 DEF Sends
<1>7. o \in OutItem /\ o.row = item.row /\ o.at = item.at /\ o.wm = wm
  BY <1>4, <1>5 DEF OutItem
<1> HIDE DEF o
<1>8. /\ out' \in Seq(OutItem) /\ Len(out') = Len(out) + 1 /\ DOMAIN out' = 1..(Len(out) + 1)
      /\ \A k \in DOMAIN out : out'[k] = out[k]
      /\ out'[Len(out) + 1] = o
  BY <1>6, <1>7, OutIs
<1>9. /\ Len(out) + 1 \in DOMAIN out'
      /\ \A k \in DOMAIN out : k \in DOMAIN out' /\ k # Len(out) + 1
      /\ \A k \in DOMAIN out' : k \in DOMAIN out \/ k = Len(out) + 1
  BY <1>8, OutIs
<1>10. AppendsOut(i)
  BY <1>6, <1>7, <1>8, <1>9 DEF AppendsOut
<1>11. /\ smooth' = (smooth /\ (reading.bare = "now" /\ ShownAt(item.row, item.at) = 0 => changed = {}))
       /\ UNCHANGED <<failed, cutShort>>
  BY <1>3 DEF Sends
<1> QED BY <1>2, <1>10, <1>11 DEF Typed

(* The engine gets the first row of the channel.                            *)
TakesHead ==
  /\ out' \in Seq(OutItem) /\ Len(out) > 0 /\ 1 \in DOMAIN out
  /\ Len(out') = Len(out) - 1 /\ DOMAIN out' = 1..(Len(out) - 1)
  /\ \A k \in DOMAIN out' : k + 1 \in DOMAIN out /\ out'[k] = out[k + 1]
  /\ \A k \in DOMAIN out : k = 1 \/ (k - 1 \in DOMAIN out' /\ out'[k - 1] = out[k])
  /\ IF ctxDone THEN stopped' = TRUE /\ UNCHANGED <<highest, taken, fresh>>
     ELSE /\ highest' = IF out[1].wm > highest THEN out[1].wm ELSE highest
          /\ taken' = [taken EXCEPT ![out[1].row] = @ + 1]
          /\ fresh' = IF time[out[1].row] = out[1].at THEN fresh \cup {out[1].row} ELSE fresh
          /\ UNCHANGED stopped
takeFrame == <<source, reading, tableVars, phase, ctxDone, scans, failed, watermark, runs,
               faults, start, end, changed, unread, late, tied, smooth, cutShort>>
LEMMA TakeIs ==
  ASSUME Typed, Take
  PROVE  TakesHead /\ phase = "extract" /\ ~stopped /\ UNCHANGED takeFrame
<1>1. out \in Seq(OutItem) /\ out # <<>> /\ out' = Tail(out)
  BY OutIs DEF Take
<1>2. /\ out' \in Seq(OutItem) /\ Len(out) > 0 /\ 1 \in DOMAIN out /\ Head(out) = out[1]
      /\ Len(out') = Len(out) - 1 /\ DOMAIN out' = 1..(Len(out) - 1)
      /\ \A k \in 1..(Len(out) - 1) : k + 1 \in DOMAIN out /\ out'[k] = out[k + 1]
  BY <1>1
<1>3. \A k \in DOMAIN out : k = 1 \/ (k - 1 \in DOMAIN out' /\ out'[k - 1] = out[k])
  <2> SUFFICES ASSUME NEW k \in DOMAIN out, k # 1
               PROVE  k - 1 \in DOMAIN out' /\ out'[k - 1] = out[k]
    OBVIOUS
  <2>1. k \in 1..Len(out) /\ k - 1 \in 1..(Len(out) - 1) /\ (k - 1) + 1 = k
    BY OutIs
  <2> QED BY <1>2, <2>1
<1>4. IF ctxDone THEN stopped' = TRUE /\ UNCHANGED <<highest, taken, fresh>>
      ELSE /\ highest' = IF out[1].wm > highest THEN out[1].wm ELSE highest
           /\ taken' = [taken EXCEPT ![out[1].row] = @ + 1]
           /\ fresh' = IF time[out[1].row] = out[1].at THEN fresh \cup {out[1].row} ELSE fresh
           /\ UNCHANGED stopped
  BY <1>2 DEF Take
<1> QED BY <1>2, <1>3, <1>4 DEF TakesHead, Take, takeFrame

(* Other scans are as they were.                                            *)
LEMMA OtherScan ==
  ASSUME NEW i, NEW j \in DOMAIN scans, j # i, OnlyScan(i), NEW r, UNCHANGED <<time, reading>>
  PROVE  /\ InPage(j, r)' <=> InPage(j, r)
         /\ PageFresh(j, r)' <=> PageFresh(j, r)
         /\ (Sent(r)' <=> Sent(r)) \/ reading.pages # "offset" => (ToCome(j, r)' <=> ToCome(j, r))
<1>1. scans'[j] = scans[j]
  BY DEF OnlyScan
<1>2. InPage(j, r)' <=> InPage(j, r)
  BY <1>1 DEF InPage
<1>3. PageFresh(j, r)' <=> PageFresh(j, r)
  BY <1>1 DEF PageFresh
<1>4. (Sent(r)' <=> Sent(r)) \/ reading.pages # "offset" => (ToCome(j, r)' <=> ToCome(j, r))
  BY <1>1, <1>2 DEF ToCome
<1> QED BY <1>2, <1>3, <1>4

LEMMA SendMoves ==
  ASSUME Typed, Scans, NEW i \in DOMAIN scans, SendsRow(i), AppendsOut(i), scans[i].pc = "emit",
         UNCHANGED <<taken, fresh, time, reading>>, NEW r \in Rows
  PROVE  LET item == scans[i].page[1]
         IN /\ item.row \in Rows
            /\ InOut(r)' <=> InOut(r) \/ r = item.row
            /\ Sent(r)' <=> Sent(r) \/ r = item.row
            /\ InPage(i, r) <=> InPage(i, r)' \/ r = item.row
            /\ SentFresh(r)' <=> SentFresh(r) \/ (r = item.row /\ item.at = time[r])
            /\ PageFresh(i, r)' => PageFresh(i, r)
            /\ PageFresh(i, r) => PageFresh(i, r)' \/ (r = item.row /\ item.at = time[r])
            /\ ToCome(i, r)' <=> ToCome(i, r)
<1> DEFINE item == scans[i].page[1]
           n == Len(out) + 1
<1>0. /\ item.row \in Rows /\ 1 \in DOMAIN scans[i].page /\ item \in PageItem
      /\ DOMAIN scans[i].page = 1..Len(scans[i].page) /\ Len(scans[i].page) \in Nat
      /\ \A k \in DOMAIN scans[i].page : scans[i].page[k].row \in Nat /\ scans[i].last \in Nat
  <2>1. 1 \in DOMAIN scans[i].page
    BY DEF SendsRow
  <2>2. \A k \in DOMAIN scans[i].page : scans[i].page[k] \in PageItem /\ scans[i].page[k].row \in Rows
    BY ScanIs
  <2>3. \A k \in DOMAIN scans[i].page : scans[i].page[k].row \in Nat
    BY <2>2, ExtractAssumption
  <2> QED BY <2>1, <2>2, <2>3, ScanIs
<1>1. InOut(r)' <=> InOut(r) \/ r = item.row
  <2>1. InOut(r)' => InOut(r) \/ r = item.row
    BY DEF InOut, AppendsOut
  <2>2. InOut(r) => InOut(r)'
    BY DEF InOut, AppendsOut
  <2>3. r = item.row => InOut(r)'
    BY DEF InOut, AppendsOut
  <2> QED BY <2>1, <2>2, <2>3
<1>2. Sent(r)' <=> Sent(r) \/ r = item.row
  BY <1>1 DEF Sent
<1>3. \A k \in DOMAIN scans[i].page : k = 1 \/ (k - 1 \in DOMAIN scans'[i].page /\ scans'[i].page[k - 1] = scans[i].page[k])
  <2> SUFFICES ASSUME NEW k \in DOMAIN scans[i].page, k # 1
               PROVE  k - 1 \in DOMAIN scans'[i].page /\ scans'[i].page[k - 1] = scans[i].page[k]
    OBVIOUS
  <2>1. k \in 1..Len(scans[i].page) /\ k - 1 \in 1..(Len(scans[i].page) - 1) /\ (k - 1) + 1 = k
    BY <1>0
  <2> QED BY <2>1 DEF SendsRow
<1>4. InPage(i, r) <=> InPage(i, r)' \/ r = item.row
  <2>1. InPage(i, r)' => InPage(i, r)
    BY DEF InPage, SendsRow
  <2>2. InPage(i, r) => InPage(i, r)' \/ r = item.row
    BY <1>3 DEF InPage
  <2>3. r = item.row => InPage(i, r)
    BY <1>0 DEF InPage
  <2> QED BY <2>1, <2>2, <2>3
<1>5. SentFresh(r)' <=> SentFresh(r) \/ (r = item.row /\ item.at = time[r])
  <2>1. SentFresh(r)' => SentFresh(r) \/ (r = item.row /\ item.at = time[r])
    BY DEF SentFresh, AppendsOut
  <2>2. SentFresh(r) => SentFresh(r)'
    BY DEF SentFresh, AppendsOut
  <2>3. r = item.row /\ item.at = time[r] => SentFresh(r)'
    BY DEF SentFresh, AppendsOut
  <2> QED BY <2>1, <2>2, <2>3
<1>6. PageFresh(i, r)' => PageFresh(i, r)
  <2> SUFFICES ASSUME PageFresh(i, r)' PROVE PageFresh(i, r)
    OBVIOUS
  <2>1. PICK k \in DOMAIN scans'[i].page : scans'[i].page[k] = [row |-> r, at |-> time[r]]
    BY DEF PageFresh, Range
  <2>2. k + 1 \in DOMAIN scans[i].page /\ scans[i].page[k + 1] = [row |-> r, at |-> time[r]]
    BY <2>1 DEF SendsRow
  <2> QED BY <2>2 DEF PageFresh, Range
<1>7. PageFresh(i, r) => PageFresh(i, r)' \/ (r = item.row /\ item.at = time[r])
  <2> SUFFICES ASSUME PageFresh(i, r) PROVE PageFresh(i, r)' \/ (r = item.row /\ item.at = time[r])
    OBVIOUS
  <2>1. PICK k \in DOMAIN scans[i].page : scans[i].page[k] = [row |-> r, at |-> time[r]]
    BY DEF PageFresh, Range
  <2>2. CASE k = 1
    BY <2>1, <2>2
  <2>3. CASE k # 1
    <3>1. k - 1 \in DOMAIN scans'[i].page /\ scans'[i].page[k - 1] = [row |-> r, at |-> time[r]]
      BY <1>3, <2>1, <2>3
    <3> QED BY <3>1 DEF PageFresh, Range
  <2> QED BY <2>2, <2>3
<1>8. ToCome(i, r)' <=> ToCome(i, r)
  <2>0. scans'[i].pc = scans[i].pc /\ scans'[i].more = scans[i].more
        /\ scans'[i].lo = scans[i].lo /\ scans'[i].hi = scans[i].hi /\ scans'[i].last = item.row
    BY DEF SendsRow
  <2>1. CASE reading.pages \in {"keyset", "server"}
    <3>1. /\ \A k \in DOMAIN scans[i].page :
                /\ scans[i].page[k].row > scans[i].last
                /\ \A m \in 1..(k - 1) : scans[i].page[m].row < scans[i].page[k].row
      BY <2>1 DEF Scans
    <3>2. r \in Nat
      BY ExtractAssumption
    <3>3. (r > scans[i].last /\ \A k \in DOMAIN scans[i].page : r > scans[i].page[k].row)
            => r > item.row /\ \A k \in DOMAIN scans'[i].page : r > scans'[i].page[k].row
      BY <1>0 DEF SendsRow
    <3>4. (r > item.row /\ \A k \in DOMAIN scans'[i].page : r > scans'[i].page[k].row)
            => r > scans[i].last /\ \A k \in DOMAIN scans[i].page : r > scans[i].page[k].row
      <4> SUFFICES ASSUME r > item.row, \A k \in DOMAIN scans'[i].page : r > scans'[i].page[k].row
                   PROVE  r > scans[i].last /\ \A k \in DOMAIN scans[i].page : r > scans[i].page[k].row
        OBVIOUS
      <4>1. item.row > scans[i].last /\ item.row \in Nat
        BY <1>0, <3>1
      <4>2. r > scans[i].last
        BY <1>0, <3>2, <4>1
      <4>3. \A k \in DOMAIN scans[i].page : r > scans[i].page[k].row
        BY <1>3
      <4> QED BY <4>2, <4>3
    <3> HIDE DEF item
    <3> QED BY <2>0, <2>1, <3>3, <3>4 DEF ToCome
  <2>2. CASE reading.pages = "ranges"
    BY <2>0, <2>2 DEF ToCome
  <2>3. CASE reading.pages = "offset"
    <3>1. Sent(r)' \/ InPage(i, r)' <=> Sent(r) \/ InPage(i, r)
      BY <1>2, <1>4
    <3> HIDE DEF item
    <3> QED BY <2>0, <2>3, <3>1 DEF ToCome
  <2>4. CASE reading.pages \notin {"keyset", "server", "ranges", "offset"}
    BY <2>0, <2>4 DEF ToCome
  <2> QED BY <2>1, <2>2, <2>3, <2>4
<1> QED BY <1>0, <1>1, <1>2, <1>4, <1>5, <1>6, <1>7, <1>8

LEMMA TakeMoves ==
  ASSUME Typed, TakesHead, ~ctxDone, UNCHANGED <<time, reading, scans>>, NEW r \in Rows
  PROVE  /\ out[1].row \in Rows
         /\ InOut(r) <=> InOut(r)' \/ r = out[1].row
         /\ taken'[r] = IF r = out[1].row THEN taken[r] + 1 ELSE taken[r]
         /\ Sent(r)' <=> Sent(r)
         /\ SentFresh(r)' <=> SentFresh(r)
         /\ \A i \in DOMAIN scans :
              /\ InPage(i, r)' <=> InPage(i, r)
              /\ PageFresh(i, r)' <=> PageFresh(i, r)
              /\ ToCome(i, r)' <=> ToCome(i, r)
<1>0. /\ out[1].row \in Rows /\ taken \in [Rows -> Nat] /\ DOMAIN out = 1..Len(out) /\ Len(out) \in Nat
      /\ 1 \in DOMAIN out
  BY OutIs DEF Typed, TakesHead
<1>1. InOut(r) <=> InOut(r)' \/ r = out[1].row
  <2>1. InOut(r) => InOut(r)' \/ r = out[1].row
    BY DEF InOut, TakesHead
  <2>2. InOut(r)' => InOut(r)
    BY DEF InOut, TakesHead
  <2>3. r = out[1].row => InOut(r)
    BY <1>0 DEF InOut
  <2> QED BY <2>1, <2>2, <2>3
<1>2. taken'[r] = IF r = out[1].row THEN taken[r] + 1 ELSE taken[r]
  BY <1>0 DEF TakesHead
<1>3. Sent(r)' <=> Sent(r)
  BY <1>0, <1>1, <1>2 DEF Sent
<1>4. SentFresh(r)' <=> SentFresh(r)
  <2>0. fresh' = IF time[out[1].row] = out[1].at THEN fresh \cup {out[1].row} ELSE fresh
    BY DEF TakesHead
  <2>1. SentFresh(r) => SentFresh(r)'
    <3>1. CASE r \in fresh
      BY <2>0, <3>1 DEF SentFresh
    <3>2. CASE \E k \in DOMAIN out : out[k].row = r /\ out[k].at = time[r]
      <4>1. PICK k \in DOMAIN out : out[k].row = r /\ out[k].at = time[r]
        BY <3>2
      <4>2. CASE k = 1
        BY <2>0, <4>1, <4>2 DEF SentFresh
      <4>3. CASE k # 1
        BY <4>1, <4>3 DEF SentFresh, TakesHead
      <4> QED BY <4>2, <4>3
    <3> QED BY <3>1, <3>2 DEF SentFresh
  <2>2. SentFresh(r)' => SentFresh(r)
    <3> SUFFICES ASSUME SentFresh(r)' PROVE SentFresh(r)
      OBVIOUS
    <3>1. CASE r \in fresh'
      BY <1>0, <2>0, <3>1 DEF SentFresh
    <3>2. CASE \E k \in DOMAIN out' : out'[k].row = r /\ out'[k].at = time[r]
      BY <3>2 DEF SentFresh, TakesHead
    <3> QED BY <3>1, <3>2 DEF SentFresh
  <2> QED BY <2>1, <2>2
<1>5. ASSUME NEW i \in DOMAIN scans
      PROVE  /\ InPage(i, r)' <=> InPage(i, r)
             /\ PageFresh(i, r)' <=> PageFresh(i, r)
             /\ ToCome(i, r)' <=> ToCome(i, r)
  <2>1. (InPage(i, r)' <=> InPage(i, r)) /\ (PageFresh(i, r)' <=> PageFresh(i, r))
    BY DEF InPage, PageFresh
  <2>2. ToCome(i, r)' <=> ToCome(i, r)
    BY <1>3, <2>1 DEF ToCome
  <2> QED BY <2>1, <2>2
<1> QED BY <1>0, <1>1, <1>2, <1>3, <1>4, <1>5

(* A page ends, or a statement fails: its rows go nowhere.                  *)
LEMMA EndMoves ==
  ASSUME Typed, Scans, NEW i \in DOMAIN scans, EndsPage(i), UNCHANGED <<time, reading, out, taken, fresh>>,
         NEW r
  PROVE  /\ ~InPage(i, r) /\ ~InPage(i, r)' /\ ~PageFresh(i, r) /\ ~PageFresh(i, r)'
         /\ ToCome(i, r)' <=> ToCome(i, r)
<1>1. scans[i].page = <<>> /\ scans'[i].page = <<>> /\ DOMAIN <<>> = {}
  BY DEF EndsPage
<1>2. ~InPage(i, r) /\ ~InPage(i, r)'
  BY <1>1 DEF InPage
<1>3. ~PageFresh(i, r) /\ ~PageFresh(i, r)'
  BY <1>1 DEF PageFresh, Range
<1>4. (Sent(r)' <=> Sent(r)) /\ scans[i].more \in BOOLEAN
  BY ScanIs DEF Sent, InOut
<1>5. (scans'[i].pc = "query" \/ (scans'[i].pc = "emit" /\ scans'[i].more)) <=> (scans[i].pc = "query" \/ (scans[i].pc = "emit" /\ scans[i].more))
  BY <1>4 DEF EndsPage
<1>6. ToCome(i, r)' <=> ToCome(i, r)
  BY <1>1, <1>2, <1>4, <1>5 DEF ToCome, EndsPage
<1> QED BY <1>2, <1>3, <1>6

LEMMA FailMoves ==
  ASSUME NEW i \in DOMAIN scans, FailsScan(i), NEW r
  PROVE  ~InPage(i, r)' /\ ~PageFresh(i, r)' /\ ~ToCome(i, r)'
<1>1. scans'[i].page = <<>> /\ DOMAIN <<>> = {} /\ scans'[i].pc = "ended"
  BY DEF FailsScan
<1>2. ~InPage(i, r)'
  BY <1>1 DEF InPage
<1>3. ~PageFresh(i, r)'
  BY <1>1 DEF PageFresh, Range
<1>4. ~ToCome(i, r)'
  BY <1>1 DEF ToCome
<1> QED BY <1>2, <1>3, <1>4

(* A page comes.                                                            *)
LEMMA FetchMoves ==
  ASSUME Typed, Scans, NEW i \in DOMAIN scans, NEW page \in Seq(Rows), NEW more \in BOOLEAN,
         scans[i].pc = "query", FetchesScan(i, page, more),
         UNCHANGED <<time, reading, out, taken, fresh>>, NEW r
  PROVE  /\ ~InPage(i, r) /\ ~PageFresh(i, r)
         /\ InPage(i, r)' <=> \E k \in DOMAIN page : page[k] = r
         /\ PageFresh(i, r)' <=> \E k \in DOMAIN page : page[k] = r
         /\ (Sent(r)' <=> Sent(r)) /\ (SentFresh(r)' <=> SentFresh(r)) /\ (InOut(r)' <=> InOut(r))
<1>1. scans[i].page = <<>> /\ DOMAIN <<>> = {}
  BY DEF Scans
<1>2. ~InPage(i, r)
  BY <1>1 DEF InPage
<1>3. ~PageFresh(i, r)
  BY <1>1 DEF PageFresh, Range
<1>0. /\ DOMAIN scans'[i].page = DOMAIN page
      /\ \A k \in DOMAIN page : scans'[i].page[k].row = page[k]
  BY DEF FetchesScan
<1>4. InPage(i, r)' <=> \E k \in DOMAIN page : page[k] = r
  BY <1>0 DEF InPage
<1>5. PageFresh(i, r)' <=> \E k \in DOMAIN page : page[k] = r
  <2>1. PageFresh(i, r)' => \E k \in DOMAIN page : page[k] = r
    <3> SUFFICES ASSUME PageFresh(i, r)' PROVE \E k \in DOMAIN page : page[k] = r
      OBVIOUS
    <3>1. PICK k \in DOMAIN scans'[i].page : scans'[i].page[k] = [row |-> r, at |-> time'[r]]
      BY DEF PageFresh, Range
    <3>2. k \in DOMAIN page /\ scans'[i].page[k].row = page[k] /\ scans'[i].page[k].row = r
      BY <1>0, <3>1
    <3> QED BY <3>2
  <2>2. (\E k \in DOMAIN page : page[k] = r) => PageFresh(i, r)'
    <3> SUFFICES ASSUME NEW k \in DOMAIN page, page[k] = r PROVE PageFresh(i, r)'
      OBVIOUS
    <3>1. k \in DOMAIN scans'[i].page /\ scans'[i].page[k] = [row |-> r, at |-> time[r]]
      BY DEF FetchesScan
    <3> QED BY <3>1 DEF PageFresh, Range
  <2> QED BY <2>1, <2>2
<1>6. (Sent(r)' <=> Sent(r)) /\ (SentFresh(r)' <=> SentFresh(r)) /\ (InOut(r)' <=> InOut(r))
  BY DEF Sent, SentFresh, InOut
<1> QED BY <1>2, <1>3, <1>4, <1>5, <1>6

------------------------------------------------------------------------------
\* The statements of a run

LEMMA FaultIs ==
  ASSUME Typed, NoFault \/ Fault
  PROVE  faults' \in 0..MaxFaults
BY ExtractAssumption DEF Typed, NoFault, Fault

startFrame == <<source, tableVars, ctxDone, out, stopped, highest, watermark, runs,
                start, end, taken, fresh, changed, unread, late, tied, smooth>>
StartsScans ==
  /\ phase = "plan" /\ phase' = "extract" /\ UNCHANGED startFrame
  /\ reading' = reading \/ (reading.pages = "ranges" /\ reading' = PgPages)
  /\ failed' \in {"no", "error", "timeout"} /\ cutShort' \in BOOLEAN /\ faults' \in 0..MaxFaults
  /\ cutShort => cutShort'
  /\ failed' = "timeout" => cutShort'
  /\ scans' \in Seq(ScanType) /\ (scans' = <<>> => failed' # "no")
  /\ scans' # <<>> => /\ reading'.pages \in {"offset", "keyset", "server", "ranges", "one"}
                      /\ IF reading'.pages = "ranges" THEN Len(scans') >= 2 ELSE Len(scans') = 1
  /\ \A i \in DOMAIN scans' :
       /\ scans'[i].pc = "query" /\ scans'[i].more = FALSE /\ scans'[i].page = <<>>
       /\ scans'[i].sent = 0 /\ scans'[i].last = IF reading'.pages = "keyset" THEN watermark ELSE 0
  /\ scans' # <<>> /\ reading'.pages = "ranges" =>
       /\ \A r \in Present : \E i \in DOMAIN scans' : r \in scans'[i].lo..scans'[i].hi
       /\ \A i, j \in DOMAIN scans' : i # j =>
            (scans'[i].lo..scans'[i].hi) \cap (scans'[j].lo..scans'[j].hi) = {}

NewlyPlanned(s, lo, hi, last) ==
  /\ s \in ScanType /\ s.pc = "query" /\ s.more = FALSE /\ s.page = <<>> /\ s.sent = 0
  /\ s.last = last /\ s.lo = lo /\ s.hi = hi

LEMMA NewScanIs ==
  ASSUME NEW lo \in Int, NEW hi \in Int, NEW last \in Nat
  PROVE  NewlyPlanned(NewScan(lo, hi, last), lo, hi, last)
<1>1. <<>> \in Seq(PageItem)
  OBVIOUS
<1> QED BY <1>1 DEF NewScan, ScanType, NewlyPlanned

LEMMA OneScan ==
  ASSUME NEW hi \in Int, NEW last \in Nat, scans' = <<NewScan(0, hi, last)>>
  PROVE  /\ scans' \in Seq(ScanType) /\ scans' # <<>> /\ Len(scans') = 1
         /\ \A i \in DOMAIN scans' :
              /\ scans'[i].pc = "query" /\ scans'[i].more = FALSE /\ scans'[i].page = <<>>
              /\ scans'[i].sent = 0 /\ scans'[i].last = last
<1> DEFINE s == NewScan(0, hi, last)
<1>0. 0 \in Int
  OBVIOUS
<1>1. NewlyPlanned(s, 0, hi, last)
  BY <1>0, NewScanIs
<1> HIDE DEF s
<1>2. scans' = <<s>> /\ s \in ScanType
  BY <1>1 DEF s, NewlyPlanned
<1>3. scans' \in Seq(ScanType) /\ scans' # <<>> /\ Len(scans') = 1 /\ \A i \in DOMAIN scans' : scans'[i] = s
  BY <1>2
<1> QED BY <1>1, <1>3 DEF NewlyPlanned

LEMMA RowsMax == Max(Rows) \in Rows /\ Max(Rows) \in Nat
BY MaxIs, ExtractAssumption

LEMMA PlanIs ==
  ASSUME Typed, Phases, Plan
  PROVE  StartsScans
<1>0. /\ phase = "plan" /\ phase' = "extract" /\ UNCHANGED startFrame /\ reading' = reading
      /\ NoFault \/ Fault
  BY DEF Plan, planFrame, startFrame, tableVars
<1>1. faults' \in 0..MaxFaults
  BY <1>0, FaultIs
<1>2. /\ failed \in {"no", "error", "timeout"} /\ cutShort \in BOOLEAN /\ watermark \in Nat
      /\ reading.pages \in {"refused", "offset", "keyset", "server", "ranges", "one"}
      /\ failed = "no"
  BY <1>0, ReadingNow DEF Typed, Phases
<1>3. CASE reading.pages = "refused" /\ failed' = "error" /\ scans' = <<>> /\ UNCHANGED cutShort
  BY <1>0, <1>1, <1>2, <1>3 DEF StartsScans
<1>4. CASE /\ failed' \in {"error", "timeout"} /\ scans' = <<>>
           /\ cutShort' = (cutShort \/ failed' = "timeout")
  <2>1. cutShort' \in BOOLEAN /\ (cutShort => cutShort') /\ (failed' = "timeout" => cutShort')
    BY <1>2, <1>4
  <2>2. scans' \in Seq(ScanType) /\ DOMAIN scans' = {} /\ failed' # "no"
    BY <1>4
  <2> QED BY <1>0, <1>1, <1>4, <2>1, <2>2 DEF StartsScans
<1>5. CASE reading.pages \notin {"refused", "ranges"} /\ scans' = <<WholeTable>>
           /\ UNCHANGED <<failed, cutShort>> /\ failed = "no"
  <2> DEFINE last == IF reading.pages = "keyset" THEN watermark ELSE 0
  <2>1. last \in Nat /\ Max(Rows) \in Int
    BY <1>2, RowsMax
  <2>2. scans' = <<NewScan(0, Max(Rows), last)>>
    BY <1>5 DEF WholeTable
  <2> HIDE DEF last
  <2>3. /\ scans' \in Seq(ScanType) /\ scans' # <<>> /\ Len(scans') = 1
        /\ \A i \in DOMAIN scans' :
              /\ scans'[i].pc = "query" /\ scans'[i].more = FALSE /\ scans'[i].page = <<>>
              /\ scans'[i].sent = 0 /\ scans'[i].last = last
    BY <2>1, <2>2, OneScan
  <2> QED BY <1>0, <1>1, <1>2, <1>5, <2>3 DEF StartsScans, last
<1>6. CASE /\ reading.pages = "ranges" /\ Cardinality(Present) > 1
           /\ LET parts == Ranges(Min(Present), Max(Present), source.parallel)
              IN scans' = [i \in DOMAIN parts |-> NewScan(parts[i].lo, parts[i].hi, 0)]
           /\ UNCHANGED <<failed, cutShort>> /\ failed = "no"
  <2> DEFINE n == source.parallel
             parts == Ranges(Min(Present), Max(Present), n)
  <2>1. n \in Nat /\ n > 1
    BY <1>6, ReadingNow
  <2>2. Present \in SUBSET Nat /\ Present \subseteq Rows /\ IsFiniteSet(Present) /\ Present # {}
    <3>1. Present \subseteq Rows
      BY DEF Present
    <3>2. Present # {}
      <4>1. Cardinality({}) = 0
        BY FS_EmptySet
      <4>2. Cardinality(Present) > 1
        BY <1>6
      <4>3. ~(0 > 1)
        OBVIOUS
      <4> HIDE DEF n, parts
      <4> QED BY <4>1, <4>2, <4>3
    <3> QED BY <3>1, <3>2, Finite, ExtractAssumption
  <2>3. /\ Min(Present) \in Nat /\ Max(Present) \in Nat /\ Min(Present) <= Max(Present)
        /\ \A r \in Present : r \in Min(Present)..Max(Present)
    <3>1. Max(Present) \in Present /\ \A y \in Present : y <= Max(Present)
      BY <2>2, MaxIs
    <3>2. Min(Present) \in Present /\ \A y \in Present : Min(Present) <= y
      BY <2>2, MinIs
    <3> DEFINE lo == Min(Present)
               hi == Max(Present)
    <3>3. lo \in Present /\ hi \in Present /\ \A y \in Present : lo <= y /\ y <= hi
      BY <3>1, <3>2
    <3> HIDE DEF lo, hi
    <3>4. lo \in Nat /\ hi \in Nat /\ lo <= hi /\ \A r \in Present : r \in lo..hi
      BY <2>2, <3>3
    <3> QED BY <3>4 DEF lo, hi
  <2>4. /\ DOMAIN parts = 1..n
        /\ \A i \in 1..n : parts[i].lo \in Int /\ parts[i].hi \in Int
        /\ \A k \in Min(Present)..Max(Present) : \E i \in 1..n : k \in parts[i].lo..parts[i].hi
        /\ \A i, j \in 1..n : i # j =>
             (parts[i].lo..parts[i].hi) \cap (parts[j].lo..parts[j].hi) = {}
    <3> DEFINE lo == Min(Present)
               hi == Max(Present)
    <3>1. n \in Nat \ {0} /\ lo \in Nat /\ hi \in Nat /\ lo <= hi
      BY <2>1, <2>3
    <3> HIDE DEF lo, hi, n
    <3>2. LET p == Ranges(lo, hi, n)
          IN /\ DOMAIN p = 1..n
             /\ \A i \in 1..n : p[i].lo \in Int /\ p[i].hi \in Int
             /\ \A k \in lo..hi : \E i \in 1..n : k \in p[i].lo..p[i].hi
             /\ \A i, j \in 1..n : i # j =>
                  (p[i].lo..p[i].hi) \cap (p[j].lo..p[j].hi) = {}
      BY <3>1, RangesCut
    <3> QED BY <3>2 DEF lo, hi
  <2>5. scans' = [i \in 1..n |-> NewScan(parts[i].lo, parts[i].hi, 0)]
    BY <1>6, <2>4
  <2> HIDE DEF parts, n
  <2>6. ASSUME NEW i \in 1..n
        PROVE  NewlyPlanned(NewScan(parts[i].lo, parts[i].hi, 0), parts[i].lo, parts[i].hi, 0)
    <3>1. parts[i].lo \in Int /\ parts[i].hi \in Int /\ 0 \in Nat
      BY <2>4
    <3> QED BY <3>1, NewScanIs
  <2>7. scans' \in Seq(ScanType) /\ Len(scans') = n /\ DOMAIN scans' = 1..n
        /\ \A i \in 1..n : scans'[i] = NewScan(parts[i].lo, parts[i].hi, 0)
    <3>1. \A i \in 1..n : NewScan(parts[i].lo, parts[i].hi, 0) \in ScanType
      BY <2>6 DEF NewlyPlanned
    <3> QED BY <2>1, <2>5, <3>1
  <2>8. \A i \in DOMAIN scans' :
           /\ scans'[i].pc = "query" /\ scans'[i].more = FALSE /\ scans'[i].page = <<>>
           /\ scans'[i].sent = 0 /\ scans'[i].last = 0
           /\ scans'[i].lo = parts[i].lo /\ scans'[i].hi = parts[i].hi
    <3> SUFFICES ASSUME NEW i \in 1..n
                 PROVE  NewlyPlanned(scans'[i], parts[i].lo, parts[i].hi, 0)
      BY <2>7 DEF NewlyPlanned
    <3> QED BY <2>6, <2>7
  <2>9. /\ \A r \in Present : \E i \in DOMAIN scans' : r \in scans'[i].lo..scans'[i].hi
        /\ \A i, j \in DOMAIN scans' : i # j =>
            (scans'[i].lo..scans'[i].hi) \cap (scans'[j].lo..scans'[j].hi) = {}
    BY <2>3, <2>4, <2>7, <2>8
  <2>10. Len(scans') >= 2 /\ scans' # <<>>
    BY <2>1, <2>7
  <2> QED BY <1>0, <1>1, <1>2, <1>6, <2>7, <2>8, <2>9, <2>10 DEF StartsScans
<1> QED BY <1>2, <1>3, <1>4, <1>5, <1>6 DEF Plan

LEMMA PlanWithoutRangeIs ==
  ASSUME Typed, Phases, PlanWithoutRange
  PROVE  StartsScans
<1>0. /\ phase = "plan" /\ phase' = "extract" /\ UNCHANGED startFrame /\ reading' = PgPages
      /\ reading.pages = "ranges" /\ (NoFault \/ Fault) /\ UNCHANGED <<failed, cutShort>>
      /\ scans' = <<NewScan(0, Max(Rows), 0)>>
  BY DEF PlanWithoutRange, startFrame, tableVars
<1>1. faults' \in 0..MaxFaults
  BY <1>0, FaultIs
<1>2. failed = "no" /\ cutShort \in BOOLEAN /\ PgPages.pages = "offset"
  BY <1>0, PagesIs DEF Typed, Phases
<1>3. Max(Rows) \in Int /\ 0 \in Nat
  BY RowsMax
<1>4. /\ scans' \in Seq(ScanType) /\ scans' # <<>> /\ Len(scans') = 1
      /\ \A i \in DOMAIN scans' :
              /\ scans'[i].pc = "query" /\ scans'[i].more = FALSE /\ scans'[i].page = <<>>
              /\ scans'[i].sent = 0 /\ scans'[i].last = 0
  BY <1>0, <1>3, OneScan
<1> QED BY <1>0, <1>1, <1>2, <1>4 DEF StartsScans

(* Which key the watermark is does not change.                              *)
LEMMA SamePages ==
  ASSUME Typed, reading' \in {ReadingOf(source), PgPages, reading}, UNCHANGED source,
         reading' = PgPages => ReadingOf(source) = PgRanges
  PROVE  AppendOnly' <=> AppendOnly
BY PagesIs DEF Typed, AppendOnly

------------------------------------------------------------------------------
\* Types, phases and scans

LEMMA BeginBase ==
  ASSUME Typed, Phases, Scans, Begin
  PROVE  Typed' /\ Phases' /\ Scans'
<1>1. Typed'
  <2>1. /\ out' = <<>> /\ <<>> \in Seq(OutItem) /\ UNCHANGED <<source, tableVars, scans, watermark, faults, unread, late, tied, smooth, cutShort>>
        /\ taken' = [q \in Rows |-> 0] /\ fresh' = {} /\ changed' = {} /\ ctxDone' = FALSE /\ stopped' = FALSE
        /\ failed' = "no" /\ highest' = 0 /\ start' = watermark /\ phase' = "plan" /\ reading' = ReadingOf(source)
    BY DEF Begin
  <2>2. runs' \in 0..MaxRuns
    BY ExtractAssumption DEF Begin, Typed
  <2>3. end' \in Nat
    BY ExtractAssumption DEF Begin, Typed
  <2>4. taken' \in [Rows -> Nat]
    BY <2>1
  <2>5. source' = source /\ time' = time /\ clock' = clock /\ scans' = scans /\ watermark' = watermark
        /\ faults' = faults /\ unread' = unread /\ late' = late /\ tied' = tied /\ smooth' = smooth /\ cutShort' = cutShort
    BY <2>1 DEF tableVars
  <2>6. /\ source' \in Sources
        /\ reading' = ReadingOf(source') \/ (reading' = PgPages /\ ReadingOf(source') = PgRanges)
        /\ clock' \in 2..MaxTime /\ time' \in [Rows -> 0..clock']
    BY <2>1, <2>5 DEF Typed
  <2>7. {highest', watermark', start', end'} \subseteq Nat
    BY <2>1, <2>3, <2>5 DEF Typed
  <2>8. {fresh', changed', unread', late', tied'} \subseteq SUBSET Rows /\ {ctxDone', stopped', smooth', cutShort'} \subseteq BOOLEAN
        /\ scans' \in Seq(ScanType) /\ out' \in Seq(OutItem) /\ faults' \in 0..MaxFaults
    BY <2>1, <2>5 DEF Typed
  <2> QED BY <2>1, <2>2, <2>4, <2>6, <2>7, <2>8 DEF Typed
<1>2. scans' = <<>> /\ DOMAIN <<>> = {}
  BY DEF Begin, Phases
<1>3. Phases'
  BY <1>2 DEF Begin, Phases, Typed, tableVars
<1>4. Scans'
  BY <1>2 DEF Scans
<1> QED BY <1>1, <1>3, <1>4

LEMMA StartBase ==
  ASSUME Typed, Phases, Scans, StartsScans
  PROVE  Typed' /\ Phases' /\ Scans' /\ (AppendOnly' <=> AppendOnly)
<1>1. Typed'
  <2>1. reading' = ReadingOf(source) \/ (reading' = PgPages /\ ReadingOf(source) = PgRanges)
    <3>1. CASE reading' = reading
      BY <3>1 DEF Typed
    <3>2. CASE reading.pages = "ranges" /\ reading' = PgPages
      <4>1. reading = ReadingOf(source) /\ source \in SourceType
        BY <3>2, PagesIs, ReadingNow DEF Typed
      <4>2. ReadingOf(source) = PgRanges
        BY <3>2, <4>1, ReadingOfIs
      <4> QED BY <3>2, <4>2
    <3> QED BY <3>1, <3>2 DEF StartsScans
  <2> QED BY <2>1 DEF Typed, StartsScans, startFrame, tableVars
<1>2. AppendOnly' <=> AppendOnly
  BY PagesIs DEF StartsScans, AppendOnly
<1>3. Phases'
  <2>1. /\ UNCHANGED <<end, source, clock, changed, start, watermark, stopped, ctxDone, out, taken, fresh, highest>>
        /\ phase = "plan" /\ phase' = "extract"
        /\ (scans' = <<>> => failed' # "no") /\ (failed' = "timeout" => cutShort')
    BY DEF StartsScans, startFrame, tableVars
  <2>2. scans = <<>> /\ DOMAIN <<>> = {}
    BY <2>1 DEF Phases
  <2>3. out = <<>> /\ taken = [r \in Rows |-> 0] /\ fresh = {} /\ highest = 0
    BY <2>1, <2>2 DEF Phases
  <2> QED BY <2>1, <2>3 DEF Phases
<1>4. Scans'
  <2> SUFFICES ASSUME NEW i \in DOMAIN scans'
               PROVE  /\ reading'.pages \in {"offset", "keyset", "server", "ranges", "one"}
                      /\ IF reading'.pages = "ranges" THEN Len(scans') >= 2 ELSE Len(scans') = 1
                      /\ scans'[i].pc = "query" /\ scans'[i].more = FALSE /\ scans'[i].page = <<>>
                      /\ scans'[i].sent = 0
                      /\ scans'[i].last = IF AppendOnly' THEN start' ELSE 0
                      /\ AppendOnly' => start' <= scans'[i].last
                      /\ reading'.pages = "ranges" =>
                           \A j \in DOMAIN scans' : i # j =>
                             (scans'[i].lo..scans'[i].hi) \cap (scans'[j].lo..scans'[j].hi) = {}
    <3>1. DOMAIN <<>> = {}
      OBVIOUS
    <3> QED BY <3>1 DEF Scans
  <2>1. scans' # <<>>
    OBVIOUS
  <2>2. start' = watermark /\ watermark \in Nat
    BY DEF StartsScans, startFrame, Phases, Typed
  <2> QED BY <2>1, <2>2 DEF StartsScans, AppendOnly
<1> QED BY <1>1, <1>2, <1>3, <1>4

LEMMA TakeBase ==
  ASSUME Typed, Phases, Scans, Take
  PROVE  Typed' /\ Phases' /\ Scans'
<1>1. TakesHead /\ phase = "extract" /\ ~stopped /\ UNCHANGED takeFrame
  BY TakeIs
<1>2. out[1].row \in Rows /\ out[1].wm \in Nat
  BY <1>1, OutIs DEF TakesHead
<1>3. /\ taken' \in [Rows -> Nat] /\ highest' \in Nat /\ fresh' \in SUBSET Rows /\ stopped' \in BOOLEAN
      /\ (stopped' => ctxDone)
  <2>1. CASE ctxDone
    BY <1>1, <2>1 DEF TakesHead, Typed
  <2>2. CASE ~ctxDone
    <3>1. taken' = [taken EXCEPT ![out[1].row] = @ + 1] /\ taken \in [Rows -> Nat]
      BY <2>2, <1>1 DEF TakesHead, Typed
    <3>2. taken' \in [Rows -> Nat]
      BY <1>2, <3>1
    <3> QED BY <1>1, <1>2, <2>2, <3>2 DEF TakesHead, Typed
  <2> QED BY <2>1, <2>2
<1>4. out' \in Seq(OutItem)
  BY <1>1 DEF TakesHead
<1>5. Typed'
  BY <1>1, <1>3, <1>4 DEF Typed, takeFrame, tableVars
<1>6. Phases'
  <2>1. out # <<>>
    BY <1>1 DEF TakesHead
  <2>2. ~\A i \in DOMAIN scans : scans[i].sent = 0
    BY <1>1, <2>1 DEF Phases
  <2> QED BY <1>1, <1>3, <2>2 DEF Phases, takeFrame, tableVars
<1>7. Scans'
  BY <1>1 DEF Scans, takeFrame, AppendOnly
<1> QED BY <1>5, <1>6, <1>7

LEMMA ReturnBase ==
  ASSUME Typed, Phases, Scans, Return
  PROVE  Typed' /\ Phases' /\ Scans'
<1>1. scans' = <<>> /\ out' = <<>> /\ DOMAIN <<>> = {} /\ <<>> \in Seq(ScanType) /\ <<>> \in Seq(OutItem)
  BY DEF Return
<1>2. Typed'
  BY <1>1 DEF Return, Typed, tableVars, bookVars
<1>3. Phases'
  BY <1>1 DEF Return, Phases, tableVars, bookVars
<1> QED BY <1>1, <1>2, <1>3 DEF Scans

LEMMA FinishBase ==
  ASSUME Typed, Phases, Scans, Finish
  PROVE  Typed' /\ Phases' /\ Scans' /\ scans = <<>> /\ out = <<>>
<1>1. scans = <<>> /\ out = <<>> /\ UNCHANGED <<scans, out>> /\ DOMAIN <<>> = {}
  BY DEF Finish, Phases
<1>2. /\ watermark' \in Nat /\ unread' \in SUBSET Rows /\ tied' \in SUBSET Rows
  BY DEF Finish, Typed, WrittenAt, Present
<1>3. Typed'
  BY <1>2 DEF Finish, Typed, tableVars
<1>4. Phases'
  BY <1>1 DEF Finish, Phases
<1> QED BY <1>1, <1>3, <1>4 DEF Scans

LEMMA EndContextBase ==
  ASSUME Typed, Phases, Scans, EndContext
  PROVE  Typed' /\ Phases' /\ Scans'
<1>1. Typed'
  BY DEF EndContext, Typed, tableVars, bookVars
<1>2. Phases'
  BY DEF EndContext, Phases, tableVars, bookVars
<1>3. Scans'
  BY DEF EndContext, Scans, AppendOnly
<1> QED BY <1>1, <1>2, <1>3

(* A write.                                                                 *)
LEMMA WriteIs ==
  ASSUME Typed, NEW r \in Rows, Write(r)
  PROVE  /\ clock' = clock + 1 /\ clock' \in 2..MaxTime
         /\ time' \in [Rows -> 0..clock'] /\ time'[r] \in 0..(clock + 1)
         /\ \A q \in Rows : q # r => time'[q] = time[q]
         /\ AppendOnly => time[r] = 0 /\ time'[r] = clock + 1
         /\ changed' = changed \cup {r} /\ fresh' = fresh \ {r} /\ tied' = tied \ {r}
         /\ unread' = (IF time'[r] > 0 THEN unread \cup {r} ELSE unread \ {r})
         /\ late' = IF time'[r] > 0 /\ Late(r) THEN late \cup {r} ELSE late \ {r}
         /\ UNCHANGED <<source, reading, runVars, watermark, runs, faults, taken, smooth, cutShort>>
<1>1. clock \in 2..MaxTime /\ time \in [Rows -> 0..clock] /\ MaxTime \in Nat
  BY ExtractAssumption DEF Typed
<1>2. PICK t \in 0..clock' : /\ AppendOnly => time[r] = 0 /\ t = clock'
                             /\ time' = [time EXCEPT ![r] = t]
  BY DEF Write
<1>3. clock < MaxTime /\ clock' = clock + 1
  BY DEF Write
<1>4. clock' \in 2..MaxTime /\ 0..clock \subseteq 0..clock'
  BY <1>1, <1>3
<1>5. time' \in [Rows -> 0..clock'] /\ time'[r] = t /\ \A q \in Rows : q # r => time'[q] = time[q]
  <2>1. clock' \in Nat /\ time \in [Rows -> 0..clock'] /\ t \in 0..clock'
    BY <1>1, <1>4
  <2> QED BY <1>2, <2>1
<1> QED BY <1>2, <1>3, <1>4, <1>5 DEF Write

LEMMA WriteBase ==
  ASSUME Typed, Phases, Scans, NEW r \in Rows, Write(r)
  PROVE  Typed' /\ Phases' /\ Scans'
<1>1. Typed'
  <2>0. /\ changed' = changed \cup {r} /\ fresh' = fresh \ {r} /\ tied' = tied \ {r}
        /\ unread' = (IF time'[r] > 0 THEN unread \cup {r} ELSE unread \ {r})
        /\ late' \in {late \cup {r}, late \ {r}}
        /\ clock' \in 2..MaxTime /\ time' \in [Rows -> 0..clock']
        /\ UNCHANGED <<source, reading, runVars, watermark, runs, faults, taken, smooth, cutShort>>
    BY WriteIs
  <2>1. changed' \in SUBSET Rows /\ fresh' \in SUBSET Rows /\ unread' \in SUBSET Rows /\ tied' \in SUBSET Rows
        /\ late' \in SUBSET Rows
    <3>1. {fresh, changed, unread, late, tied} \subseteq SUBSET Rows
      BY DEF Typed
    <3> QED BY <2>0, <3>1
  <2> QED BY <2>0, <2>1 DEF Typed, runVars
<1>2. Phases'
  <2>1. changed' # {} /\ (fresh = {} => fresh' = {}) /\ UNCHANGED <<runVars, source, watermark, taken, cutShort>>
    BY WriteIs
  <2> QED BY <2>1 DEF Phases, runVars
<1>3. Scans'
  <2>1. UNCHANGED <<runVars, reading>>
    BY WriteIs
  <2> QED BY <2>1 DEF Scans, runVars, AppendOnly
<1> QED BY <1>1, <1>2, <1>3

(* The four steps of a scan.                                                *)
ScanFrame == /\ phase = "extract" /\ UNCHANGED <<scanFrame, stopped, taken, fresh>>
             /\ faults' \in 0..MaxFaults
FailStep(i) ==
  ScanFrame /\ FailsScan(i) /\ UNCHANGED <<out, smooth>>
EndStep(i) ==
  ScanFrame /\ EndsPage(i) /\ UNCHANGED <<out, smooth, failed, cutShort>>
SendStep(i) ==
  /\ ScanFrame /\ SendsRow(i) /\ AppendsOut(i) /\ scans[i].pc = "emit"
  /\ smooth' \in BOOLEAN /\ (smooth' => smooth)
  /\ smooth' /\ reading.bare = "now" /\ ShownAt(scans[i].page[1].row, scans[i].page[1].at) = 0
       => changed = {}
  /\ UNCHANGED <<failed, cutShort>>
FetchStep(i, page, more) ==
  /\ ScanFrame /\ scans[i].pc = "query" /\ FetchesScan(i, page, more) /\ PageOf(i, page, more)
  /\ reading.pages = "offset" => OrderPage(i, page, more)
  /\ reading.pages \in {"keyset", "server"} => CursorPage(i, page, more)
  /\ reading.pages \in {"ranges", "one"} => WholePage(i, page, more)
  /\ smooth' = (/\ smooth
                /\ Later(i) /\ ~AppendOnly => changed = {}
                /\ Later(i) /\ reading.pages = "offset" => ~Tied(Selected))
  /\ UNCHANGED <<out, failed, cutShort>>

LEMMA ScanSteps ==
  ASSUME Typed, Scans, NEW i \in DOMAIN scans, Query(i) \/ Emit(i) \/ Interrupt(i) \/ EndPage(i)
  PROVE  \/ FailStep(i) \/ EndStep(i) \/ SendStep(i)
         \/ \E page \in Seq(Rows), more \in BOOLEAN : FetchStep(i, page, more)
<1>1. CASE Query(i)
  <2>1. /\ phase = "extract" /\ scans[i].pc = "query"
        /\ UNCHANGED <<scanFrame, out, stopped, taken, fresh>> /\ (Reads(i) \/ Breaks(i))
    BY <1>1, QueryIs
  <2>2. CASE Reads(i)
    <3>1. PICK page \in Seq(Rows), more \in BOOLEAN :
           /\ Fetch(i, page, more) /\ PageOf(i, page, more)
           /\ reading.pages = "offset" => OrderPage(i, page, more)
           /\ reading.pages \in {"keyset", "server"} => CursorPage(i, page, more)
           /\ reading.pages \in {"ranges", "one"} => WholePage(i, page, more)
      BY <2>2, ReadsPage
    <3>2. /\ NoFault /\ UNCHANGED <<failed, cutShort>>
          /\ smooth' = (/\ smooth
                        /\ Later(i) /\ ~AppendOnly => changed = {}
                        /\ Later(i) /\ reading.pages = "offset" => ~Tied(Selected))
      BY <2>2 DEF Reads
    <3>3. FetchesScan(i, page, more)
      <4>1. \A k \in DOMAIN page : page[k] \in Present
        BY <3>1 DEF PageOf
      <4> QED BY <3>1, <4>1, FetchIs
    <3>4. ScanFrame
      BY <2>1, <3>2, FaultIs DEF ScanFrame
    <3>5. FetchStep(i, page, more)
      BY <2>1, <3>1, <3>2, <3>3, <3>4 DEF FetchStep
    <3> QED BY <3>5
  <2>3. CASE Breaks(i)
    <3>1. \E how \in {"error", "timeout"} : Fail(i, how)
      BY <2>3 DEF Breaks
    <3>2. FailsScan(i)
      BY <3>1, FailIs
    <3>3. (NoFault \/ Fault) /\ UNCHANGED smooth
      BY <2>3 DEF Breaks
    <3>4. ScanFrame
      BY <2>1, <3>3, FaultIs DEF ScanFrame
    <3> QED BY <2>1, <3>2, <3>3, <3>4 DEF FailStep
  <2> QED BY <2>1, <2>2, <2>3
<1>2. CASE Emit(i)
  <2>1. /\ phase = "extract" /\ scans[i].pc = "emit" /\ scans[i].page # <<>>
        /\ UNCHANGED <<scanFrame, stopped, taken, fresh, faults>>
        /\ (Fail(i, "error") /\ UNCHANGED <<out, smooth>>) \/ Sends(i)
    BY <1>2, EmitIs
  <2>2. ScanFrame
    BY <2>1 DEF ScanFrame, Typed
  <2>3. CASE Fail(i, "error") /\ UNCHANGED <<out, smooth>>
    <3>1. FailsScan(i)
      BY <2>3, FailIs
    <3> QED BY <2>2, <2>3, <3>1 DEF FailStep
  <2>4. CASE Sends(i)
    <3>1. /\ SendsRow(i) /\ AppendsOut(i) /\ (smooth' => smooth) /\ smooth' \in BOOLEAN
          /\ smooth' /\ reading.bare = "now" /\ ShownAt(scans[i].page[1].row, scans[i].page[1].at) = 0
               => changed = {}
          /\ UNCHANGED <<failed, cutShort>>
      BY <2>1, <2>4, SendsIs
    <3> QED BY <2>1, <2>2, <3>1 DEF SendStep
  <2> QED BY <2>1, <2>3, <2>4
<1>3. CASE EndPage(i)
  <2>1. EndsPage(i)
    BY <1>3, EndIs
  <2>2. /\ phase = "extract"
        /\ UNCHANGED <<scanFrame, faults, out, stopped, failed, taken, fresh, smooth, cutShort>>
    BY <1>3 DEF EndPage
  <2>3. ScanFrame
    BY <2>2 DEF ScanFrame, Typed
  <2> QED BY <2>1, <2>2, <2>3 DEF EndStep
<1>4. CASE Interrupt(i)
  <2>1. /\ phase = "extract" /\ UNCHANGED <<scanFrame, out, stopped, taken, fresh, smooth>>
        /\ (NoFault \/ Fault) /\ \E how \in {"error", "timeout"} : Fail(i, how)
    BY <1>4 DEF Interrupt
  <2>2. FailsScan(i)
    BY <2>1, FailIs
  <2>3. ScanFrame
    BY <2>1, FaultIs DEF ScanFrame
  <2> QED BY <2>1, <2>2, <2>3 DEF FailStep
<1> QED BY <1>1, <1>2, <1>3, <1>4

LEMMA ScanTyped ==
  ASSUME Typed, ScanFrame, scans' \in Seq(ScanType), out' \in Seq(OutItem),
         smooth' \in BOOLEAN, cutShort' \in BOOLEAN, failed' \in {"no", "error", "timeout"}
  PROVE  Typed'
BY DEF Typed, ScanFrame, scanFrame, tableVars

LEMMA FailBase ==
  ASSUME Typed, Phases, Scans, NEW i \in DOMAIN scans, FailStep(i)
  PROVE  Typed' /\ Phases' /\ Scans'
<1>1. Typed'
  <2>1. /\ scans' \in Seq(ScanType) /\ cutShort' \in BOOLEAN /\ failed' \in {"no", "error", "timeout"}
        /\ UNCHANGED <<out, smooth>> /\ ScanFrame
    BY DEF FailStep, FailsScan
  <2>2. out' \in Seq(OutItem) /\ smooth' \in BOOLEAN
    BY <2>1 DEF Typed
  <2> QED BY <2>1, <2>2, ScanTyped
<1>2. DOMAIN scans' = DOMAIN scans /\ Len(scans') = Len(scans) /\ \A j \in DOMAIN scans : scans'[j].sent = scans[j].sent
  BY DEF FailStep, FailsScan, OnlyScan
<1>3. Phases'
  <2>1. scans # <<>> /\ scans' # <<>>
    BY <1>1, <1>2, ScanIs
  <2>2. /\ UNCHANGED <<start, watermark, stopped, ctxDone, end, source, clock, changed, phase, out, taken, fresh, highest>>
        /\ phase = "extract"
    BY DEF FailStep, ScanFrame, scanFrame, tableVars
  <2>3. failed' = "timeout" => cutShort'
    BY DEF FailStep, FailsScan, Phases
  <2> QED BY <1>2, <2>1, <2>2, <2>3 DEF Phases
<1>4. Scans'
  <2>1. UNCHANGED <<reading, start>> /\ (AppendOnly' <=> AppendOnly)
    BY DEF FailStep, ScanFrame, scanFrame, AppendOnly
  <2>2. /\ \A j \in DOMAIN scans : j # i => scans'[j] = scans[j]
        /\ scans'[i].pc = "ended" /\ scans'[i].page = <<>> /\ scans'[i].lo = scans[i].lo
        /\ scans'[i].hi = scans[i].hi /\ scans'[i].last = scans[i].last /\ scans'[i].sent = scans[i].sent
        /\ DOMAIN <<>> = {}
    BY DEF FailStep, FailsScan, OnlyScan
  <2> QED BY <1>2, <2>1, <2>2 DEF Scans
<1> QED BY <1>1, <1>3, <1>4

LEMMA EndBase ==
  ASSUME Typed, Phases, Scans, NEW i \in DOMAIN scans, EndStep(i)
  PROVE  Typed' /\ Phases' /\ Scans'
<1>1. Typed'
  <2>1. scans' \in Seq(ScanType) /\ UNCHANGED <<out, smooth, failed, cutShort>> /\ ScanFrame
    BY DEF EndStep, EndsPage
  <2>2. out' \in Seq(OutItem) /\ smooth' \in BOOLEAN /\ cutShort' \in BOOLEAN /\ failed' \in {"no", "error", "timeout"}
    BY <2>1 DEF Typed
  <2> QED BY <2>1, <2>2, ScanTyped
<1>2. DOMAIN scans' = DOMAIN scans /\ Len(scans') = Len(scans) /\ \A j \in DOMAIN scans : scans'[j].sent = scans[j].sent
  BY DEF EndStep, EndsPage, OnlyScan
<1>3. Phases'
  <2>1. scans # <<>> /\ scans' # <<>>
    BY <1>1, <1>2, ScanIs
  <2>2. /\ UNCHANGED <<start, watermark, stopped, ctxDone, end, source, clock, changed, phase, out, taken, fresh, highest>>
        /\ phase = "extract" /\ UNCHANGED <<failed, cutShort>>
    BY DEF EndStep, ScanFrame, scanFrame, tableVars
  <2> QED BY <1>2, <2>1, <2>2 DEF Phases
<1>4. Scans'
  <2>1. UNCHANGED <<reading, start>> /\ (AppendOnly' <=> AppendOnly)
    BY DEF EndStep, ScanFrame, scanFrame, AppendOnly
  <2>2. /\ \A j \in DOMAIN scans : j # i => scans'[j] = scans[j]
        /\ scans[i].pc = "emit" /\ scans'[i].pc = (IF scans[i].more THEN "query" ELSE "ended")
        /\ scans'[i].page = <<>> /\ scans'[i].lo = scans[i].lo
        /\ scans'[i].hi = scans[i].hi /\ scans'[i].last = scans[i].last /\ scans'[i].sent = scans[i].sent
        /\ DOMAIN <<>> = {}
    BY DEF EndStep, EndsPage, OnlyScan
  <2> QED BY <1>2, <2>1, <2>2 DEF Scans
<1> QED BY <1>1, <1>3, <1>4

LEMMA SendBase ==
  ASSUME Typed, Phases, Scans, NEW i \in DOMAIN scans, SendStep(i)
  PROVE  Typed' /\ Phases' /\ Scans'
<1>0. ScanFrame /\ SendsRow(i) /\ AppendsOut(i) /\ scans[i].pc = "emit" /\ UNCHANGED <<failed, cutShort>>
      /\ smooth' \in BOOLEAN
  BY DEF SendStep
<1>1. Typed'
  <2>1. scans' \in Seq(ScanType) /\ out' \in Seq(OutItem)
    BY <1>0 DEF SendsRow, AppendsOut
  <2>2. cutShort' \in BOOLEAN /\ failed' \in {"no", "error", "timeout"}
    BY <1>0 DEF Typed
  <2> QED BY <1>0, <2>1, <2>2, ScanTyped
<1>2. DOMAIN scans' = DOMAIN scans /\ Len(scans') = Len(scans) /\ scans'[i].sent = scans[i].sent + 1
  BY <1>0 DEF SendsRow, OnlyScan
<1>3. Phases'
  <2>1. scans # <<>> /\ scans' # <<>>
    BY <1>1, <1>2, ScanIs
  <2>2. scans'[i].sent # 0
    BY <1>2, ScanIs
  <2>3. /\ UNCHANGED <<start, watermark, stopped, ctxDone, end, source, clock, changed, phase>>
        /\ phase = "extract"
    BY <1>0 DEF ScanFrame, scanFrame, tableVars
  <2> QED BY <1>0, <1>2, <2>1, <2>2, <2>3 DEF Phases
<1>4. Scans'
  <2>1. UNCHANGED <<reading, start>> /\ (AppendOnly' <=> AppendOnly)
    BY <1>0 DEF ScanFrame, scanFrame, AppendOnly
  <2>2. /\ \A j \in DOMAIN scans : j # i => scans'[j] = scans[j]
        /\ scans[i].pc = "emit" /\ scans'[i].pc = "emit" /\ scans'[i].more = scans[i].more
        /\ scans'[i].lo = scans[i].lo /\ scans'[i].hi = scans[i].hi
        /\ scans'[i].last = scans[i].page[1].row
        /\ 1 \in DOMAIN scans[i].page /\ DOMAIN scans[i].page = 1..Len(scans[i].page)
        /\ DOMAIN scans'[i].page = 1..(Len(scans[i].page) - 1) /\ Len(scans[i].page) \in Nat
        /\ \A k \in DOMAIN scans'[i].page : k + 1 \in DOMAIN scans[i].page
                                            /\ scans'[i].page[k] = scans[i].page[k + 1]
    BY <1>0, ScanIs DEF SendsRow, OnlyScan
  <2>3. /\ \A k \in DOMAIN scans[i].page : scans[i].page[k].row \in Nat
        /\ scans[i].last \in Nat
    <3>1. \A k \in DOMAIN scans[i].page : scans[i].page[k].row \in Rows
      BY ScanIs
    <3> QED BY <3>1, ScanIs, ExtractAssumption
  <2>4. start \in Nat
    BY DEF Typed
  <2>5. ASSUME AppendOnly PROVE start <= scans'[i].last
    <3>1. start <= scans[i].last /\ scans[i].page[1].row > scans[i].last
      BY <2>2, <2>5 DEF Scans, AppendOnly
    <3> QED BY <2>2, <2>3, <2>4, <3>1
  <2>6. ASSUME reading.pages \in {"keyset", "server"}
        PROVE  \A k \in DOMAIN scans'[i].page :
                 /\ scans'[i].page[k].row > scans'[i].last
                 /\ \A m \in 1..(k - 1) : scans'[i].page[m].row < scans'[i].page[k].row
    <3>1. \A k \in DOMAIN scans[i].page :
           /\ scans[i].page[k].row > scans[i].last
           /\ \A m \in 1..(k - 1) : scans[i].page[m].row < scans[i].page[k].row
      BY <2>6 DEF Scans
    <3> SUFFICES ASSUME NEW k \in DOMAIN scans'[i].page
                 PROVE  /\ scans'[i].page[k].row > scans'[i].last
                        /\ \A m \in 1..(k - 1) : scans'[i].page[m].row < scans'[i].page[k].row
      OBVIOUS
    <3>2. k + 1 \in DOMAIN scans[i].page /\ k \in Nat /\ k > 0
      BY <2>2
    <3>3. scans[i].page[1].row < scans[i].page[k + 1].row
      <4>1. 1 \in 1..((k + 1) - 1)
        BY <3>2
      <4> QED BY <3>1, <3>2, <4>1
    <3>4. ASSUME NEW m \in 1..(k - 1) PROVE scans'[i].page[m].row < scans'[i].page[k].row
      <4>1. m + 1 \in 1..((k + 1) - 1) /\ m \in DOMAIN scans'[i].page
        BY <2>2, <3>2
      <4>2. scans[i].page[m + 1].row < scans[i].page[k + 1].row
        BY <3>1, <3>2, <4>1
      <4> QED BY <2>2, <4>1, <4>2
    <3>5. scans'[i].page[k].row > scans'[i].last
      BY <2>2, <2>3, <3>2, <3>3
    <3> QED BY <3>4, <3>5
  <2>7. ASSUME reading.pages = "ranges"
        PROVE  \A k \in DOMAIN scans'[i].page : scans'[i].page[k].row \in scans[i].lo..scans[i].hi
    <3>1. \A k \in DOMAIN scans[i].page : scans[i].page[k].row \in scans[i].lo..scans[i].hi
      BY <2>7 DEF Scans
    <3> QED BY <2>2, <3>1
  <2>8. scans'[i].sent # 0
    BY <1>2, ScanIs
  <2> SUFFICES ASSUME NEW j \in DOMAIN scans
               PROVE  /\ reading.pages \in {"offset", "keyset", "server", "ranges", "one"}
                      /\ IF reading.pages = "ranges" THEN Len(scans') >= 2 ELSE Len(scans') = 1
                      /\ scans'[j].pc # "emit" => scans'[j].page = <<>>
                      /\ scans'[j].sent = 0 => scans'[j].last = IF AppendOnly THEN start ELSE 0
                      /\ AppendOnly => start <= scans'[j].last
                      /\ reading.pages \in {"ranges", "one"} =>
                           /\ scans'[j].pc = "emit" => ~scans'[j].more
                           /\ scans'[j].pc = "query" => scans'[j].sent = 0
                      /\ reading.pages \in {"keyset", "server"} =>
                           \A k \in DOMAIN scans'[j].page :
                             /\ scans'[j].page[k].row > scans'[j].last
                             /\ \A m \in 1..(k - 1) : scans'[j].page[m].row < scans'[j].page[k].row
                      /\ reading.pages = "ranges" =>
                           /\ \A k \in DOMAIN scans'[j].page : scans'[j].page[k].row \in scans'[j].lo..scans'[j].hi
                           /\ \A l \in DOMAIN scans : j # l =>
                                (scans'[j].lo..scans'[j].hi) \cap (scans'[l].lo..scans'[l].hi) = {}
    BY <1>2, <2>1 DEF Scans
  <2>9. CASE j = i
    BY <1>2, <2>2, <2>5, <2>6, <2>7, <2>8, <2>9 DEF Scans
  <2>10. CASE j # i
    BY <1>2, <2>2, <2>10 DEF Scans
  <2> QED BY <2>9, <2>10
<1> QED BY <1>1, <1>3, <1>4

LEMMA FetchBase ==
  ASSUME Typed, Phases, Scans, NEW i \in DOMAIN scans, NEW page \in Seq(Rows), NEW more \in BOOLEAN,
         FetchStep(i, page, more)
  PROVE  Typed' /\ Phases' /\ Scans'
<1>0. /\ ScanFrame /\ FetchesScan(i, page, more) /\ PageOf(i, page, more) /\ UNCHANGED <<out, failed, cutShort>>
      /\ scans[i].pc = "query"
  BY DEF FetchStep
<1>1. Typed'
  <2>1. scans' \in Seq(ScanType)
    BY <1>0 DEF FetchesScan
  <2>2. smooth' \in BOOLEAN
    BY DEF FetchStep, Typed
  <2>3. out' \in Seq(OutItem) /\ cutShort' \in BOOLEAN /\ failed' \in {"no", "error", "timeout"}
    BY <1>0 DEF Typed
  <2> QED BY <1>0, <2>1, <2>2, <2>3, ScanTyped
<1>2. /\ DOMAIN scans' = DOMAIN scans /\ Len(scans') = Len(scans)
      /\ \A j \in DOMAIN scans : /\ scans'[j].sent = scans[j].sent /\ scans'[j].last = scans[j].last
                                 /\ scans'[j].lo = scans[j].lo /\ scans'[j].hi = scans[j].hi
      /\ \A j \in DOMAIN scans : j # i => scans'[j] = scans[j]
      /\ scans'[i].pc = "emit" /\ scans'[i].more = more
      /\ DOMAIN scans'[i].page = DOMAIN page
      /\ \A k \in DOMAIN page : scans'[i].page[k].row = page[k]
  BY <1>0 DEF FetchesScan, OnlyScan
<1>3. Phases'
  <2>1. scans # <<>> /\ scans' # <<>>
    BY <1>1, <1>2, ScanIs
  <2>2. /\ UNCHANGED <<start, watermark, stopped, ctxDone, end, source, clock, changed, phase, out, taken, fresh, highest>>
        /\ phase = "extract" /\ UNCHANGED <<failed, cutShort>>
    BY <1>0 DEF ScanFrame, scanFrame, tableVars
  <2> QED BY <1>2, <2>1, <2>2 DEF Phases
<1>4. Scans'
  <2>1. UNCHANGED <<reading, start>> /\ (AppendOnly' <=> AppendOnly)
    BY <1>0 DEF ScanFrame, scanFrame, AppendOnly
  <2>2. ASSUME reading.pages \in {"keyset", "server"}
        PROVE  \A k \in DOMAIN scans'[i].page :
                 /\ scans'[i].page[k].row > scans'[i].last
                 /\ \A m \in 1..(k - 1) : scans'[i].page[m].row < scans'[i].page[k].row
    <3>1. \A k \in DOMAIN page : page[k] > scans[i].last /\ \A m \in 1..(k - 1) : page[m] < page[k]
      BY <2>2 DEF FetchStep, CursorPage
    <3>2. DOMAIN page = 1..Len(page) /\ Len(page) \in Nat
      OBVIOUS
    <3>3. \A k \in DOMAIN page : \A m \in 1..(k - 1) : m \in DOMAIN page
      BY <3>2
    <3> QED BY <1>2, <3>1, <3>3
  <2>3. ASSUME reading.pages \in {"ranges", "one"}
        PROVE  ~more /\ (reading.pages = "ranges" => \A k \in DOMAIN page : page[k] \in scans[i].lo..scans[i].hi)
    BY <2>3 DEF FetchStep, WholePage
  <2> SUFFICES ASSUME NEW j \in DOMAIN scans
               PROVE  /\ reading.pages \in {"offset", "keyset", "server", "ranges", "one"}
                      /\ IF reading.pages = "ranges" THEN Len(scans') >= 2 ELSE Len(scans') = 1
                      /\ scans'[j].pc # "emit" => scans'[j].page = <<>>
                      /\ scans'[j].sent = 0 => scans'[j].last = IF AppendOnly THEN start ELSE 0
                      /\ AppendOnly => start <= scans'[j].last
                      /\ reading.pages \in {"ranges", "one"} =>
                           /\ scans'[j].pc = "emit" => ~scans'[j].more
                           /\ scans'[j].pc = "query" => scans'[j].sent = 0
                      /\ reading.pages \in {"keyset", "server"} =>
                           \A k \in DOMAIN scans'[j].page :
                             /\ scans'[j].page[k].row > scans'[j].last
                             /\ \A m \in 1..(k - 1) : scans'[j].page[m].row < scans'[j].page[k].row
                      /\ reading.pages = "ranges" =>
                           /\ \A k \in DOMAIN scans'[j].page : scans'[j].page[k].row \in scans'[j].lo..scans'[j].hi
                           /\ \A l \in DOMAIN scans : j # l =>
                                (scans'[j].lo..scans'[j].hi) \cap (scans'[l].lo..scans'[l].hi) = {}
    BY <1>2, <2>1 DEF Scans
  <2>4. CASE j = i
    BY <1>2, <2>2, <2>3, <2>4 DEF Scans
  <2>5. CASE j # i
    BY <1>2, <2>5 DEF Scans
  <2> QED BY <2>4, <2>5
<1> QED BY <1>1, <1>3, <1>4

Base == Typed /\ Phases /\ Scans
(* Every step is one of these.                                              *)
LEMMA StepCases ==
  ASSUME Base, [Next]_vars
  PROVE  \/ Begin \/ StartsScans \/ Take \/ Return \/ Finish \/ EndContext
         \/ \E i \in DOMAIN scans :
              \/ FailStep(i) \/ EndStep(i) \/ SendStep(i)
              \/ \E page \in Seq(Rows), more \in BOOLEAN : FetchStep(i, page, more)
         \/ \E r \in Rows : Write(r)
         \/ UNCHANGED vars
BY Steps, ScanSteps, PlanIs, PlanWithoutRangeIs DEF Base

LEMMA BaseStep ==
  ASSUME Base, [Next]_vars
  PROVE  Base'
<1>1. CASE UNCHANGED vars
  <2>1. UNCHANGED <<source, reading, time, clock, phase, ctxDone, scans, out, stopped, failed, highest, start,
                    end, taken, fresh, changed, unread, late, tied, smooth, cutShort, watermark, runs, faults>>
    BY <1>1 DEF vars, tableVars, runVars, bookVars
  <2>2. Typed'
    BY <2>1 DEF Base, Typed
  <2>3. Phases'
    BY <2>1 DEF Base, Phases
  <2>4. Scans'
    BY <2>1 DEF Base, Scans, AppendOnly
  <2> QED BY <2>2, <2>3, <2>4 DEF Base
<1> QED
  BY <1>1, StepCases, BeginBase, StartBase, TakeBase, ReturnBase, FinishBase, EndContextBase, FailBase,
     EndBase, SendBase, FetchBase, WriteBase DEF Base

------------------------------------------------------------------------------
\* Watermarks

LEMMA AppendOnlyStep ==
  ASSUME Base, [Next]_vars
  PROVE  AppendOnly' <=> AppendOnly
<1>1. CASE UNCHANGED reading
  BY <1>1 DEF AppendOnly
<1>2. CASE Begin
  <2>1. reading' = ReadingOf(source)
    BY <1>2 DEF Begin
  <2> QED BY <2>1, PagesIs DEF Base, Typed, AppendOnly
<1>3. CASE StartsScans
  BY <1>3, StartBase DEF Base
<1>4. Take \/ Return \/ Finish \/ EndContext \/ UNCHANGED vars => UNCHANGED reading
  BY DEF Take, Return, Finish, EndContext, vars
<1>5. \A i \in DOMAIN scans :
        \/ FailStep(i) \/ EndStep(i) \/ SendStep(i)
        \/ \E page \in Seq(Rows), more \in BOOLEAN : FetchStep(i, page, more)
      => UNCHANGED reading
  BY DEF FailStep, EndStep, SendStep, FetchStep, ScanFrame, scanFrame
<1>6. \A r \in Rows : Write(r) => UNCHANGED reading
  BY DEF Write
<1> QED BY <1>1, <1>2, <1>3, <1>4, <1>5, <1>6, StepCases

(* Nothing is read, nothing is written.                                     *)
LEMMA MarksKept ==
  ASSUME Base, Marks, AppendOnly' <=> AppendOnly, UNCHANGED <<time, clock>>,
         out' = <<>> \/ UNCHANGED out,
         \/ UNCHANGED scans
         \/ \A i \in DOMAIN scans' :
              scans'[i].page = <<>> /\ (AppendOnly => scans'[i].last \in Present \cup {0}),
         highest' \in {0, highest}, watermark' \in {highest, watermark}
  PROVE  Marks'
<1>1. DOMAIN <<>> = {} /\ clock \in Nat /\ 0 <= clock
  BY ExtractAssumption DEF Base, Typed
<1>2. Present' = Present
  BY DEF Present
<1>3. \A k \in DOMAIN out' : k \in DOMAIN out /\ out'[k] = out[k]
  BY <1>1
<1>4. \A i \in DOMAIN scans' : \A k \in DOMAIN scans'[i].page : i \in DOMAIN scans /\ scans'[i] = scans[i]
  BY <1>1
<1>5. \A i \in DOMAIN scans' : AppendOnly => scans'[i].last \in Present \cup {0}
  BY DEF Marks
<1> HIDE DEF Present, AppendOnly
<1> QED BY <1>1, <1>2, <1>3, <1>4, <1>5 DEF Marks

LEMMA MarksTake ==
  ASSUME Base, Marks, Take
  PROVE  Marks'
<1>1. TakesHead /\ UNCHANGED takeFrame
  BY TakeIs DEF Base
<1>2. UNCHANGED <<time, clock, reading, scans, watermark>> /\ Present' = Present /\ (AppendOnly' <=> AppendOnly)
  BY <1>1 DEF takeFrame, tableVars, Present, AppendOnly
<1>3. 1 \in DOMAIN out /\ highest' \in {highest, out[1].wm}
  BY <1>1 DEF TakesHead
<1>4. \A k \in DOMAIN out' : k + 1 \in DOMAIN out /\ out'[k] = out[k + 1]
  BY <1>1 DEF TakesHead
<1> QED BY <1>2, <1>3, <1>4 DEF Marks

LEMMA ClockIs == ASSUME Typed PROVE clock \in Nat /\ MaxTime \in Nat /\ clock <= MaxTime
BY ExtractAssumption DEF Typed

LEMMA ItemIs ==
  ASSUME Typed, NEW i \in DOMAIN scans, SendsRow(i)
  PROVE  /\ 1 \in DOMAIN scans[i].page
         /\ scans[i].page[1].row \in Rows /\ scans[i].page[1].at \in Nat \ {0}
<1>1. 1 \in DOMAIN scans[i].page
  BY DEF SendsRow
<1> QED BY <1>1, ScanIs

LEMMA MarksSend ==
  ASSUME Base, Marks, NEW i \in DOMAIN scans, SendStep(i)
  PROVE  Marks'
<1>1. /\ SendsRow(i) /\ AppendsOut(i) /\ UNCHANGED <<time, clock, reading, watermark, highest>>
      /\ Present' = Present /\ (AppendOnly' <=> AppendOnly)
  BY DEF SendStep, ScanFrame, scanFrame, tableVars, Present, AppendOnly
<1> DEFINE item == scans[i].page[1]
<1>2. 1 \in DOMAIN scans[i].page /\ item.row \in Rows /\ item.at \in Nat /\ clock \in Nat
  BY <1>1, ItemIs, ClockIs DEF Base
<1>3. \A k \in DOMAIN out' : \/ k \in DOMAIN out /\ out'[k] = out[k]
                             \/ /\ out'[k].row = item.row /\ out'[k].at = item.at
                                /\ out'[k].wm = RowWatermark(item.row, item.at)
  BY <1>1 DEF AppendsOut
<1>4. item.at <= clock /\ (AppendOnly => item.row \in Present /\ item.at = time[item.row])
  BY <1>2 DEF Marks
<1>5. /\ AppendOnly => RowWatermark(item.row, item.at) = item.row
      /\ ~AppendOnly => RowWatermark(item.row, item.at) <= clock
  BY <1>2, <1>4, WatermarkIs DEF Base
<1>6. /\ DOMAIN scans' = DOMAIN scans
      /\ \A j \in DOMAIN scans : \A k \in DOMAIN scans'[j].page :
           \E m \in DOMAIN scans[j].page : scans'[j].page[k] = scans[j].page[m]
      /\ \A j \in DOMAIN scans : scans'[j].last \in {scans[j].last, item.row}
  <2>1. /\ DOMAIN scans' = DOMAIN scans /\ \A j \in DOMAIN scans : j # i => scans'[j] = scans[j]
        /\ scans'[i].last = item.row
        /\ \A k \in DOMAIN scans'[i].page : k + 1 \in DOMAIN scans[i].page
                                            /\ scans'[i].page[k] = scans[i].page[k + 1]
    BY <1>1 DEF SendsRow, OnlyScan
  <2> HIDE DEF item
  <2> QED BY <2>1
<1> HIDE DEF item
<1>7. \A j \in DOMAIN scans : AppendOnly => scans'[j].last \in Present \cup {0}
  BY <1>4, <1>6 DEF Marks
<1>8. \A j \in DOMAIN scans : \A k \in DOMAIN scans'[j].page :
        /\ scans'[j].page[k].at <= clock
        /\ AppendOnly => scans'[j].page[k].row \in Present /\ scans'[j].page[k].at = time[scans'[j].page[k].row]
  BY <1>6 DEF Marks
<1>9. \A k \in DOMAIN out' :
        /\ out'[k].at <= clock
        /\ ~AppendOnly => out'[k].wm <= clock
        /\ AppendOnly => /\ out'[k].row \in Present /\ out'[k].at = time[out'[k].row]
                         /\ out'[k].wm = out'[k].row
  BY <1>3, <1>4, <1>5 DEF Marks
<1> QED BY <1>1, <1>6, <1>7, <1>8, <1>9 DEF Marks

LEMMA MarksFetch ==
  ASSUME Base, Marks, NEW i \in DOMAIN scans, NEW page \in Seq(Rows), NEW more \in BOOLEAN,
         FetchStep(i, page, more)
  PROVE  Marks'
<1>1. /\ FetchesScan(i, page, more) /\ UNCHANGED <<time, clock, reading, watermark, highest, out>>
      /\ Present' = Present /\ (AppendOnly' <=> AppendOnly)
  BY DEF FetchStep, ScanFrame, scanFrame, tableVars, Present, AppendOnly
<1>2. /\ DOMAIN scans' = DOMAIN scans /\ \A j \in DOMAIN scans : scans'[j].last = scans[j].last
      /\ \A j \in DOMAIN scans : j # i => scans'[j] = scans[j]
      /\ DOMAIN scans'[i].page = DOMAIN page
      /\ \A k \in DOMAIN page : /\ page[k] \in Present /\ scans'[i].page[k].row = page[k]
                                /\ scans'[i].page[k].at = time[page[k]]
  BY <1>1 DEF FetchesScan, OnlyScan
<1>3. \A r \in Present : time[r] <= clock
  BY ComparedIs DEF Base, Present
<1>4. \A j \in DOMAIN scans : \A k \in DOMAIN scans'[j].page :
        /\ scans'[j].page[k].at <= clock
        /\ AppendOnly => scans'[j].page[k].row \in Present /\ scans'[j].page[k].at = time[scans'[j].page[k].row]
  <2> SUFFICES ASSUME NEW j \in DOMAIN scans, NEW k \in DOMAIN scans'[j].page
               PROVE  /\ scans'[j].page[k].at <= clock
                      /\ AppendOnly => scans'[j].page[k].row \in Present /\ scans'[j].page[k].at = time[scans'[j].page[k].row]
    OBVIOUS
  <2>1. CASE j = i
    BY <1>2, <1>3, <2>1
  <2>2. CASE j # i
    BY <1>2, <2>2 DEF Marks
  <2> QED BY <2>1, <2>2
<1> QED BY <1>1, <1>2, <1>4 DEF Marks

(* A row that a run under way has not to fear comes after all there is.      *)
LEMMA TimelyWrite ==
  ASSUME Base, Marks, NEW r \in Rows, Write(r), r \in Timely'
  PROVE  /\ phase # "idle" => time'[r] = clock + 1
         /\ phase # "idle" /\ AppendOnly => \A q \in Present : q < r
         /\ AppendOnly => r > watermark
         /\ ~AppendOnly => time'[r] > watermark
<1>1. /\ clock' = clock + 1 /\ clock \in Nat /\ time'[r] \in 0..(clock + 1)
      /\ AppendOnly => time[r] = 0 /\ time'[r] = clock + 1
      /\ late' = IF time'[r] > 0 /\ Late(r) THEN late \cup {r} ELSE late \ {r}
      /\ watermark \in Nat /\ r \in Nat
  BY WriteIs, ClockIs, ExtractAssumption DEF Base, Typed
<1>2. time'[r] > 0 /\ r \notin late' /\ ~Late(r)
  BY <1>1 DEF Timely, Present
<1>3. CASE AppendOnly
  <2>1. ~(r <= watermark) /\ (phase # "idle" => \A q \in Present : ~(q > r))
    BY <1>2, <1>3 DEF Late
  <2>2. \A q \in Present : q \in Nat /\ q # r
    BY <1>1, <1>3, ExtractAssumption DEF Present
  <2> QED BY <1>1, <1>3, <2>1, <2>2
<1>4. CASE ~AppendOnly
  <2>1. ~(time'[r] <= watermark) /\ (phase # "idle" => ~(time'[r] < clock'))
    BY <1>2, <1>4 DEF Late
  <2> QED BY <1>1, <1>4, <2>1
<1> QED BY <1>3, <1>4

LEMMA MarksWrite ==
  ASSUME Base, Marks, NEW r \in Rows, Write(r)
  PROVE  Marks'
<1>1. /\ clock' = clock + 1 /\ \A q \in Rows : q # r => time'[q] = time[q]
      /\ AppendOnly => time[r] = 0 /\ time'[r] = clock + 1
      /\ UNCHANGED <<out, scans, highest, watermark, reading>> /\ clock \in Nat
  BY WriteIs, ClockIs DEF Base, runVars
<1>2. AppendOnly' <=> AppendOnly
  BY <1>1 DEF AppendOnly
<1>3. AppendOnly => \A q \in Present : q \in Present' /\ time'[q] = time[q]
  <2> SUFFICES ASSUME AppendOnly, NEW q \in Present PROVE q \in Present' /\ time'[q] = time[q]
    OBVIOUS
  <2>1. q \in Rows /\ time[q] > 0 /\ time[r] = 0
    BY <1>1 DEF Present
  <2>2. q # r
    BY <2>1
  <2> QED BY <1>1, <2>1, <2>2 DEF Present
<1>4. \A k \in DOMAIN out : out[k].at \in Nat /\ out[k].wm \in Nat
  BY OutIs DEF Base
<1>5. \A i \in DOMAIN scans : \A k \in DOMAIN scans[i].page : scans[i].page[k].at \in Nat
  BY ScanIs DEF Base
<1>6. highest \in Nat /\ watermark \in Nat
  BY DEF Base, Typed
<1>7. \A x \in Nat : x <= clock => x <= clock + 1
  BY <1>1
<1> HIDE DEF Present, AppendOnly
<1>8. CASE AppendOnly
  BY <1>1, <1>2, <1>3, <1>4, <1>5, <1>7, <1>8 DEF Marks
<1>9. CASE ~AppendOnly
  BY <1>1, <1>2, <1>4, <1>5, <1>6, <1>7, <1>9 DEF Marks
<1> QED BY <1>8, <1>9

LEMMA MarksStep ==
  ASSUME Base, Marks, [Next]_vars
  PROVE  Marks'
<1>0. AppendOnly' <=> AppendOnly
  BY AppendOnlyStep
<1>1. DOMAIN <<>> = {}
  OBVIOUS
<1>2. CASE Begin
  <2>1. /\ UNCHANGED <<time, clock, scans, watermark>> /\ out' = <<>> /\ highest' = 0
    BY <1>2 DEF Begin, tableVars
  <2> QED BY <1>0, <2>1, MarksKept
<1>3. CASE StartsScans
  <2>1. /\ UNCHANGED <<time, clock, out, highest, watermark>>
        /\ \A i \in DOMAIN scans' : scans'[i].page = <<>>
                                    /\ scans'[i].last = IF reading'.pages = "keyset" THEN watermark ELSE 0
    BY <1>3 DEF StartsScans, startFrame, tableVars
  <2>2. AppendOnly => watermark \in Present \cup {0}
    BY DEF Marks
  <2> HIDE DEF Present
  <2>3. \A i \in DOMAIN scans' : AppendOnly => scans'[i].last \in Present \cup {0}
    BY <2>1, <2>2
  <2> QED BY <1>0, <2>1, <2>3, MarksKept
<1>4. CASE Return
  <2>1. UNCHANGED <<time, clock, watermark, highest>> /\ out' = <<>> /\ scans' = <<>>
    BY <1>4 DEF Return, tableVars
  <2> QED BY <1>0, <1>1, <2>1, MarksKept
<1>5. CASE Finish
  <2>1. UNCHANGED <<time, clock, scans, out, highest>> /\ watermark' \in {highest, watermark}
    BY <1>5 DEF Finish, tableVars
  <2> QED BY <1>0, <2>1, MarksKept
<1>6. CASE EndContext \/ UNCHANGED vars
  <2>1. UNCHANGED <<time, clock, scans, out, highest, watermark>>
    BY <1>6 DEF EndContext, vars, runVars, tableVars
  <2> QED BY <1>0, <2>1, MarksKept
<1>7. ASSUME NEW i \in DOMAIN scans, FailStep(i) \/ EndStep(i) PROVE Marks'
  <2>1. UNCHANGED <<time, clock, out, highest, watermark>> /\ Present' = Present
    BY <1>7 DEF FailStep, EndStep, ScanFrame, scanFrame, tableVars, Present
  <2>2. /\ DOMAIN scans' = DOMAIN scans /\ \A j \in DOMAIN scans : scans'[j].last = scans[j].last
        /\ scans'[i].page = <<>>
        /\ \A j \in DOMAIN scans : j # i => scans'[j] = scans[j]
    BY <1>7 DEF FailStep, EndStep, FailsScan, EndsPage, OnlyScan
  <2>3. \A j \in DOMAIN scans' : \A k \in DOMAIN scans'[j].page : k \in DOMAIN scans[j].page /\ scans'[j].page[k] = scans[j].page[k]
    BY <1>1, <2>2
  <2> HIDE DEF Present, AppendOnly
  <2> QED BY <1>0, <2>1, <2>2, <2>3 DEF Marks
<1> QED BY <1>2, <1>3, <1>4, <1>5, <1>6, <1>7, StepCases, MarksTake, MarksSend, MarksFetch, MarksWrite

------------------------------------------------------------------------------
\* The content of rows that did not change

LEMMA StableKept ==
  ASSUME StableFresh, phase # "idle", UNCHANGED <<time, taken, fresh, changed>>,
         \A k \in DOMAIN out' : \E m \in DOMAIN out : out'[k] = out[m],
         \A i \in DOMAIN scans' : \A k \in DOMAIN scans'[i].page :
           \E j \in DOMAIN scans : \E m \in DOMAIN scans[j].page : scans'[i].page[k] = scans[j].page[m]
  PROVE  StableFresh'
<1>1. \A r \in fresh : taken[r] > 0
  BY DEF StableFresh
<1>2. \A r \in Rows \ changed :
        /\ taken[r] > 0 => r \in fresh
        /\ \A k \in DOMAIN out : out[k].row = r => out[k].at = time[r]
        /\ \A i \in DOMAIN scans : \A k \in DOMAIN scans[i].page :
             scans[i].page[k].row = r => scans[i].page[k].at = time[r]
  BY DEF StableFresh
<1>3. ASSUME NEW r \in Rows \ changed
      PROVE  /\ \A k \in DOMAIN out' : out'[k].row = r => out'[k].at = time[r]
             /\ \A i \in DOMAIN scans' : \A k \in DOMAIN scans'[i].page :
                  scans'[i].page[k].row = r => scans'[i].page[k].at = time[r]
  <2>1. \A k \in DOMAIN out' : out'[k].row = r => out'[k].at = time[r]
    BY <1>2
  <2>2. \A i \in DOMAIN scans' : \A k \in DOMAIN scans'[i].page :
          scans'[i].page[k].row = r => scans'[i].page[k].at = time[r]
    BY <1>2
  <2> QED BY <2>1, <2>2
<1> QED BY <1>1, <1>2, <1>3 DEF StableFresh

LEMMA StableTake ==
  ASSUME Base, StableFresh, Take
  PROVE  StableFresh'
<1>1. TakesHead /\ UNCHANGED takeFrame /\ phase = "extract"
  BY TakeIs DEF Base
<1>2. UNCHANGED <<time, changed, scans, phase>> /\ out[1].row \in Rows /\ 1 \in DOMAIN out
      /\ \A k \in DOMAIN out' : k + 1 \in DOMAIN out /\ out'[k] = out[k + 1]
  BY <1>1, OutIs DEF takeFrame, tableVars, TakesHead, Base
<1>3. CASE ctxDone
  <2>1. UNCHANGED <<taken, fresh>>
    BY <1>1, <1>3 DEF TakesHead
  <2> QED BY <1>1, <1>2, <2>1 DEF StableFresh
<1>4. CASE ~ctxDone
  <2>0. taken \in [Rows -> Nat] /\ fresh \in SUBSET Rows
    BY DEF Base, Typed
  <2>1. /\ taken' = [taken EXCEPT ![out[1].row] = @ + 1]
        /\ fresh' = IF time[out[1].row] = out[1].at THEN fresh \cup {out[1].row} ELSE fresh
    BY <1>1, <1>4 DEF TakesHead
  <2>2. \A r \in Rows : taken'[r] = IF r = out[1].row THEN taken[r] + 1 ELSE taken[r]
    BY <2>0, <2>1
  <2>3. /\ \A r \in fresh : taken[r] > 0
        /\ \A r \in Rows \ changed :
             /\ taken[r] > 0 => r \in fresh
             /\ \A k \in DOMAIN out : out[k].row = r => out[k].at = time[r]
             /\ \A i \in DOMAIN scans : \A k \in DOMAIN scans[i].page :
                  scans[i].page[k].row = r => scans[i].page[k].at = time[r]
    BY <1>1 DEF StableFresh
  <2>4. \A r \in fresh' : taken'[r] > 0
    <3> SUFFICES ASSUME NEW r \in fresh' PROVE taken'[r] > 0
      OBVIOUS
    <3>1. r \in Rows /\ (r \in fresh \/ r = out[1].row)
      BY <1>2, <2>0, <2>1
    <3>2. taken[r] \in Nat /\ (r \in fresh => taken[r] > 0)
      BY <2>0, <2>3, <3>1
    <3> QED BY <2>2, <3>1, <3>2
  <2>5. ASSUME NEW r \in Rows \ changed, taken'[r] > 0 PROVE r \in fresh'
    <3>1. CASE r = out[1].row
      <4>1. out[1].at = time[r]
        BY <1>2, <2>3, <3>1
      <4> QED BY <2>1, <3>1, <4>1
    <3>2. CASE r # out[1].row
      <4>1. taken[r] > 0
        BY <2>2, <2>5, <3>2
      <4> QED BY <2>1, <2>3, <4>1
    <3> QED BY <3>1, <3>2
  <2>6. \A r \in Rows \ changed :
          /\ \A k \in DOMAIN out' : out'[k].row = r => out'[k].at = time[r]
          /\ \A i \in DOMAIN scans : \A k \in DOMAIN scans[i].page :
               scans[i].page[k].row = r => scans[i].page[k].at = time[r]
    BY <1>2, <2>3
  <2> QED BY <1>2, <2>4, <2>5, <2>6 DEF StableFresh
<1> QED BY <1>3, <1>4

LEMMA StableSend ==
  ASSUME Base, StableFresh, NEW i \in DOMAIN scans, SendStep(i)
  PROVE  StableFresh'
<1>1. /\ SendsRow(i) /\ AppendsOut(i) /\ UNCHANGED <<time, taken, fresh, changed, phase>> /\ phase = "extract"
  BY DEF SendStep, ScanFrame, scanFrame, tableVars
<1> DEFINE item == scans[i].page[1]
<1>2. 1 \in DOMAIN scans[i].page
  BY <1>1 DEF SendsRow
<1>3. \A k \in DOMAIN out' : \/ k \in DOMAIN out /\ out'[k] = out[k]
                             \/ out'[k].row = item.row /\ out'[k].at = item.at
  BY <1>1 DEF AppendsOut
<1>4. /\ DOMAIN scans' = DOMAIN scans /\ \A j \in DOMAIN scans : j # i => scans'[j] = scans[j]
      /\ \A k \in DOMAIN scans'[i].page : k + 1 \in DOMAIN scans[i].page
                                          /\ scans'[i].page[k] = scans[i].page[k + 1]
  BY <1>1 DEF SendsRow, OnlyScan
<1>5. /\ \A r \in fresh : taken[r] > 0
      /\ \A r \in Rows \ changed :
           /\ taken[r] > 0 => r \in fresh
           /\ \A k \in DOMAIN out : out[k].row = r => out[k].at = time[r]
           /\ \A j \in DOMAIN scans : \A k \in DOMAIN scans[j].page :
                scans[j].page[k].row = r => scans[j].page[k].at = time[r]
  BY <1>1 DEF StableFresh
<1>6. ASSUME NEW r \in Rows \ changed
      PROVE  /\ \A k \in DOMAIN out' : out'[k].row = r => out'[k].at = time[r]
             /\ \A j \in DOMAIN scans : \A k \in DOMAIN scans'[j].page :
                  scans'[j].page[k].row = r => scans'[j].page[k].at = time[r]
  <2>1. item.row = r => item.at = time[r]
    BY <1>2, <1>5
  <2> HIDE DEF item
  <2>2. \A k \in DOMAIN out' : out'[k].row = r => out'[k].at = time[r]
    BY <1>3, <1>5, <2>1
  <2>3. \A j \in DOMAIN scans : \A k \in DOMAIN scans'[j].page :
          \E m \in DOMAIN scans[j].page : scans'[j].page[k] = scans[j].page[m]
    BY <1>4
  <2>4. \A j \in DOMAIN scans : \A k \in DOMAIN scans'[j].page :
          scans'[j].page[k].row = r => scans'[j].page[k].at = time[r]
    BY <1>5, <2>3
  <2> QED BY <2>2, <2>4
<1> HIDE DEF item
<1> QED BY <1>1, <1>4, <1>5, <1>6 DEF StableFresh

LEMMA StableFetch ==
  ASSUME Base, StableFresh, NEW i \in DOMAIN scans, NEW page \in Seq(Rows), NEW more \in BOOLEAN,
         FetchStep(i, page, more)
  PROVE  StableFresh'
<1>1. /\ FetchesScan(i, page, more) /\ UNCHANGED <<time, taken, fresh, changed, phase, out>> /\ phase = "extract"
  BY DEF FetchStep, ScanFrame, scanFrame, tableVars
<1>2. /\ DOMAIN scans' = DOMAIN scans /\ \A j \in DOMAIN scans : j # i => scans'[j] = scans[j]
      /\ \A k \in DOMAIN scans'[i].page : scans'[i].page[k].at = time[scans'[i].page[k].row]
  <2>1. /\ DOMAIN scans' = DOMAIN scans /\ \A j \in DOMAIN scans : j # i => scans'[j] = scans[j]
        /\ DOMAIN scans'[i].page = DOMAIN page
        /\ \A k \in DOMAIN page : scans'[i].page[k].row = page[k] /\ scans'[i].page[k].at = time[page[k]]
    BY <1>1 DEF FetchesScan, OnlyScan
  <2> QED BY <2>1
<1>3. \A r \in Rows \ changed :
        \A j \in DOMAIN scans : \A k \in DOMAIN scans'[j].page :
          scans'[j].page[k].row = r => scans'[j].page[k].at = time[r]
  BY <1>1, <1>2 DEF StableFresh
<1> QED BY <1>1, <1>2, <1>3 DEF StableFresh

LEMMA StableWrite ==
  ASSUME Base, StableFresh, NEW r \in Rows, Write(r)
  PROVE  StableFresh'
<1>1. /\ \A q \in Rows : q # r => time'[q] = time[q]
      /\ changed' = changed \cup {r} /\ fresh' = fresh \ {r}
      /\ UNCHANGED <<phase, out, scans, taken>>
  BY WriteIs DEF Base, runVars
<1>2. \A q \in Rows \ changed' : q \in Rows \ changed /\ time'[q] = time[q] /\ (q \in fresh => q \in fresh')
  BY <1>1
<1> QED BY <1>1, <1>2 DEF StableFresh

LEMMA StableStep ==
  ASSUME Base, StableFresh, [Next]_vars
  PROVE  StableFresh'
<1>0. DOMAIN <<>> = {}
  OBVIOUS
<1>1. CASE Begin
  <2>1. /\ out' = <<>> /\ scans' = <<>> /\ taken' = [r \in Rows |-> 0] /\ fresh' = {}
    BY <1>1 DEF Begin, Base, Phases
  <2>2. \A r \in Rows : ~(taken'[r] > 0)
    BY <2>1
  <2> QED BY <1>0, <2>1, <2>2 DEF StableFresh
<1>2. CASE StartsScans
  <2>1. UNCHANGED <<time, taken, fresh, changed, out>> /\ phase = "plan"
        /\ \A i \in DOMAIN scans' : scans'[i].page = <<>>
    BY <1>2 DEF StartsScans, startFrame, tableVars
  <2> QED BY <1>0, <2>1, StableKept
<1>3. CASE Return
  <2>1. UNCHANGED <<time, taken, fresh, changed>> /\ phase = "extract" /\ out' = <<>> /\ scans' = <<>>
    BY <1>3 DEF Return, tableVars, bookVars
  <2> QED BY <1>0, <2>1, StableKept
<1>4. CASE Finish
  <2>1. phase' = "idle"
    BY <1>4 DEF Finish
  <2> QED BY <2>1 DEF StableFresh
<1>5. CASE EndContext \/ UNCHANGED vars
  <2>1. UNCHANGED <<time, taken, fresh, changed, out, scans, phase>>
    BY <1>5 DEF EndContext, vars, runVars, tableVars, bookVars
  <2> QED BY <2>1 DEF StableFresh
<1>6. ASSUME NEW i \in DOMAIN scans, FailStep(i) \/ EndStep(i) PROVE StableFresh'
  <2>1. UNCHANGED <<time, taken, fresh, changed, out, phase>> /\ phase = "extract"
    BY <1>6 DEF FailStep, EndStep, ScanFrame, scanFrame, tableVars
  <2>2. /\ DOMAIN scans' = DOMAIN scans /\ scans'[i].page = <<>>
        /\ \A j \in DOMAIN scans : j # i => scans'[j] = scans[j]
    BY <1>6 DEF FailStep, EndStep, FailsScan, EndsPage, OnlyScan
  <2>3. \A j \in DOMAIN scans' : \A k \in DOMAIN scans'[j].page : j \in DOMAIN scans /\ k \in DOMAIN scans[j].page /\ scans'[j].page[k] = scans[j].page[k]
    BY <1>0, <2>2
  <2> QED BY <2>1, <2>3, StableKept
<1> QED BY <1>1, <1>2, <1>3, <1>4, <1>5, <1>6, StepCases, StableTake, StableSend, StableFetch, StableWrite

------------------------------------------------------------------------------
\* Pages by offset

LEMMA SelectedKept ==
  ASSUME UNCHANGED <<time, reading, source, start, end>>
  PROVE  /\ Selected' = Selected /\ Orders(Selected)' = Orders(Selected)
         /\ Tied(Selected)' <=> Tied(Selected)
         /\ Present' = Present
<1>1. Present' = Present
  BY DEF Present
<1>2. Selected' = Selected
  <2>1. \A r \in Present : InWindow(reading, Compared(r), start, end)' <=> InWindow(reading, Compared(r), start, end)
    BY DEF InWindow, Above, UpTo, Compared, Shown, ShownAt
  <2> QED BY <1>1, <2>1 DEF Selected
<1>3. Orders(Selected)' = Orders(Selected)
  BY <1>2 DEF Orders, Rank, Shown, ShownAt
<1>4. Tied(Selected)' <=> Tied(Selected)
  BY <1>2 DEF Tied, Rank, Shown, ShownAt
<1> QED BY <1>1, <1>2, <1>3, <1>4

(* An extraction by pages is one scan.                                      *)
LEMMA OnlyOne ==
  ASSUME Base, reading.pages # "ranges", NEW i \in DOMAIN scans
  PROVE  i = 1 /\ DOMAIN scans = {1}
<1>1. Len(scans) = 1 /\ DOMAIN scans = 1..Len(scans)
  BY ScanIs DEF Base, Scans
<1> QED BY <1>1

LEMMA NothingSent ==
  ASSUME Base, phase \notin {"idle", "ended"}, \A i \in DOMAIN scans : scans[i].sent = 0, NEW r \in Rows
  PROVE  ~Sent(r) /\ ~SentFresh(r) /\ taken[r] = 0 /\ out = <<>> /\ highest = 0 /\ ~InOut(r)
<1>1. out = <<>> /\ DOMAIN <<>> = {} /\ taken = [q \in Rows |-> 0] /\ fresh = {} /\ highest = 0
  BY DEF Base, Phases
<1> QED BY <1>1 DEF Sent, SentFresh, InOut

(* The order that the pages before were cut from goes on.                   *)
OneOrderCut(i, page, more) ==
  \E rows \in Orders(Selected) :
    /\ rows \in Seq(Rows) /\ DOMAIN rows = 1..Len(rows) /\ Len(rows) \in Nat
    /\ \A k, m \in DOMAIN rows : rows[k] = rows[m] => k = m
    /\ \A r \in Selected : \E k \in DOMAIN rows : rows[k] = r
    /\ scans[i].sent + Len(page) <= Len(rows)
    /\ \A r \in Rows : Sent(r) <=> \E k \in 1..scans[i].sent : rows[k] = r
    /\ \A k \in DOMAIN page : scans[i].sent + k \in DOMAIN rows /\ page[k] = rows[scans[i].sent + k]
    /\ more \/ \A p \in DOMAIN rows : p > scans[i].sent =>
                   p - scans[i].sent \in DOMAIN page /\ page[p - scans[i].sent] = rows[p]
LEMMA OffsetFetch ==
  ASSUME Base, OffsetOrder, NEW i \in DOMAIN scans, NEW page \in Seq(Rows), NEW more \in BOOLEAN,
         FetchStep(i, page, more), ~ctxDone, smooth', reading.pages = "offset"
  PROVE  OneOrderCut(i, page, more)
<1> DEFINE n == scans[i].sent
<1>0. ~AppendOnly /\ n \in Nat /\ Typed /\ phase = "extract" /\ scans[i].pc = "query" /\ scans[i].page = <<>>
      /\ DOMAIN scans = {i}
  BY ScanIs, OnlyOne DEF AppendOnly, Base, Scans, FetchStep, ScanFrame
<1>1. Selected \subseteq Rows /\ IsFiniteSet(Selected) /\ \A r \in Selected : Rank(r) \in Int
  <2>1. Selected \subseteq Rows
    BY <1>0, SelectedIs
  <2> QED BY <1>0, <2>1, Finite, ComparedIs
<1>2. PICK rows \in Orders(Selected) :
        /\ rows \in Seq(Rows) /\ DOMAIN rows = 1..Len(rows) /\ Len(rows) <= Cardinality(Rows)
        /\ n <= Len(rows) => n + Len(page) <= Len(rows)
        /\ ~(n <= Len(rows)) => Len(page) = 0
        /\ \A k \in DOMAIN page : n + k \in DOMAIN rows /\ page[k] = rows[n + k]
        /\ more \/ \A p \in DOMAIN rows : p > n =>
                       p - n \in DOMAIN page /\ page[p - n] = rows[p]
  BY DEF FetchStep, OrderPage
<1>3. /\ \A k, m \in DOMAIN rows : rows[k] = rows[m] => k = m
      /\ \A r \in Selected : \E k \in DOMAIN rows : rows[k] = r
      /\ Len(rows) \in Nat
  <2>1. rows \in SetToSeqs(Selected)
    BY DEF Orders
  <2>2. /\ \A k, m \in DOMAIN rows : rows[k] = rows[m] => k = m
        /\ \A r \in Selected : \E k \in DOMAIN rows : rows[k] = r
    BY <1>1, <2>1, OrdersAre
  <2>3. Len(rows) \in Nat
    BY <1>2
  <2> QED BY <2>2, <2>3
<1>4. n <= Len(rows) /\ \A r \in Rows : Sent(r) <=> \E k \in 1..n : rows[k] = r
  <2>1. CASE n = 0
    <3>1. \A r \in Rows : ~Sent(r)
      BY <1>0, <2>1, NothingSent
    <3> HIDE DEF n
    <3> QED BY <1>3, <2>1, <3>1
  <2>2. CASE n > 0
    <3>1. Later(i)
      BY <2>2 DEF Later
    <3>2. smooth /\ changed = {} /\ ~Tied(Selected)
      BY <1>0, <3>1 DEF FetchStep
    <3>3. Len(scans[i].page) = 0
      BY <1>0
    <3>4. PICK rows0 \in Orders(Selected) :
            /\ n + Len(scans[i].page) <= Len(rows0)
            /\ \A r \in Rows : Sent(r) <=> \E k \in 1..n : rows0[k] = r
      <4>1. n + Len(scans[i].page) > 0 /\ scans[i].pc # "ended" /\ Running
        BY <1>0, <2>2, <3>3 DEF Running
      <4> QED BY <3>2, <4>1 DEF OffsetOrder
    <3>5. rows0 = rows
      BY <1>1, <3>2, OneOrder
    <3> HIDE DEF n
    <3> QED BY <1>0, <3>3, <3>4, <3>5
  <2> QED BY <1>0, <2>1, <2>2
<1> HIDE DEF n
<1> QED BY <1>2, <1>3, <1>4 DEF n, OneOrderCut

LEMMA OffsetSend ==
  ASSUME Base, OffsetOrder, NEW i \in DOMAIN scans, SendStep(i)
  PROVE  OffsetOrder'
<1> SUFFICES ASSUME Running', smooth', changed' = {}, reading'.pages = "offset"
             PROVE  \A j \in DOMAIN scans' :
                      scans'[j].sent + Len(scans'[j].page) > 0 /\ scans'[j].pc # "ended" =>
                        \E rows \in Orders(Selected)' :
                          /\ scans'[j].sent + Len(scans'[j].page) <= Len(rows)
                          /\ \A r \in Rows : Sent(r)' <=> \E k \in 1..scans'[j].sent : rows[k] = r
                          /\ \A k \in DOMAIN scans'[j].page : scans'[j].page[k].row = rows[scans'[j].sent + k]
  BY DEF OffsetOrder
<1>1. /\ SendsRow(i) /\ AppendsOut(i) /\ scans[i].pc = "emit" /\ smooth /\ Typed /\ Scans
      /\ UNCHANGED <<taken, fresh, time, reading, source, start, end, changed, phase, ctxDone>>
  BY DEF SendStep, ScanFrame, scanFrame, tableVars, Base
<1>2. Running /\ changed = {} /\ reading.pages = "offset" /\ DOMAIN scans' = {i}
  BY <1>1, OnlyOne DEF Running, SendsRow, OnlyScan
<1> DEFINE n == scans[i].sent
           p == scans[i].page
<1>3. n \in Nat /\ Len(p) \in Nat /\ DOMAIN p = 1..Len(p) /\ Len(p) > 0 /\ 1 \in DOMAIN p
  BY <1>1, ScanIs DEF SendsRow
<1>4. PICK rows \in Orders(Selected) :
        /\ n + Len(p) <= Len(rows)
        /\ \A r \in Rows : Sent(r) <=> \E k \in 1..n : rows[k] = r
        /\ \A k \in DOMAIN p : p[k].row = rows[n + k]
  <2>1. n + Len(p) > 0
    BY <1>3
  <2> QED BY <1>1, <1>2, <2>1 DEF OffsetOrder
<1>5. Orders(Selected)' = Orders(Selected)
  BY <1>1, SelectedKept
<1>6. /\ scans'[i].sent = n + 1 /\ Len(scans'[i].page) = Len(p) - 1
      /\ \A k \in DOMAIN scans'[i].page : k \in 1..(Len(p) - 1) /\ k + 1 \in DOMAIN p /\ scans'[i].page[k] = p[k + 1]
  BY <1>1 DEF SendsRow
<1>7. \A r \in Rows : Sent(r)' <=> Sent(r) \/ r = p[1].row
  BY <1>1, SendMoves
<1> HIDE DEF n, p
<1>8. scans'[i].sent + Len(scans'[i].page) <= Len(rows)
  <2>1. (n + 1) + (Len(p) - 1) = n + Len(p)
    BY <1>3
  <2> QED BY <1>4, <1>6, <2>1
<1>9. \A r \in Rows : Sent(r)' <=> \E k \in 1..(n + 1) : rows[k] = r
  <2>1. p[1].row = rows[n + 1]
    BY <1>3, <1>4
  <2>2. \A k : k \in 1..(n + 1) <=> k \in 1..n \/ k = n + 1
    BY <1>3
  <2> QED BY <1>4, <1>7, <2>1, <2>2
<1>10. \A k \in DOMAIN scans'[i].page : scans'[i].page[k].row = rows[(n + 1) + k]
  <2> SUFFICES ASSUME NEW k \in DOMAIN scans'[i].page
               PROVE  scans'[i].page[k].row = rows[(n + 1) + k]
    OBVIOUS
  <2>0. k \in 1..(Len(p) - 1) /\ k + 1 \in DOMAIN p /\ scans'[i].page[k] = p[k + 1]
    BY <1>6
  <2>1. k \in Nat /\ scans'[i].page[k].row = rows[n + (k + 1)]
    BY <1>3, <1>4, <2>0
  <2>2. n + (k + 1) = (n + 1) + k
    BY <1>3, <2>1
  <2> QED BY <2>1, <2>2
<1>11. scans'[i].sent = n + 1
  BY <1>6
<1>12. \E t \in Orders(Selected) :
         /\ scans'[i].sent + Len(scans'[i].page) <= Len(t)
         /\ \A r \in Rows : Sent(r)' <=> \E k \in 1..scans'[i].sent : t[k] = r
         /\ \A k \in DOMAIN scans'[i].page : scans'[i].page[k].row = t[scans'[i].sent + k]
  BY <1>4, <1>8, <1>9, <1>10, <1>11
<1> QED BY <1>2, <1>5, <1>12

LEMMA OffsetFetched ==
  ASSUME Base, OffsetOrder, NEW i \in DOMAIN scans, NEW page \in Seq(Rows), NEW more \in BOOLEAN,
         FetchStep(i, page, more)
  PROVE  OffsetOrder'
<1> SUFFICES ASSUME Running', smooth', changed' = {}, reading'.pages = "offset"
             PROVE  \A j \in DOMAIN scans' :
                      scans'[j].sent + Len(scans'[j].page) > 0 /\ scans'[j].pc # "ended" =>
                        \E rows \in Orders(Selected)' :
                          /\ scans'[j].sent + Len(scans'[j].page) <= Len(rows)
                          /\ \A r \in Rows : Sent(r)' <=> \E k \in 1..scans'[j].sent : rows[k] = r
                          /\ \A k \in DOMAIN scans'[j].page : scans'[j].page[k].row = rows[scans'[j].sent + k]
  BY DEF OffsetOrder
<1>1. /\ FetchesScan(i, page, more) /\ Typed /\ Scans /\ scans[i].pc = "query"
      /\ UNCHANGED <<taken, fresh, out, time, reading, source, start, end, changed, phase, ctxDone>>
  BY DEF FetchStep, ScanFrame, scanFrame, tableVars, Base
<1>2. ~ctxDone /\ reading.pages = "offset" /\ DOMAIN scans' = {i}
  BY <1>1, OnlyOne DEF Running, FetchesScan, OnlyScan
<1>3. PICK rows \in Orders(Selected) :
        /\ scans[i].sent + Len(page) <= Len(rows)
        /\ \A r \in Rows : Sent(r) <=> \E k \in 1..scans[i].sent : rows[k] = r
        /\ \A k \in DOMAIN page : scans[i].sent + k \in DOMAIN rows /\ page[k] = rows[scans[i].sent + k]
  BY <1>2, OffsetFetch DEF OneOrderCut
<1>4. Orders(Selected)' = Orders(Selected)
  BY <1>1, SelectedKept
<1>5. \A r \in Rows : Sent(r)' <=> Sent(r)
  BY <1>1, FetchMoves
<1>6. /\ scans'[i].sent = scans[i].sent /\ Len(scans'[i].page) = Len(page) /\ DOMAIN scans'[i].page = DOMAIN page
      /\ \A k \in DOMAIN page : scans'[i].page[k].row = page[k]
  BY <1>1 DEF FetchesScan
<1> QED BY <1>2, <1>3, <1>4, <1>5, <1>6

LEMMA OffsetStep ==
  ASSUME Base, OffsetOrder, [Next]_vars
  PROVE  OffsetOrder'
<1>1. CASE Begin \/ Return \/ Finish \/ EndContext
  <2>1. Begin => ~Running'
    BY DEF Begin, Running
  <2>2. Return => DOMAIN scans' = {}
    BY DEF Return
  <2>3. Finish \/ EndContext => ~Running'
    BY DEF Finish, EndContext, Running
  <2> QED BY <1>1, <2>1, <2>2, <2>3 DEF OffsetOrder
<1>2. CASE StartsScans
  <2>1. \A i \in DOMAIN scans' : scans'[i].sent = 0 /\ scans'[i].page = <<>>
    BY <1>2 DEF StartsScans
  <2>2. \A i \in DOMAIN scans' : ~(scans'[i].sent + Len(scans'[i].page) > 0)
    BY <2>1
  <2> QED BY <2>2 DEF OffsetOrder
<1>3. CASE Take
  <2>1. TakesHead /\ UNCHANGED takeFrame /\ phase = "extract"
    BY <1>3, TakeIs DEF Base
  <2>2. UNCHANGED <<time, reading, source, start, end, scans, changed, smooth, phase, ctxDone>>
    BY <2>1 DEF takeFrame, tableVars
  <2>3. Orders(Selected)' = Orders(Selected)
    BY <2>2, SelectedKept
  <2>4. Running' => ~ctxDone /\ Running
    BY <2>2 DEF Running
  <2>5. ~ctxDone => \A r \in Rows : Sent(r)' <=> Sent(r)
    BY <2>1, <2>2, TakeMoves DEF Base
  <2> QED BY <2>2, <2>3, <2>4, <2>5 DEF OffsetOrder
<1>4. CASE UNCHANGED vars
  <2>1. UNCHANGED <<time, reading, source, start, end, scans, changed, smooth, phase, ctxDone, taken, out>>
    BY <1>4 DEF vars, tableVars, runVars, bookVars
  <2>2. Orders(Selected)' = Orders(Selected)
    BY <2>1, SelectedKept
  <2>3. \A r \in Rows : Sent(r)' <=> Sent(r)
    BY <2>1 DEF Sent, InOut
  <2> QED BY <2>1, <2>2, <2>3 DEF OffsetOrder, Running
<1>5. ASSUME NEW i \in DOMAIN scans, FailStep(i) \/ EndStep(i) PROVE OffsetOrder'
  <2>1. UNCHANGED <<time, reading, source, start, end, changed, smooth, phase, ctxDone, taken, out>>
    BY <1>5 DEF FailStep, EndStep, ScanFrame, scanFrame, tableVars
  <2>2. Orders(Selected)' = Orders(Selected)
    BY <2>1, SelectedKept
  <2>3. \A r \in Rows : Sent(r)' <=> Sent(r)
    BY <2>1 DEF Sent, InOut
  <2>4. /\ DOMAIN scans' = DOMAIN scans /\ \A j \in DOMAIN scans : j # i => scans'[j] = scans[j]
        /\ scans'[i].sent = scans[i].sent
        /\ \/ scans'[i].pc = "ended"
           \/ scans'[i].page = scans[i].page /\ scans[i].pc # "ended"
    BY <1>5 DEF FailStep, EndStep, FailsScan, EndsPage, OnlyScan
  <2>5. ASSUME NEW j \in DOMAIN scans', scans'[j].sent + Len(scans'[j].page) > 0, scans'[j].pc # "ended"
        PROVE  /\ j \in DOMAIN scans /\ scans[j].pc # "ended"
               /\ scans'[j].sent = scans[j].sent /\ scans'[j].page = scans[j].page
    BY <2>4, <2>5
  <2> QED BY <2>1, <2>2, <2>3, <2>5 DEF OffsetOrder, Running
<1>6. ASSUME NEW r \in Rows, Write(r) PROVE OffsetOrder'
  <2>1. changed' # {}
    BY <1>6, WriteIs DEF Base
  <2> QED BY <2>1 DEF OffsetOrder
<1> QED BY <1>1, <1>2, <1>3, <1>4, <1>5, <1>6, StepCases, OffsetSend, OffsetFetched

------------------------------------------------------------------------------
\* No row is in two places

(* What a statement reads was not read before.                              *)
LEMMA FetchApart ==
  ASSUME Base, OffsetOrder, Apart, NEW i \in DOMAIN scans, NEW page \in Seq(Rows), NEW more \in BOOLEAN,
         FetchStep(i, page, more), ~ctxDone, reading.pages = "offset" => smooth',
         NEW k \in DOMAIN page
  PROVE  ~Sent(page[k]) /\ \A j \in DOMAIN scans : ~InPage(j, page[k])
<1> DEFINE r == page[k]
<1>0. /\ r \in Rows /\ scans[i].pc = "query" /\ scans[i].page = <<>> /\ DOMAIN <<>> = {} /\ Scans /\ Typed
      /\ DOMAIN page = 1..Len(page) /\ Len(page) \in Nat
  BY DEF FetchStep, Base, Scans
<1>1. CASE reading.pages = "offset"
  <2>1. PICK rows \in Orders(Selected) :
           /\ rows \in Seq(Rows) /\ DOMAIN rows = 1..Len(rows) /\ Len(rows) \in Nat
           /\ \A l, m \in DOMAIN rows : rows[l] = rows[m] => l = m
           /\ \A q \in Selected : \E l \in DOMAIN rows : rows[l] = q
           /\ scans[i].sent + Len(page) <= Len(rows)
           /\ \A q \in Rows : Sent(q) <=> \E l \in 1..scans[i].sent : rows[l] = q
           /\ \A l \in DOMAIN page : scans[i].sent + l \in DOMAIN rows /\ page[l] = rows[scans[i].sent + l]
           /\ more \/ \A p \in DOMAIN rows : p > scans[i].sent =>
                          p - scans[i].sent \in DOMAIN page /\ page[p - scans[i].sent] = rows[p]
    <3>1. OneOrderCut(i, page, more)
      BY <1>1, OffsetFetch
    <3> HIDE DEF r
    <3> QED BY <3>1 DEF OneOrderCut
  <2>2. ~Sent(r)
    <3> SUFFICES ASSUME Sent(r) PROVE FALSE
      OBVIOUS
    <3>1. PICK l \in 1..scans[i].sent : rows[l] = r
      BY <1>0, <2>1
    <3>2. scans[i].sent \in Nat /\ k \in Nat /\ k > 0
      BY <1>0, ScanIs
    <3>3. l \in DOMAIN rows /\ scans[i].sent + k \in DOMAIN rows /\ rows[scans[i].sent + k] = r
      BY <1>0, <2>1, <3>1, <3>2
    <3>4. l = scans[i].sent + k
      BY <2>1, <3>1, <3>3
    <3> QED BY <3>1, <3>2, <3>4
  <2>3. DOMAIN scans = {i} /\ ~InPage(i, r)
    BY <1>0, <1>1, OnlyOne DEF InPage
  <2> QED BY <2>2, <2>3
<1>2. CASE reading.pages \in {"keyset", "server"}
  <2>1. r > scans[i].last
    BY <1>2 DEF FetchStep, CursorPage
  <2>2. ToCome(i, r)
    BY <1>0, <1>2, <2>1 DEF ToCome
  <2> QED BY <1>0, <2>2 DEF Apart
<1>3. CASE reading.pages = "ranges"
  <2>1. r \in scans[i].lo..scans[i].hi
    BY <1>3 DEF FetchStep, WholePage
  <2>2. ToCome(i, r)
    BY <1>0, <1>3, <2>1 DEF ToCome
  <2> QED BY <1>0, <2>2 DEF Apart
<1>4. CASE reading.pages = "one"
  <2>2. ToCome(i, r)
    BY <1>0, <1>4 DEF ToCome
  <2> QED BY <1>0, <2>2 DEF Apart
<1> QED BY <1>0, <1>1, <1>2, <1>3, <1>4 DEF Scans

LEMMA ApartFetch ==
  ASSUME Base, Base', OffsetOrder, Apart, NEW i \in DOMAIN scans, NEW page \in Seq(Rows), NEW more \in BOOLEAN,
         FetchStep(i, page, more), ~ctxDone, reading.pages = "offset" => smooth'
  PROVE  Apart'
<1>1. /\ FetchesScan(i, page, more) /\ Typed /\ Scans /\ scans[i].pc = "query" /\ OnlyScan(i)
      /\ UNCHANGED <<taken, fresh, out, time, reading>> /\ DOMAIN scans' = DOMAIN scans
      /\ PageOf(i, page, more)
  BY DEF FetchStep, ScanFrame, scanFrame, tableVars, Base, FetchesScan, OnlyScan
<1>2. \A r \in Rows :
        /\ ~InPage(i, r) /\ (InPage(i, r)' <=> \E k \in DOMAIN page : page[k] = r)
        /\ (Sent(r)' <=> Sent(r)) /\ (InOut(r)' <=> InOut(r))
  BY <1>1, FetchMoves
<1>3. \A r \in Rows, j \in DOMAIN scans : j # i =>
        (InPage(j, r)' <=> InPage(j, r)) /\ (ToCome(j, r)' <=> ToCome(j, r))
  BY <1>1, <1>2, OtherScan
<1>4. \A r \in Rows : InPage(i, r)' => ~Sent(r) /\ \A j \in DOMAIN scans : ~InPage(j, r)
  <2>1. \A k \in DOMAIN page : ~Sent(page[k]) /\ \A j \in DOMAIN scans : ~InPage(j, page[k])
    BY FetchApart
  <2> QED BY <1>2, <2>1
<1>5. ASSUME NEW r \in Rows, ToCome(i, r)' PROVE ~Sent(r) /\ \A j \in DOMAIN scans : ~InPage(j, r)'
  <2>1. /\ scans'[i].pc = "emit" /\ scans'[i].more = more /\ scans'[i].last = scans[i].last
        /\ DOMAIN scans'[i].page = DOMAIN page
        /\ \A k \in DOMAIN page : scans'[i].page[k].row = page[k] /\ page[k] \in Nat
    <3>1. \A k \in DOMAIN page : page[k] \in Nat
      <4>1. \A k \in DOMAIN page : page[k] \in Rows
        OBVIOUS
      <4> QED BY <4>1, ExtractAssumption
    <3> QED BY <1>1, <3>1 DEF FetchesScan
  <2>2. CASE reading.pages = "offset"
    <3>1. ~Sent(r)' /\ ~InPage(i, r)' /\ DOMAIN scans = {i}
      BY <1>1, <1>5, <2>2, OnlyOne DEF ToCome
    <3> QED BY <1>2, <3>1
  <2>3. CASE reading.pages \in {"keyset", "server"}
    <3>1. r > scans[i].last /\ more /\ \A k \in DOMAIN page : r > page[k]
      BY <1>1, <1>5, <2>1, <2>3 DEF ToCome
    <3>2. ToCome(i, r)
      <4>1. scans[i].page = <<>> /\ DOMAIN <<>> = {}
        BY <1>1 DEF Scans
      <4> QED BY <1>1, <2>3, <3>1, <4>1 DEF ToCome
    <3>3. ~Sent(r) /\ \A j \in DOMAIN scans : ~InPage(j, r)
      BY <3>2 DEF Apart
    <3>4. ~InPage(i, r)'
      <4> SUFFICES ASSUME NEW k \in DOMAIN page, page[k] = r PROVE FALSE
        BY <1>2
      <4>1. r > r /\ r \in Nat
        BY <2>1, <3>1
      <4> QED BY <4>1
    <3> QED BY <1>3, <3>3, <3>4
  <2>4. CASE reading.pages \in {"ranges", "one"}
    <3>1. ~more
      BY <2>4 DEF FetchStep, WholePage
    <3> QED BY <1>5, <2>1, <3>1 DEF ToCome
  <2> QED BY <1>1, <2>2, <2>3, <2>4 DEF Scans
<1>6. ASSUME NEW j \in DOMAIN scans, NEW r \in Rows, j # i
      PROVE  /\ InPage(j, r) => ~InPage(i, r)'
             /\ ToCome(j, r) => ~InPage(i, r)'
  <2>1. InPage(j, r) => ~InPage(i, r)'
    BY <1>4
  <2>2. ASSUME ToCome(j, r), InPage(i, r)' PROVE FALSE
    <3>1. reading.pages = "ranges"
      BY <1>6, OnlyOne
    <3>2. r \in scans[j].lo..scans[j].hi
      BY <2>2, <3>1 DEF ToCome
    <3>3. PICK k \in DOMAIN page : page[k] = r
      BY <1>2, <2>2
    <3>4. page[k] \in scans[i].lo..scans[i].hi
      BY <3>1 DEF FetchStep, WholePage
    <3> QED BY <1>1, <1>6, <3>1, <3>2, <3>3, <3>4 DEF Scans
  <2> QED BY <2>1, <2>2
<1>7. \A j \in DOMAIN scans : \A k, m \in DOMAIN scans'[j].page :
        scans'[j].page[k].row = scans'[j].page[m].row => k = m
  <2> SUFFICES ASSUME NEW j \in DOMAIN scans, NEW k \in DOMAIN scans'[j].page, NEW m \in DOMAIN scans'[j].page,
                      scans'[j].page[k].row = scans'[j].page[m].row
               PROVE  k = m
    OBVIOUS
  <2>1. CASE j = i
    <3>1. DOMAIN scans'[i].page = DOMAIN page /\ \A l \in DOMAIN page : scans'[i].page[l].row = page[l]
      BY <1>1 DEF FetchesScan
    <3>2. \A l, n \in DOMAIN page : page[l] = page[n] => l = n
      BY <1>1 DEF PageOf
    <3> QED BY <2>1, <3>1, <3>2
  <2>2. CASE j # i
    <3>1. scans'[j] = scans[j]
      BY <1>1, <2>2 DEF OnlyScan
    <3> QED BY <3>1 DEF Apart
  <2> QED BY <2>1, <2>2
<1>8. \A j \in DOMAIN scans : \A r \in Rows :
        /\ InPage(j, r)' => ~Sent(r) /\ \A l \in DOMAIN scans : InPage(l, r)' => j = l
        /\ ToCome(j, r)' => ~Sent(r) /\ \A l \in DOMAIN scans : ~InPage(l, r)'
  <2> SUFFICES ASSUME NEW j \in DOMAIN scans, NEW r \in Rows
               PROVE  /\ InPage(j, r)' => ~Sent(r) /\ \A l \in DOMAIN scans : InPage(l, r)' => j = l
                      /\ ToCome(j, r)' => ~Sent(r) /\ \A l \in DOMAIN scans : ~InPage(l, r)'
    OBVIOUS
  <2>1. CASE j = i
    <3>1. InPage(i, r)' => \A l \in DOMAIN scans : InPage(l, r)' => i = l
      BY <1>3, <1>4
    <3> QED BY <1>4, <1>5, <2>1, <3>1
  <2>2. CASE j # i
    <3>1. (InPage(j, r)' <=> InPage(j, r)) /\ (ToCome(j, r)' <=> ToCome(j, r))
      BY <1>3, <2>2
    <3>2. /\ InPage(j, r) => ~Sent(r) /\ \A l \in DOMAIN scans : InPage(l, r) => j = l
          /\ ToCome(j, r) => ~Sent(r) /\ \A l \in DOMAIN scans : ~InPage(l, r)
      BY DEF Apart
    <3>3. \A l \in DOMAIN scans : l # i => (InPage(l, r)' <=> InPage(l, r))
      BY <1>3
    <3> QED BY <1>6, <2>2, <3>1, <3>2, <3>3
  <2> QED BY <2>1, <2>2
<1>9. \A r \in Rows : (Sent(r)' <=> Sent(r)) /\ (InOut(r)' <=> InOut(r))
  BY <1>2
<1> QED BY <1>1, <1>7, <1>8, <1>9 DEF Apart

LEMMA ApartSend ==
  ASSUME Base, Apart, NEW i \in DOMAIN scans, SendStep(i)
  PROVE  Apart'
<1>1. /\ SendsRow(i) /\ AppendsOut(i) /\ scans[i].pc = "emit" /\ Typed /\ Scans /\ OnlyScan(i)
      /\ UNCHANGED <<taken, fresh, time, reading>> /\ DOMAIN scans' = DOMAIN scans
  BY DEF SendStep, ScanFrame, scanFrame, tableVars, Base, SendsRow, OnlyScan
<1> DEFINE item == scans[i].page[1]
<1>2. \A r \in Rows :
        /\ InOut(r)' <=> InOut(r) \/ r = item.row
        /\ Sent(r)' <=> Sent(r) \/ r = item.row
        /\ InPage(i, r) <=> InPage(i, r)' \/ r = item.row
        /\ ToCome(i, r)' <=> ToCome(i, r)
  BY <1>1, SendMoves
<1>3. item.row \in Rows /\ 1 \in DOMAIN scans[i].page
  BY <1>1, ItemIs
<1>12. PICK c \in Rows : c = item.row
  BY <1>3
<1>4. \A r \in Rows, j \in DOMAIN scans : j # i =>
        (InPage(j, r)' <=> InPage(j, r)) /\ (ToCome(j, r)' <=> ToCome(j, r))
  <2>1. ASSUME NEW r \in Rows, NEW j \in DOMAIN scans, j # i
        PROVE  (InPage(j, r)' <=> InPage(j, r)) /\ (ToCome(j, r)' <=> ToCome(j, r))
    <3>1. reading.pages # "offset"
      BY <2>1, OnlyOne
    <3> QED BY <1>1, <2>1, <3>1, OtherScan
  <2> QED BY <2>1
<1>5. ~Sent(c) /\ \A j \in DOMAIN scans : InPage(j, c) => i = j
  BY <1>2, <1>12 DEF Apart
<1>6. ~InPage(i, c)'
  <2> SUFFICES ASSUME NEW k \in DOMAIN scans'[i].page, scans'[i].page[k].row = c PROVE FALSE
    BY DEF InPage
  <2>1. k + 1 \in DOMAIN scans[i].page /\ scans[i].page[k + 1].row = c /\ k \in Nat /\ k > 0
    BY <1>1 DEF SendsRow
  <2>2. k + 1 = 1
    BY <1>3, <1>12, <2>1 DEF Apart
  <2> QED BY <2>1, <2>2
<1>7. \A j \in DOMAIN scans : \A k, m \in DOMAIN scans'[j].page :
        scans'[j].page[k].row = scans'[j].page[m].row => k = m
  <2> SUFFICES ASSUME NEW j \in DOMAIN scans, NEW k \in DOMAIN scans'[j].page, NEW m \in DOMAIN scans'[j].page,
                      scans'[j].page[k].row = scans'[j].page[m].row
               PROVE  k = m
    OBVIOUS
  <2>1. CASE j = i
    <3>0. k \in DOMAIN scans'[i].page /\ m \in DOMAIN scans'[i].page
          /\ scans'[i].page[k].row = scans'[i].page[m].row
      BY <2>1
    <3>1. /\ k + 1 \in DOMAIN scans[i].page /\ m + 1 \in DOMAIN scans[i].page /\ k \in Nat /\ m \in Nat
          /\ scans[i].page[k + 1].row = scans[i].page[m + 1].row
      <4>1. \A l \in DOMAIN scans'[i].page : l \in Nat /\ l + 1 \in DOMAIN scans[i].page
                                             /\ scans'[i].page[l] = scans[i].page[l + 1]
        BY <1>1 DEF SendsRow
      <4> QED BY <3>0, <4>1
    <3>2. k + 1 = m + 1
      BY <3>1 DEF Apart
    <3> QED BY <3>1, <3>2
  <2>2. CASE j # i
    <3>1. scans'[j] = scans[j]
      BY <1>1, <2>2 DEF OnlyScan
    <3> QED BY <3>1 DEF Apart
  <2> QED BY <2>1, <2>2
<1>8. \A k, m \in DOMAIN out' : out'[k].row = out'[m].row => k = m
  <2>1. \A k \in DOMAIN out' : \/ k \in DOMAIN out /\ out'[k] = out[k] /\ out[k].row # c
                               \/ k = Len(out) + 1 /\ out'[k].row = c
    <3>1. \A k \in DOMAIN out : out[k].row # c
      BY <1>5 DEF Sent, InOut
    <3> QED BY <1>1, <1>12, <3>1 DEF AppendsOut
  <2> QED BY <2>1 DEF Apart
<1>9. \A r \in Rows : taken[r] <= 1 /\ (taken[r] = 1 => ~InOut(r)')
  <2>1. ~(taken[c] > 0)
    BY <1>5 DEF Sent
  <2> QED BY <1>2, <1>12, <2>1 DEF Apart
<1>10. \A j \in DOMAIN scans : \A r \in Rows :
         /\ InPage(j, r)' => InPage(j, r) /\ r # c
         /\ ToCome(j, r)' => ToCome(j, r) /\ r # c
  <2> SUFFICES ASSUME NEW j \in DOMAIN scans, NEW r \in Rows
               PROVE  /\ InPage(j, r)' => InPage(j, r) /\ r # c
                      /\ ToCome(j, r)' => ToCome(j, r) /\ r # c
    OBVIOUS
  <2>1. InPage(j, r)' => InPage(j, r)
    BY <1>2, <1>4
  <2>2. ToCome(j, r)' => ToCome(j, r)
    BY <1>2, <1>4
  <2>3. InPage(i, c)
    BY <1>2, <1>12
  <2>4. ToCome(j, r) => r # c
    BY <2>3 DEF Apart
  <2>5. InPage(j, r)' => r # c
    BY <1>5, <1>6, <2>1
  <2> QED BY <2>1, <2>2, <2>4, <2>5
<1>11. \A j \in DOMAIN scans : \A r \in Rows :
         /\ InPage(j, r)' => ~Sent(r)' /\ \A l \in DOMAIN scans : InPage(l, r)' => j = l
         /\ ToCome(j, r)' => ~Sent(r)' /\ \A l \in DOMAIN scans : ~InPage(l, r)'
  <2> SUFFICES ASSUME NEW j \in DOMAIN scans, NEW r \in Rows
               PROVE  /\ InPage(j, r)' => ~Sent(r)' /\ \A l \in DOMAIN scans : InPage(l, r)' => j = l
                      /\ ToCome(j, r)' => ~Sent(r)' /\ \A l \in DOMAIN scans : ~InPage(l, r)'
    OBVIOUS
  <2>1. /\ InPage(j, r) => ~Sent(r) /\ \A l \in DOMAIN scans : InPage(l, r) => j = l
        /\ ToCome(j, r) => ~Sent(r) /\ \A l \in DOMAIN scans : ~InPage(l, r)
    BY DEF Apart
  <2>2. Sent(r)' => Sent(r) \/ r = c
    BY <1>2, <1>12
  <2> QED BY <1>10, <2>1, <2>2
<1> QED BY <1>1, <1>7, <1>8, <1>9, <1>11 DEF Apart

LEMMA ApartTake ==
  ASSUME Base, Apart, Take, ~ctxDone
  PROVE  Apart'
<1>1. TakesHead /\ UNCHANGED <<time, reading, scans>> /\ Typed /\ 1 \in DOMAIN out
  BY TakeIs DEF Base, takeFrame, tableVars, TakesHead
<1>0. PICK h \in Rows : h = out[1].row
  BY <1>1, OutIs
<1>2. /\ h \in Rows
      /\ \A r \in Rows :
           /\ InOut(r) <=> InOut(r)' \/ r = h
           /\ taken'[r] = IF r = h THEN taken[r] + 1 ELSE taken[r]
           /\ Sent(r)' <=> Sent(r)
           /\ \A i \in DOMAIN scans :
                /\ InPage(i, r)' <=> InPage(i, r)
                /\ ToCome(i, r)' <=> ToCome(i, r)
  BY <1>0, <1>1, TakeMoves
<1>3. \A k \in DOMAIN out' : k + 1 \in DOMAIN out /\ out'[k] = out[k + 1] /\ k \in Nat /\ k > 0
  BY <1>1 DEF TakesHead
<1>4. \A k, m \in DOMAIN out' : out'[k].row = out'[m].row => k = m
  <2> SUFFICES ASSUME NEW k \in DOMAIN out', NEW m \in DOMAIN out', out'[k].row = out'[m].row PROVE k = m
    OBVIOUS
  <2>1. k + 1 = m + 1
    BY <1>3 DEF Apart
  <2> QED BY <1>3, <2>1
<1>5. ~InOut(h)'
  <2> SUFFICES ASSUME NEW k \in DOMAIN out', out'[k].row = h PROVE FALSE
    BY DEF InOut
  <2>1. k + 1 = 1
    BY <1>0, <1>1, <1>3 DEF Apart
  <2> QED BY <1>3, <2>1
<1>6. \A r \in Rows : taken'[r] <= 1 /\ (taken'[r] = 1 => ~InOut(r)')
  <2> SUFFICES ASSUME NEW r \in Rows PROVE taken'[r] <= 1 /\ (taken'[r] = 1 => ~InOut(r)')
    OBVIOUS
  <2>1. taken[r] \in Nat /\ taken[r] <= 1 /\ (taken[r] = 1 => ~InOut(r))
    BY DEF Base, Typed, Apart
  <2>2. CASE r = h
    <3>1. InOut(r)
      BY <1>2, <2>2
    <3> QED BY <1>2, <1>5, <2>1, <2>2, <3>1
  <2>3. CASE r # h
    BY <1>2, <2>1, <2>3
  <2> QED BY <2>2, <2>3
<1>7. \A i \in DOMAIN scans : \A r \in Rows :
         /\ InPage(i, r)' => ~Sent(r)' /\ \A j \in DOMAIN scans : InPage(j, r)' => i = j
         /\ ToCome(i, r)' => ~Sent(r)' /\ \A j \in DOMAIN scans : ~InPage(j, r)'
  BY <1>2 DEF Apart
<1> QED BY <1>1, <1>4, <1>6, <1>7 DEF Apart

LEMMA ApartEnd ==
  ASSUME Base, Apart, NEW i \in DOMAIN scans, FailStep(i) \/ EndStep(i)
  PROVE  Apart'
<1>1. /\ Typed /\ Scans /\ OnlyScan(i) /\ DOMAIN scans' = DOMAIN scans /\ scans'[i].page = <<>> /\ DOMAIN <<>> = {}
      /\ UNCHANGED <<taken, fresh, time, reading, out>> /\ (FailsScan(i) \/ EndsPage(i))
  BY DEF FailStep, EndStep, FailsScan, EndsPage, ScanFrame, scanFrame, tableVars, Base, OnlyScan
<1>2. \A r : (Sent(r)' <=> Sent(r)) /\ (InOut(r)' <=> InOut(r))
  BY <1>1 DEF Sent, InOut
<1>3. \A r \in Rows : ~InPage(i, r)' /\ (ToCome(i, r)' => ToCome(i, r))
  <2>1. FailsScan(i) => \A r \in Rows : ~InPage(i, r)' /\ ~ToCome(i, r)'
    BY FailMoves
  <2>2. EndsPage(i) => \A r \in Rows : ~InPage(i, r)' /\ (ToCome(i, r)' => ToCome(i, r))
    <3> SUFFICES ASSUME EndsPage(i), NEW r \in Rows PROVE ~InPage(i, r)' /\ (ToCome(i, r)' => ToCome(i, r))
      OBVIOUS
    <3> QED BY <1>1, EndMoves
  <2> QED BY <1>1, <2>1, <2>2
<1>4. \A r \in Rows, j \in DOMAIN scans : j # i =>
        (InPage(j, r)' <=> InPage(j, r)) /\ (ToCome(j, r)' <=> ToCome(j, r))
  BY <1>1, <1>2, OtherScan
<1>5. \A j \in DOMAIN scans : \A k, m \in DOMAIN scans'[j].page :
        scans'[j].page[k].row = scans'[j].page[m].row => k = m
  BY <1>1 DEF Apart, OnlyScan
<1>6. \A j \in DOMAIN scans : \A r \in Rows :
         /\ InPage(j, r)' => InPage(j, r)
         /\ ToCome(j, r)' => ToCome(j, r)
  BY <1>3, <1>4
<1>7. \A j \in DOMAIN scans : \A r \in Rows :
         /\ InPage(j, r)' => ~Sent(r)' /\ \A l \in DOMAIN scans : InPage(l, r)' => j = l
         /\ ToCome(j, r)' => ~Sent(r)' /\ \A l \in DOMAIN scans : ~InPage(l, r)'
  BY <1>2, <1>6 DEF Apart
<1> QED BY <1>1, <1>2, <1>5, <1>7 DEF Apart

LEMMA UniqueStep ==
  ASSUME Base, Base', OffsetOrder, Unique, [Next]_vars
  PROVE  Unique'
<1> SUFFICES ASSUME Running', reading'.pages = "offset" => smooth' PROVE Apart'
  BY DEF Unique
<1>0. DOMAIN <<>> = {}
  OBVIOUS
<1>1. CASE Begin \/ Finish \/ EndContext
  BY <1>1 DEF Begin, Finish, EndContext, Running
<1>2. CASE StartsScans
  <2>1. /\ UNCHANGED <<taken, out>> /\ phase = "plan" /\ scans = <<>>
        /\ \A i \in DOMAIN scans' : scans'[i].page = <<>>
    BY <1>2 DEF StartsScans, startFrame, Base, Phases
  <2>2. \A i \in DOMAIN scans : scans[i].sent = 0
    BY <1>0, <2>1
  <2>3. \A r \in Rows : ~Sent(r) /\ taken[r] = 0 /\ out = <<>>
    BY <2>1, <2>2, NothingSent
  <2>4. out = <<>>
    BY <2>3, ExtractAssumption
  <2>5. \A r \in Rows : ~Sent(r)' /\ ~InOut(r)'
    BY <1>0, <2>1, <2>3, <2>4 DEF Sent, InOut
  <2>6. \A i \in DOMAIN scans' : \A r : ~InPage(i, r)'
    BY <1>0, <2>1 DEF InPage
  <2>7. \A r \in Rows : taken'[r] <= 1
    BY <2>1, <2>3
  <2> QED BY <1>0, <2>1, <2>4, <2>5, <2>6, <2>7 DEF Apart
<1>3. CASE Take
  <2>1. UNCHANGED <<phase, ctxDone, reading, smooth>> /\ phase = "extract"
    BY <1>3 DEF Take
  <2>2. ~ctxDone /\ Apart
    BY <2>1 DEF Running, Unique
  <2> QED BY <1>3, <2>2, ApartTake
<1>4. CASE Return
  <2>1. UNCHANGED <<ctxDone, reading, smooth, taken>> /\ phase = "extract" /\ scans' = <<>> /\ out' = <<>>
    BY <1>4 DEF Return, bookVars
  <2>2. Apart
    BY <2>1 DEF Running, Unique
  <2>3. \A r \in Rows : ~InOut(r)'
    BY <1>0, <2>1 DEF InOut
  <2> QED BY <1>0, <2>1, <2>2, <2>3 DEF Apart
<1>5. CASE UNCHANGED vars
  <2>1. UNCHANGED <<phase, ctxDone, reading, smooth, taken, out, scans>>
    BY <1>5 DEF vars, runVars, bookVars
  <2>2. Apart
    BY <2>1 DEF Running, Unique
  <2>3. \A r : (Sent(r)' <=> Sent(r)) /\ (InOut(r)' <=> InOut(r))
    BY <2>1 DEF Sent, InOut
  <2>4. \A r : \A i \in DOMAIN scans : (InPage(i, r)' <=> InPage(i, r)) /\ (ToCome(i, r)' <=> ToCome(i, r))
    BY <2>1, <2>3 DEF InPage, ToCome
  <2> QED BY <2>1, <2>2, <2>3, <2>4 DEF Apart
<1>6. ASSUME NEW r \in Rows, Write(r) PROVE Apart'
  <2>1. UNCHANGED <<phase, ctxDone, reading, smooth, taken, out, scans>>
    BY <1>6 DEF Write, runVars
  <2>2. Apart
    BY <2>1 DEF Running, Unique
  <2>3. \A q : (Sent(q)' <=> Sent(q)) /\ (InOut(q)' <=> InOut(q))
    BY <2>1 DEF Sent, InOut
  <2>4. \A q : \A i \in DOMAIN scans : (InPage(i, q)' <=> InPage(i, q)) /\ (ToCome(i, q)' <=> ToCome(i, q))
    BY <2>1, <2>3 DEF InPage, ToCome
  <2> QED BY <2>1, <2>2, <2>3, <2>4 DEF Apart
<1>7. ASSUME NEW i \in DOMAIN scans,
             \/ FailStep(i) \/ EndStep(i) \/ SendStep(i)
             \/ \E page \in Seq(Rows), more \in BOOLEAN : FetchStep(i, page, more)
      PROVE  Apart'
  <2>1. UNCHANGED <<phase, ctxDone, reading>> /\ phase = "extract" /\ (smooth' => smooth)
    BY <1>7 DEF FailStep, EndStep, SendStep, FetchStep, ScanFrame, scanFrame
  <2>2. Apart /\ ~ctxDone
    BY <2>1 DEF Running, Unique
  <2>3. CASE FailStep(i) \/ EndStep(i)
    BY <2>2, <2>3, ApartEnd
  <2>4. CASE SendStep(i)
    BY <2>2, <2>4, ApartSend
  <2>5. ASSUME NEW page \in Seq(Rows), NEW more \in BOOLEAN, FetchStep(i, page, more) PROVE Apart'
    BY <2>1, <2>2, <2>5, ApartFetch
  <2> QED BY <1>7, <2>3, <2>4, <2>5
<1> QED BY <1>1, <1>2, <1>3, <1>4, <1>5, <1>6, <1>7, StepCases

------------------------------------------------------------------------------
\* Counts

(* A page has no more rows than the table.                                  *)
LEMMA PageLength ==
  ASSUME NEW page \in Seq(Rows), \A k, m \in DOMAIN page : page[k] = page[m] => k = m
  PROVE  Len(page) \in Nat /\ Len(page) <= Cardinality(Rows)
<1> DEFINE n == Len(page)
<1>1. n \in Nat /\ DOMAIN page = 1..n /\ page \in [1..n -> Rows]
  OBVIOUS
<1>2. page \in Injection(1..n, Rows)
  BY <1>1 DEF Injection, IsInjective
<1>3. IsFiniteSet(1..n) /\ Cardinality(1..n) = n
  BY <1>1, FS_Interval
<1>4. IsFiniteSet(Rows)
  BY ExtractAssumption
<1> HIDE DEF n
<1>5. Cardinality(1..n) <= Cardinality(Rows)
  BY <1>2, <1>3, <1>4, FS_Injection
<1> QED BY <1>1, <1>3, <1>5 DEF n

(* The cursor moves on by a row at least.                                   *)
KeysUpTo(n) == {q \in Rows : q <= n}
LEMMA OneMore ==
  ASSUME NEW n \in Nat, NEW r \in Rows, r > n
  PROVE  Cardinality(KeysUpTo(n)) + 1 <= Cardinality(KeysUpTo(r))
         /\ Cardinality(KeysUpTo(r)) \in Nat /\ Cardinality(KeysUpTo(n)) \in Nat
<1>1. \A q \in Rows : q \in Nat
  BY ExtractAssumption
<1>2. KeysUpTo(n) \subseteq Rows /\ KeysUpTo(r) \subseteq Rows
  BY DEF KeysUpTo
<1>3. /\ IsFiniteSet(KeysUpTo(n)) /\ IsFiniteSet(KeysUpTo(r))
      /\ Cardinality(KeysUpTo(n)) \in Nat /\ Cardinality(KeysUpTo(r)) \in Nat
  BY <1>2, Finite
<1>4. r \notin KeysUpTo(n) /\ KeysUpTo(n) \cup {r} \subseteq KeysUpTo(r)
  <2>1. r \in Nat /\ ~(r <= n)
    BY <1>1
  <2>2. \A q \in Rows : q <= n => q <= r
    BY <1>1, <2>1
  <2>3. r <= r
    BY <2>1
  <2>4. KeysUpTo(n) \subseteq KeysUpTo(r) /\ r \in KeysUpTo(r)
    BY <2>2, <2>3 DEF KeysUpTo
  <2>5. r \notin KeysUpTo(n)
    BY <2>1 DEF KeysUpTo
  <2> QED BY <2>4, <2>5
<1>5. IsFiniteSet(KeysUpTo(n) \cup {r}) /\ Cardinality(KeysUpTo(n) \cup {r}) = Cardinality(KeysUpTo(n)) + 1
  BY <1>3, <1>4, FS_AddElement
<1>6. Cardinality(KeysUpTo(n) \cup {r}) <= Cardinality(KeysUpTo(r))
  BY <1>3, <1>4, FS_Subset
<1> QED BY <1>3, <1>5, <1>6

(* What Counts says of one scan.                                            *)
ScanCounts(i) ==
  IF reading.pages \in {"keyset", "server"}
    THEN scans[i].sent <= Cardinality(KeysUpTo(scans[i].last)) /\ scans[i].last \in Rows \cup {0}
    ELSE scans[i].sent + Len(scans[i].page) <= Cardinality(Rows) /\ scans[i].last \in Rows \cup {0}
OffsetCounts ==
  \A i \in DOMAIN scans : reading.pages = "offset" => \A r \in Rows : taken[r] + Len(out) <= scans[i].sent
TakenCounts ==
  \A r \in Rows : taken[r] <= IF reading.pages = "offset" THEN Cardinality(Rows) ELSE 1

LEMMA CountsAre ==
  Counts <=> /\ \A i \in DOMAIN scans : ScanCounts(i)
             /\ OffsetCounts /\ TakenCounts /\ Len(out) <= Capacity
BY DEF Counts, ScanCounts, OffsetCounts, TakenCounts, KeysUpTo

LEMMA CountsTake ==
  ASSUME Base, Unique, Counts, Take
  PROVE  Counts'
<1>1. TakesHead /\ phase = "extract" /\ UNCHANGED takeFrame /\ Typed
  BY TakeIs DEF Base
<1>2. UNCHANGED <<reading, scans>> /\ out' \in Seq(OutItem) /\ Len(out) > 0 /\ Len(out') = Len(out) - 1
      /\ Len(out) \in Nat /\ 1 \in DOMAIN out
  BY <1>1, OutIs DEF takeFrame, TakesHead
<1>3. \A i \in DOMAIN scans' : ScanCounts(i)'
  BY <1>2 DEF ScanCounts, Counts, KeysUpTo
<1>4. Capacity \in Nat /\ Len(out') <= Capacity
  BY <1>2, ExtractAssumption DEF Counts
<1>5. \A r \in Rows : taken[r] \in Nat
  BY <1>1 DEF Typed
<1>6. CASE ctxDone
  <2>1. UNCHANGED taken
    BY <1>1, <1>6 DEF TakesHead
  <2>2. \A i \in DOMAIN scans : scans[i].sent \in Nat
    BY <1>1, ScanIs
  <2>3. OffsetCounts'
    BY <1>2, <1>5, <2>1, <2>2 DEF OffsetCounts, Counts
  <2>4. TakenCounts'
    BY <1>2, <2>1 DEF TakenCounts, Counts
  <2> QED BY <1>3, <1>4, <2>3, <2>4, CountsAre DEF Counts, ScanCounts, OffsetCounts, TakenCounts, KeysUpTo
<1>7. CASE ~ctxDone
  <2>0. PICK h \in Rows : h = out[1].row
    BY <1>1, <1>2, OutIs
  <2>1. \A r \in Rows : taken'[r] = IF r = h THEN taken[r] + 1 ELSE taken[r]
    BY <1>1, <1>2, <1>7, <2>0, TakeMoves DEF takeFrame, tableVars
  <2>2. \A i \in DOMAIN scans : scans[i].sent \in Nat
    BY <1>1, ScanIs
  <2>3. OffsetCounts'
    <3> SUFFICES ASSUME NEW i \in DOMAIN scans, reading.pages = "offset", NEW r \in Rows
                 PROVE  taken'[r] + Len(out') <= scans[i].sent
      BY <1>2 DEF OffsetCounts
    <3>1. taken[r] + Len(out) <= scans[i].sent
      BY DEF Counts
    <3> QED BY <1>2, <1>5, <2>1, <2>2, <3>1
  <2>4. TakenCounts'
    <3> SUFFICES ASSUME NEW r \in Rows
                 PROVE  taken'[r] <= IF reading.pages = "offset" THEN Cardinality(Rows) ELSE 1
      BY <1>2 DEF TakenCounts
    <3>1. CASE reading.pages = "offset"
      <4>1. PICK i \in DOMAIN scans : TRUE
        <5>1. DOMAIN scans = {} => out = <<>>
          BY <1>1, NothingSent
        <5>2. out # <<>>
          BY <1>2
        <5> QED BY <5>1, <5>2
      <4>2. taken[r] + Len(out) <= scans[i].sent /\ scans[i].sent + Len(scans[i].page) <= Cardinality(Rows)
        BY <3>1 DEF Counts
      <4>3. Len(scans[i].page) \in Nat /\ Cardinality(Rows) \in Nat
        BY <1>1, ScanIs, Finite
      <4> QED BY <1>2, <1>5, <2>1, <2>2, <3>1, <4>2, <4>3
    <3>2. CASE reading.pages # "offset"
      <4>1. Apart
        BY <1>1, <1>7, <3>2 DEF Unique, Running
      <4>2. taken[r] <= 1 /\ (taken[r] = 1 => ~InOut(r))
        BY <4>1 DEF Apart
      <4>3. r = h => InOut(r)
        BY <1>2, <2>0 DEF InOut
      <4> QED BY <1>5, <2>1, <3>2, <4>2, <4>3
    <3> QED BY <3>1, <3>2
  <2> QED BY <1>3, <1>4, <2>3, <2>4, CountsAre DEF Counts, ScanCounts, OffsetCounts, TakenCounts, KeysUpTo
<1> QED BY <1>6, <1>7

LEMMA CountsSend ==
  ASSUME Base, Counts, NEW i \in DOMAIN scans, SendStep(i)
  PROVE  Counts'
<1>1. /\ Typed /\ Scans /\ SendsRow(i) /\ AppendsOut(i) /\ UNCHANGED <<taken, reading>>
  BY DEF Base, SendStep, ScanFrame, scanFrame
<1>2. /\ DOMAIN scans' = DOMAIN scans /\ \A j \in DOMAIN scans : j # i => scans'[j] = scans[j]
      /\ scans'[i].last = scans[i].page[1].row /\ scans'[i].sent = scans[i].sent + 1
      /\ Len(scans'[i].page) = Len(scans[i].page) - 1
      /\ Len(out') = Len(out) + 1 /\ Len(out) < Capacity
  BY <1>1 DEF SendsRow, AppendsOut, OnlyScan
<1>3. PICK h \in Rows : h = scans[i].page[1].row /\ 1 \in DOMAIN scans[i].page
  BY <1>1, ItemIs
<1>4. /\ scans[i].sent \in Nat /\ scans[i].last \in Nat /\ Len(scans[i].page) \in Nat
      /\ Len(out) \in Nat /\ Cardinality(Rows) \in Nat /\ Capacity \in Nat
  BY <1>1, ScanIs, OutIs, Finite, ExtractAssumption
<1>5. ScanCounts(i)'
  <2>1. CASE reading.pages \in {"keyset", "server"}
    <3>1. h > scans[i].last
      BY <1>1, <1>3, <2>1 DEF Scans
    <3>2. /\ Cardinality(KeysUpTo(scans[i].last)) + 1 <= Cardinality(KeysUpTo(h))
          /\ Cardinality(KeysUpTo(scans[i].last)) \in Nat /\ Cardinality(KeysUpTo(h)) \in Nat
      BY <1>4, <3>1, OneMore
    <3>3. scans[i].sent <= Cardinality(KeysUpTo(scans[i].last))
      BY <2>1 DEF Counts, KeysUpTo
    <3>4. scans[i].sent + 1 <= Cardinality(KeysUpTo(h))
      BY <1>4, <3>2, <3>3
    <3>5. scans'[i].sent <= Cardinality(KeysUpTo(scans'[i].last)) /\ scans'[i].last \in Rows \cup {0}
      BY <1>2, <1>3, <3>4
    <3>6. KeysUpTo(scans[i].last)' = KeysUpTo(scans'[i].last)
      BY DEF KeysUpTo
    <3> QED BY <1>1, <2>1, <3>5, <3>6 DEF ScanCounts
  <2>2. CASE reading.pages \notin {"keyset", "server"}
    <3>1. scans[i].sent + Len(scans[i].page) <= Cardinality(Rows)
      BY <2>2 DEF Counts
    <3> QED BY <1>1, <1>2, <1>3, <1>4, <2>2, <3>1 DEF ScanCounts
  <2> QED BY <2>1, <2>2
<1>6. \A j \in DOMAIN scans' : ScanCounts(j)'
  <2>1. ASSUME NEW j \in DOMAIN scans, j # i PROVE ScanCounts(j)'
    <3>1. ScanCounts(j)
      BY CountsAre
    <3> QED BY <1>1, <1>2, <2>1, <3>1 DEF ScanCounts, KeysUpTo
  <2> QED BY <1>2, <1>5, <2>1
<1>7. OffsetCounts'
  <2> SUFFICES ASSUME NEW j \in DOMAIN scans, reading.pages = "offset", NEW r \in Rows
               PROVE  taken[r] + Len(out') <= scans'[j].sent
    BY <1>1, <1>2 DEF OffsetCounts
  <2>1. j = i
    BY OnlyOne
  <2>2. taken[r] + Len(out) <= scans[i].sent /\ taken[r] \in Nat
    BY <1>1 DEF Counts, Typed
  <2> QED BY <1>2, <1>4, <2>1, <2>2
<1>8. TakenCounts' /\ Len(out') <= Capacity
  BY <1>1, <1>2, <1>4 DEF Counts, TakenCounts
<1> QED BY <1>6, <1>7, <1>8 DEF Counts, ScanCounts, OffsetCounts, TakenCounts, KeysUpTo

LEMMA CountsFetch ==
  ASSUME Base, Counts, NEW i \in DOMAIN scans, NEW page \in Seq(Rows), NEW more \in BOOLEAN,
         FetchStep(i, page, more)
  PROVE  Counts'
<1>1. /\ Typed /\ Scans /\ FetchesScan(i, page, more) /\ UNCHANGED <<taken, reading, out>>
      /\ scans[i].pc = "query" /\ PageOf(i, page, more)
  BY DEF Base, FetchStep, ScanFrame, scanFrame
<1>2. /\ DOMAIN scans' = DOMAIN scans /\ \A j \in DOMAIN scans : j # i => scans'[j] = scans[j]
      /\ scans'[i].last = scans[i].last /\ scans'[i].sent = scans[i].sent
      /\ Len(scans'[i].page) = Len(page)
  BY <1>1 DEF FetchesScan, OnlyScan
<1>3. Len(page) \in Nat /\ Len(page) <= Cardinality(Rows) /\ Cardinality(Rows) \in Nat /\ scans[i].sent \in Nat
  BY <1>1, PageLength, Finite, ScanIs DEF PageOf
<1>4. \A j \in DOMAIN scans : ScanCounts(j)
  BY CountsAre
<1>5. reading.pages \in {"offset", "keyset", "server", "ranges", "one"} /\ scans[i].page = <<>>
  BY <1>1 DEF Scans
<1>6. ScanCounts(i)'
  <2>1. CASE reading.pages \in {"keyset", "server"}
    BY <1>1, <1>2, <1>4, <2>1 DEF ScanCounts, KeysUpTo
  <2>2. CASE reading.pages \in {"ranges", "one"}
    <3>1. scans[i].sent = 0
      BY <1>1, <2>2 DEF Scans
    <3> QED BY <1>1, <1>2, <1>3, <1>4, <2>2, <3>1 DEF ScanCounts
  <2>3. CASE reading.pages = "offset"
    <3>1. /\ OrderPage(i, page, more)
          /\ scans[i].sent + Len(scans[i].page) <= Cardinality(Rows) /\ scans[i].last \in Rows \cup {0}
      BY <1>4, <2>3 DEF FetchStep, ScanCounts
    <3>2. PICK rows \in Seq(Rows) :
            /\ Len(rows) <= Cardinality(Rows)
            /\ scans[i].sent <= Len(rows) => scans[i].sent + Len(page) <= Len(rows)
            /\ ~(scans[i].sent <= Len(rows)) => Len(page) = 0
      BY <3>1 DEF OrderPage
    <3>3. Len(rows) \in Nat /\ Len(scans[i].page) = 0
      BY <1>5
    <3>4. scans[i].sent + Len(page) <= Cardinality(Rows)
      BY <1>3, <3>1, <3>2, <3>3
    <3> QED BY <1>1, <1>2, <2>3, <3>1, <3>4 DEF ScanCounts
  <2> QED BY <1>5, <2>1, <2>2, <2>3
<1>7. \A j \in DOMAIN scans' : ScanCounts(j)'
  <2>1. ASSUME NEW j \in DOMAIN scans, j # i PROVE ScanCounts(j)'
    BY <1>1, <1>2, <1>4, <2>1 DEF ScanCounts, KeysUpTo
  <2> QED BY <1>2, <1>6, <2>1
<1>8. OffsetCounts' /\ TakenCounts' /\ Len(out') <= Capacity
  BY <1>1, <1>2 DEF Counts, OffsetCounts, TakenCounts
<1> QED BY <1>7, <1>8 DEF Counts, ScanCounts, OffsetCounts, TakenCounts, KeysUpTo

LEMMA CountsStep ==
  ASSUME Base, Base', Marks, Unique, Counts, [Next]_vars
  PROVE  Counts'
<1>0. DOMAIN <<>> = {} /\ Capacity \in Nat /\ Len(<<>>) = 0 /\ Cardinality(Rows) \in Nat
      /\ \A r \in Rows : 1 <= Cardinality(Rows)
  <2>1. ASSUME NEW r \in Rows PROVE 1 <= Cardinality(Rows)
    <3>1. Cardinality({r}) = 1 /\ {r} \subseteq Rows /\ IsFiniteSet(Rows)
      BY FS_Singleton, ExtractAssumption
    <3> QED BY <3>1, FS_Subset
  <2> QED BY <2>1, Finite, ExtractAssumption
<1>1. ASSUME UNCHANGED <<reading, taken, scans, out>> PROVE Counts'
  BY <1>1 DEF Counts
<1>2. CASE Begin
  <2>1. out' = <<>> /\ taken' = [r \in Rows |-> 0] /\ UNCHANGED scans /\ phase = "idle"
    BY <1>2 DEF Begin
  <2>2. DOMAIN scans' = {}
    BY <1>0, <2>1 DEF Base, Phases
  <2>3. TakenCounts'
    BY <1>0, <2>1 DEF TakenCounts
  <2> QED BY <1>0, <2>1, <2>2, <2>3 DEF Counts, TakenCounts
<1>3. CASE StartsScans
  <2>1. /\ phase = "plan" /\ UNCHANGED <<taken, out, watermark, time>>
        /\ \A i \in DOMAIN scans' :
             /\ scans'[i].page = <<>> /\ scans'[i].sent = 0
             /\ scans'[i].last = IF reading'.pages = "keyset" THEN watermark ELSE 0
    BY <1>3 DEF StartsScans, startFrame, tableVars
  <2>2. scans = <<>>
    BY <2>1 DEF Base, Phases
  <2>3. \A r \in Rows : taken[r] = 0 /\ out = <<>>
    BY <1>0, <2>1, <2>2, NothingSent
  <2>4. out = <<>> /\ AppendOnly' => watermark \in Rows \cup {0}
    <3>1. AppendOnly' <=> AppendOnly
      BY AppendOnlyStep
    <3> QED BY <3>1 DEF Marks, Present
  <2>5. \A i \in DOMAIN scans' : scans'[i].last \in Rows \cup {0}
    <3>1. AppendOnly' <=> reading'.pages = "keyset"
      BY DEF AppendOnly
    <3>2. AppendOnly' => watermark \in Rows \cup {0}
      BY <2>3, <2>4, ExtractAssumption
    <3> QED BY <2>1, <3>1, <3>2
  <2>6. \A n : Cardinality(KeysUpTo(n)) \in Nat
    <3>1. \A n : KeysUpTo(n) \subseteq Rows
      BY DEF KeysUpTo
    <3> QED BY <3>1, Finite
  <2>7. \A i \in DOMAIN scans' : ScanCounts(i)'
    <3> SUFFICES ASSUME NEW i \in DOMAIN scans' PROVE ScanCounts(i)'
      OBVIOUS
    <3>1. Cardinality(KeysUpTo(scans'[i].last)) \in Nat
      BY <2>6
    <3>2. scans'[i].sent = 0 /\ Len(scans'[i].page) = 0 /\ scans'[i].last \in Rows \cup {0}
      BY <1>0, <2>1, <2>5
    <3> QED BY <1>0, <3>1, <3>2 DEF ScanCounts, KeysUpTo
  <2>8. OffsetCounts' /\ TakenCounts' /\ Len(out') <= Capacity
    <3>1. out = <<>>
      BY <2>3, ExtractAssumption
    <3> QED BY <1>0, <2>1, <2>3, <3>1 DEF OffsetCounts, TakenCounts
  <2> QED BY <2>7, <2>8 DEF Counts, ScanCounts, OffsetCounts, TakenCounts, KeysUpTo
<1>4. CASE Return
  <2>1. scans' = <<>> /\ out' = <<>> /\ UNCHANGED <<taken, reading>>
    BY <1>4 DEF Return, bookVars
  <2> QED BY <1>0, <2>1 DEF Counts
<1>5. CASE Finish \/ EndContext \/ UNCHANGED vars
  <2>1. UNCHANGED <<reading, taken, scans, out>>
    BY <1>5 DEF Finish, EndContext, vars, runVars, bookVars
  <2> QED BY <1>1, <2>1
<1>6. ASSUME NEW r \in Rows, Write(r) PROVE Counts'
  <2>1. UNCHANGED <<reading, taken, scans, out>>
    BY <1>6 DEF Write, runVars
  <2> QED BY <1>1, <2>1
<1>7. ASSUME NEW i \in DOMAIN scans, FailStep(i) \/ EndStep(i) PROVE Counts'
  <2>1. /\ UNCHANGED <<reading, taken, out>>
        /\ DOMAIN scans' = DOMAIN scans /\ \A j \in DOMAIN scans : j # i => scans'[j] = scans[j]
        /\ scans'[i].sent = scans[i].sent /\ scans'[i].last = scans[i].last
        /\ scans'[i].page = <<>>
    BY <1>7 DEF FailStep, EndStep, FailsScan, EndsPage, OnlyScan, ScanFrame, scanFrame
  <2>2. scans[i].sent \in Nat /\ Len(scans[i].page) \in Nat
    BY ScanIs DEF Base
  <2>3. ScanCounts(i)'
    <3>1. ScanCounts(i)
      BY CountsAre
    <3> QED BY <1>0, <2>1, <2>2, <3>1 DEF ScanCounts, KeysUpTo
  <2>4. \A j \in DOMAIN scans' : ScanCounts(j)'
    <3>1. ASSUME NEW j \in DOMAIN scans, j # i PROVE ScanCounts(j)'
      <4>1. ScanCounts(j)
        BY CountsAre
      <4> QED BY <2>1, <3>1, <4>1 DEF ScanCounts, KeysUpTo
    <3> QED BY <2>1, <2>3, <3>1
  <2>5. OffsetCounts' /\ TakenCounts' /\ Len(out') <= Capacity
    BY <2>1 DEF Counts, OffsetCounts, TakenCounts
  <2> QED BY <2>4, <2>5 DEF Counts, ScanCounts, OffsetCounts, TakenCounts, KeysUpTo
<1> QED BY <1>2, <1>3, <1>4, <1>5, <1>6, <1>7, StepCases, CountsTake, CountsSend, CountsFetch

------------------------------------------------------------------------------
\* What is in scope is reached

(* Where a row is reached when every scan keeps it or gives it away.        *)
LEMMA ReachedMoves ==
  ASSUME NEW r, Reached(r), DOMAIN scans' = DOMAIN scans, SentFresh(r) => SentFresh(r)',
         \A j \in DOMAIN scans :
           /\ PageFresh(j, r) => PageFresh(j, r)' \/ SentFresh(r)'
           /\ ToCome(j, r) => ToCome(j, r)' \/ PageFresh(j, r)'
  PROVE  Reached(r)'
<1> USE DEF Reached, Held
<1>1. CASE SentFresh(r)
  BY <1>1
<1>2. ASSUME NEW j \in DOMAIN scans, PageFresh(j, r) PROVE Reached(r)'
  BY <1>2
<1>3. ASSUME NEW j \in DOMAIN scans, ToCome(j, r) PROVE Reached(r)'
  BY <1>3
<1> QED BY <1>1, <1>2, <1>3

LEMMA ReachedStart ==
  ASSUME Base, StartsScans, failed' = "no", NEW r \in Present, InScope(r)'
  PROVE  Reached(r)'
<1>0. r \in Rows /\ r \in Nat \ {0} /\ DOMAIN <<>> = {}
  BY ExtractAssumption DEF Present
<1>1. /\ scans' \in Seq(ScanType) /\ scans' # <<>> /\ phase = "plan" /\ UNCHANGED <<taken, out, start, watermark>>
      /\ reading'.pages \in {"offset", "keyset", "server", "ranges", "one"}
      /\ \A i \in DOMAIN scans' :
           /\ scans'[i].pc = "query" /\ scans'[i].page = <<>>
           /\ scans'[i].last = IF reading'.pages = "keyset" THEN watermark ELSE 0
      /\ reading'.pages = "ranges" => \E i \in DOMAIN scans' : r \in scans'[i].lo..scans'[i].hi
  BY DEF StartsScans, startFrame
<1>2. scans = <<>> /\ start = watermark
  BY <1>1 DEF Base, Phases
<1>3. ~Sent(r)
  BY <1>0, <1>1, <1>2, NothingSent
<1>4. ~Sent(r)' /\ \A i \in DOMAIN scans' : ~InPage(i, r)'
  BY <1>0, <1>1, <1>3 DEF Sent, InOut, InPage
<1>5. reading'.pages = "keyset" => r > start
  BY <1>1 DEF InScope, AppendOnly
<1>6. PICK i \in DOMAIN scans' : reading'.pages = "ranges" => r \in scans'[i].lo..scans'[i].hi
  <2>1. 1 \in DOMAIN scans'
    BY <1>1
  <2> QED BY <1>1, <2>1
<1>7. ToCome(i, r)'
  <2> USE <1>1, <1>6
  <2>1. CASE reading'.pages \in {"keyset", "server"}
    BY <1>0, <1>2, <1>5, <2>1 DEF ToCome
  <2>2. CASE reading'.pages = "ranges"
    BY <2>2 DEF ToCome
  <2>3. CASE reading'.pages = "offset"
    BY <1>4, <2>3 DEF ToCome
  <2>4. CASE reading'.pages = "one"
    BY <2>4 DEF ToCome
  <2> QED BY <2>1, <2>2, <2>3, <2>4
<1> QED BY <1>7 DEF Reached

LEMMA ReachedTake ==
  ASSUME Base, Take, ~ctxDone, NEW r \in Rows, Reached(r)
  PROVE  Reached(r)'
<1>1. TakesHead /\ UNCHANGED <<time, reading, scans>> /\ Typed
  BY TakeIs DEF Base, takeFrame, tableVars
<1>2. /\ SentFresh(r)' <=> SentFresh(r)
      /\ \A i \in DOMAIN scans : (PageFresh(i, r)' <=> PageFresh(i, r)) /\ (ToCome(i, r)' <=> ToCome(i, r))
  BY <1>1, TakeMoves
<1> QED BY <1>1, <1>2, ReachedMoves

LEMMA ReachedReturn ==
  ASSUME Base, Return, ~ctxDone, NEW r, Reached(r)
  PROVE  Reached(r)' /\ r \in fresh
<1>1. /\ phase = "extract" /\ \A i \in DOMAIN scans : scans[i].pc = "ended"
      /\ out = <<>> \/ stopped
      /\ UNCHANGED fresh
  BY DEF Return, bookVars
<1>2. out = <<>> /\ DOMAIN <<>> = {}
  BY <1>1 DEF Base, Phases
<1>3. \A i \in DOMAIN scans : scans[i].page = <<>> /\ ~ToCome(i, r)
  BY <1>1 DEF Base, Scans, ToCome
<1>4. \A i \in DOMAIN scans : ~PageFresh(i, r)
  <2>1. \A x : x \notin Range(<<>>)
    BY <1>2 DEF Range
  <2> QED BY <1>3, <2>1 DEF PageFresh
<1>5. r \in fresh
  BY <1>2, <1>3, <1>4 DEF Reached, Held, SentFresh
<1> QED BY <1>1, <1>5 DEF Reached, Held, SentFresh

LEMMA ReachedEnd ==
  ASSUME Base, NEW i \in DOMAIN scans, EndStep(i), NEW r, Reached(r)
  PROVE  Reached(r)'
<1>1. EndsPage(i) /\ OnlyScan(i) /\ UNCHANGED <<time, reading, out, taken, fresh>> /\ Typed /\ Scans
  BY DEF EndStep, EndsPage, ScanFrame, scanFrame, tableVars, Base
<1>2. (Sent(r)' <=> Sent(r)) /\ (SentFresh(r)' <=> SentFresh(r))
  BY <1>1 DEF Sent, InOut, SentFresh
<1>3. ~PageFresh(i, r) /\ (ToCome(i, r)' <=> ToCome(i, r))
  BY <1>1, EndMoves
<1>4. \A j \in DOMAIN scans : j # i =>
        (PageFresh(j, r)' <=> PageFresh(j, r)) /\ (ToCome(j, r)' <=> ToCome(j, r))
  BY <1>1, <1>2, OtherScan
<1> QED BY <1>1, <1>2, <1>3, <1>4, ReachedMoves DEF OnlyScan

LEMMA ReachedSend ==
  ASSUME Base, NEW i \in DOMAIN scans, SendStep(i), NEW r \in Rows, Reached(r)
  PROVE  Reached(r)'
<1>1. /\ SendsRow(i) /\ AppendsOut(i) /\ OnlyScan(i) /\ UNCHANGED <<time, reading, taken, fresh>>
      /\ Typed /\ Scans /\ scans[i].pc = "emit"
  BY DEF SendStep, SendsRow, ScanFrame, scanFrame, tableVars, Base
<1>2. /\ SentFresh(r) => SentFresh(r)'
      /\ PageFresh(i, r) => PageFresh(i, r)' \/ SentFresh(r)'
      /\ ToCome(i, r)' <=> ToCome(i, r)
  BY <1>1, SendMoves
<1>3. \A j \in DOMAIN scans : j # i => reading.pages # "offset"
  BY OnlyOne
<1>4. \A j \in DOMAIN scans : j # i =>
        (PageFresh(j, r)' <=> PageFresh(j, r)) /\ (ToCome(j, r)' <=> ToCome(j, r))
  BY <1>1, <1>3, OtherScan
<1> QED BY <1>1, <1>2, <1>4, ReachedMoves DEF OnlyScan

LEMMA ReachedFetch ==
  ASSUME Base, OffsetOrder, NEW i \in DOMAIN scans, NEW page \in Seq(Rows), NEW more \in BOOLEAN,
         FetchStep(i, page, more), ~ctxDone, reading.pages = "offset" => smooth',
         AppendOnly => source.limit = 0, NEW r \in Present, InScope(r), Reached(r)
  PROVE  Reached(r)'
<1>1. /\ FetchesScan(i, page, more) /\ OnlyScan(i) /\ UNCHANGED <<time, reading, taken, fresh, out>>
      /\ Typed /\ Scans /\ scans[i].pc = "query" /\ scans[i].page = <<>> /\ r \in Rows
  BY DEF FetchStep, FetchesScan, ScanFrame, scanFrame, tableVars, Base, Present, Scans
<1>2. /\ ~InPage(i, r) /\ ~PageFresh(i, r)
      /\ InPage(i, r)' <=> \E k \in DOMAIN page : page[k] = r
      /\ PageFresh(i, r)' <=> \E k \in DOMAIN page : page[k] = r
      /\ (Sent(r)' <=> Sent(r)) /\ (SentFresh(r)' <=> SentFresh(r))
  BY <1>1, FetchMoves
<1>3. /\ scans'[i].pc = "emit" /\ scans'[i].more = more /\ scans'[i].last = scans[i].last
      /\ DOMAIN scans'[i].page = DOMAIN page /\ \A k \in DOMAIN page : scans'[i].page[k].row = page[k]
  BY <1>1 DEF FetchesScan
<1>4. ToCome(i, r) => ToCome(i, r)' \/ PageFresh(i, r)'
  <2> SUFFICES ASSUME ToCome(i, r), ~\E k \in DOMAIN page : page[k] = r PROVE ToCome(i, r)'
    BY <1>2
  <2>1. CASE reading.pages \in {"keyset", "server"}
    <3>1. CursorPage(i, page, more) /\ r > scans[i].last
      BY <2>1 DEF FetchStep, ToCome
    <3>2. more /\ \A k \in DOMAIN page : r > page[k]
      BY <3>1 DEF CursorPage
    <3> QED BY <1>1, <1>3, <2>1, <3>1, <3>2 DEF ToCome
  <2>2. CASE reading.pages = "ranges"
    <3>1. WholePage(i, page, more) /\ r \in scans[i].lo..scans[i].hi
      BY <2>2 DEF FetchStep, ToCome
    <3> QED BY <2>2, <3>1 DEF WholePage
  <2>3. CASE reading.pages = "one"
    BY <2>3 DEF FetchStep, WholePage
  <2>4. CASE reading.pages = "offset"
    <3>1. OneOrderCut(i, page, more)
      BY <2>4, OffsetFetch
    <3>2. r \in Selected /\ ~Sent(r)
      <4>1. ~Sent(r)
        BY <2>4 DEF ToCome
      <4> QED BY <1>1, <2>4, <4>1, SelectedIs DEF AppendOnly
    <3>3. more
      <4> SUFFICES ASSUME ~more PROVE FALSE
        OBVIOUS
      <4>1. PICK rows \in Seq(Rows) :
              /\ DOMAIN rows = 1..Len(rows) /\ Len(rows) \in Nat
              /\ \A q \in Selected : \E k \in DOMAIN rows : rows[k] = q
              /\ \A q \in Rows : Sent(q) <=> \E k \in 1..scans[i].sent : rows[k] = q
              /\ \A p \in DOMAIN rows : p > scans[i].sent =>
                   p - scans[i].sent \in DOMAIN page /\ page[p - scans[i].sent] = rows[p]
        BY <3>1 DEF OneOrderCut
      <4>2. PICK p \in DOMAIN rows : rows[p] = r
        BY <3>2, <4>1
      <4>3. p > scans[i].sent
        <5>1. p \notin 1..scans[i].sent
          BY <1>1, <3>2, <4>1, <4>2
        <5>2. p \in Nat /\ p > 0 /\ scans[i].sent \in Nat
          BY <1>1, <4>1, ScanIs
        <5> QED BY <5>1, <5>2
      <4> QED BY <4>1, <4>2, <4>3
    <3>4. ~Sent(r)' /\ ~InPage(i, r)'
      BY <1>2, <3>2
    <3> QED BY <1>1, <1>3, <2>4, <3>3, <3>4 DEF ToCome
  <2> QED BY <1>1, <2>1, <2>2, <2>3, <2>4 DEF Scans
<1>5. \A j \in DOMAIN scans : j # i =>
        (PageFresh(j, r)' <=> PageFresh(j, r)) /\ (ToCome(j, r)' <=> ToCome(j, r))
  BY <1>1, <1>2, OtherScan
<1> QED BY <1>1, <1>2, <1>4, <1>5, ReachedMoves DEF OnlyScan

LEMMA ReachedStays ==
  ASSUME NEW r, time'[r] = time[r], UNCHANGED <<reading, out, taken, scans>>,
         r \in fresh' <=> r \in fresh
  PROVE  Reached(r)' <=> Reached(r)
<1>1. /\ (Sent(r)' <=> Sent(r)) /\ (SentFresh(r)' <=> SentFresh(r))
      /\ \A i \in DOMAIN scans : (InPage(i, r)' <=> InPage(i, r)) /\ (PageFresh(i, r)' <=> PageFresh(i, r))
  BY DEF Sent, InOut, SentFresh, InPage, PageFresh
<1>2. \A i \in DOMAIN scans : ToCome(i, r)' <=> ToCome(i, r)
  BY <1>1 DEF ToCome
<1> QED BY <1>1, <1>2 DEF Reached, Held

LEMMA SameWindow ==
  ASSUME NEW r, time'[r] = time[r], UNCHANGED <<reading, source, start, end>>
  PROVE  (InScope(r)' <=> InScope(r)) /\ Compared(r)' = Compared(r)
<1>1. Compared(r)' = Compared(r)
  BY DEF Compared, Shown, ShownAt
<1> QED BY <1>1 DEF InScope, InWindow, AppendOnly

LEMMA SeenStep ==
  ASSUME Base, OffsetOrder, StableSeen, [Next]_vars
  PROVE  StableSeen'
<1> SUFFICES ASSUME Running', failed' = "no", ~cutShort', reading'.pages = "offset" => smooth',
                    AppendOnly' => source'.limit = 0,
                    NEW r \in Present', r \notin changed', InScope(r)'
             PROVE  Reached(r)'
  BY DEF StableSeen
<1>0. r \in Rows
  BY DEF Present
<1>1. CASE Begin \/ Finish \/ EndContext
  BY <1>1 DEF Begin, Finish, EndContext, Running
<1>2. CASE StartsScans
  <2>1. r \in Present
    BY <1>2 DEF StartsScans, startFrame, tableVars, Present
  <2> QED BY <1>2, <2>1, ReachedStart
<1>3. CASE Take \/ Return
  <2>1. UNCHANGED <<source, reading, time, ctxDone, failed, cutShort, smooth, changed, start, end>> /\ phase = "extract"
    BY <1>3 DEF Take, Return, tableVars, bookVars
  <2>2. Present' = Present /\ (AppendOnly' <=> AppendOnly) /\ InScope(r) /\ ~ctxDone
    BY <2>1, SameWindow DEF Present, AppendOnly, Running
  <2>3. Reached(r)
    BY <2>1, <2>2 DEF StableSeen, Running
  <2> QED BY <1>0, <1>3, <2>2, <2>3, ReachedTake, ReachedReturn
<1>4. CASE UNCHANGED vars
  <2>1. UNCHANGED <<source, reading, time, ctxDone, phase, failed, cutShort, smooth, changed, start, end,
                    out, taken, scans, fresh>>
    BY <1>4 DEF vars, tableVars, runVars, bookVars
  <2>2. Present' = Present /\ (AppendOnly' <=> AppendOnly) /\ InScope(r)
    BY <2>1, SameWindow DEF Present, AppendOnly
  <2>3. Reached(r)
    BY <2>1, <2>2 DEF StableSeen, Running
  <2> QED BY <2>1, <2>3, ReachedStays
<1>5. ASSUME NEW q \in Rows, Write(q) PROVE Reached(r)'
  <2>1. /\ UNCHANGED <<source, reading, ctxDone, phase, failed, cutShort, smooth, start, end, out, taken, scans>>
        /\ \A p \in Rows : p # q => time'[p] = time[p]
        /\ changed' = changed \cup {q} /\ fresh' = fresh \ {q}
    BY <1>5, WriteIs DEF Base, runVars
  <2>2. r # q /\ r \notin changed /\ time'[r] = time[r] /\ (r \in fresh' <=> r \in fresh)
    BY <1>0, <2>1
  <2>3. r \in Present /\ (AppendOnly' <=> AppendOnly) /\ InScope(r)
    BY <1>0, <2>1, <2>2, SameWindow DEF Present, AppendOnly
  <2>4. Reached(r)
    BY <2>1, <2>2, <2>3 DEF StableSeen, Running
  <2> QED BY <2>1, <2>2, <2>4, ReachedStays
<1>6. ASSUME NEW i \in DOMAIN scans,
             \/ FailStep(i) \/ EndStep(i) \/ SendStep(i)
             \/ \E page \in Seq(Rows), more \in BOOLEAN : FetchStep(i, page, more)
      PROVE  Reached(r)'
  <2>1. ~FailStep(i)
    BY DEF FailStep, FailsScan
  <2>2. /\ UNCHANGED <<source, reading, time, phase, ctxDone, failed, cutShort, changed, start, end>>
        /\ phase = "extract" /\ (smooth' => smooth)
    BY <1>6, <2>1 DEF EndStep, SendStep, FetchStep, ScanFrame, scanFrame, tableVars
  <2>3. Present' = Present /\ (AppendOnly' <=> AppendOnly) /\ InScope(r) /\ ~ctxDone
    BY <2>2, SameWindow DEF Present, AppendOnly, Running
  <2>4. Reached(r)
    BY <2>2, <2>3 DEF StableSeen, Running
  <2>5. CASE EndStep(i)
    BY <2>4, <2>5, ReachedEnd
  <2>6. CASE SendStep(i)
    BY <1>0, <2>4, <2>6, ReachedSend
  <2>7. ASSUME NEW page \in Seq(Rows), NEW more \in BOOLEAN, FetchStep(i, page, more) PROVE Reached(r)'
    <3>1. (reading.pages = "offset" => smooth') /\ (AppendOnly => source.limit = 0)
      BY <2>2, <2>3
    <3>2. r \in Present
      BY <2>3
    <3> QED BY <2>3, <2>4, <2>7, <3>1, <3>2, ReachedFetch
  <2> QED BY <1>6, <2>1, <2>5, <2>6, <2>7
<1> QED BY <1>1, <1>2, <1>3, <1>4, <1>5, <1>6, StepCases

LEMMA ReadOnce ==
  ASSUME Base, Unique, StableFresh, StableSeen
  PROVE  StableRowsReadOnce
<1> SUFFICES ASSUME phase = "ended", failed = "no", ~ctxDone, ~cutShort, reading.pages = "offset" => smooth,
                    NEW r \in Present \ changed
             PROVE  /\ taken[r] <= 1
                    /\ Promised(r) /\ ~NeedsEnd /\ source.limit = 0 => taken[r] = 1
  BY DEF StableRowsReadOnce
<1>1. Running /\ r \in Rows /\ Typed
  BY DEF Running, Present, Base
<1>2. taken[r] <= 1 /\ taken[r] \in Nat
  BY <1>1 DEF Unique, Apart, Typed
<1>3. ASSUME Promised(r), ~NeedsEnd, source.limit = 0 PROVE taken[r] = 1
  <2>1. InScope(r)
    BY <1>1, <1>3, PromisedInScope
  <2>2. Reached(r)
    BY <1>1, <1>3, <2>1 DEF StableSeen
  <2>3. scans = <<>> /\ out = <<>> /\ DOMAIN <<>> = {}
    BY DEF Base, Phases
  <2>4. r \in fresh
    BY <2>2, <2>3 DEF Reached, Held, SentFresh
  <2>5. taken[r] > 0
    BY <2>4 DEF StableFresh
  <2> QED BY <1>2, <2>5
<1> QED BY <1>2, <1>3

------------------------------------------------------------------------------
\* The end of the interval

LEMMA LimitedIs ==
  ASSUME Typed, Limited, NEW t \in Nat, UpTo(reading.upper, t, end)
  PROVE  t \in 1..end
<1>1. end \in Nat /\ reading.upper \in {"ifGiven", "always"}
  BY DEF Typed, Limited
<1>2. CASE reading.upper = "always"
  BY <1>1, <1>2 DEF UpTo
<1>3. CASE reading.upper = "ifGiven"
  <2>1. end # 0
    BY <1>3 DEF Limited
  <2>2. UpTo("ifGiven", t, end)
    BY <1>3
  <2> QED BY <1>1, <2>1, <2>2 DEF UpTo
<1> QED BY <1>1, <1>2, <1>3

LEMMA SameCompared ==
  ASSUME UNCHANGED <<reading, source>>, NEW item
  PROVE  ComparedAt(item)' = ComparedAt(item)
BY DEF ComparedAt, ShownAt

LEMMA LimitedKept ==
  ASSUME UNCHANGED <<reading, end>>
  PROVE  Limited' <=> Limited
BY DEF Limited

LEMMA UpToEndKept ==
  ASSUME Base, UpToEnd, phase # "idle", UNCHANGED <<end, reading, source, highest>>, smooth' => smooth,
         \A k \in DOMAIN out' : k \in DOMAIN out /\ out'[k] = out[k],
         \A i \in DOMAIN scans' : \A k \in DOMAIN scans'[i].page :
           i \in DOMAIN scans /\ k \in DOMAIN scans[i].page /\ scans'[i].page[k] = scans[i].page[k]
  PROVE  UpToEnd'
<1>1. Limited' <=> Limited
  BY LimitedKept
<1>2. \A item : ComparedAt(item)' = ComparedAt(item)
  BY SameCompared
<1> HIDE DEF Limited
<1> QED BY <1>1, <1>2 DEF UpToEnd

LEMMA UpToEndTake ==
  ASSUME Base, UpToEnd, Take
  PROVE  UpToEnd'
<1>1. TakesHead /\ UNCHANGED <<reading, source, end, scans, smooth, phase>>
  BY TakeIs DEF Base, takeFrame
<1>2. /\ highest' \in {highest, out[1].wm} /\ 1 \in DOMAIN out
      /\ \A k \in DOMAIN out' : k + 1 \in DOMAIN out /\ out'[k] = out[k + 1]
  BY <1>1 DEF TakesHead
<1>3. \A item : ComparedAt(item)' = ComparedAt(item)
  BY <1>1, SameCompared
<1>4. Limited' <=> Limited
  BY <1>1, LimitedKept
<1> QED BY <1>1, <1>2, <1>3, <1>4 DEF UpToEnd

LEMMA UpToEndSend ==
  ASSUME Base, UpToEnd, NEW i \in DOMAIN scans, SendStep(i)
  PROVE  UpToEnd'
<1> SUFFICES ASSUME smooth', Limited' PROVE UpToEnd'
  BY DEF UpToEnd
<1>1. /\ Typed /\ SendsRow(i) /\ AppendsOut(i) /\ UNCHANGED <<reading, source, end, clock, phase, highest, changed>>
      /\ phase = "extract" /\ smooth
  BY DEF SendStep, ScanFrame, scanFrame, tableVars, Base
<1>2. Limited
  BY <1>1, LimitedKept
<1>3. PICK h \in PageItem : h = scans[i].page[1] /\ 1 \in DOMAIN scans[i].page
  BY <1>1, ScanIs, ItemIs
<1>4. h.row \in Rows /\ h.at \in Nat
  BY DEF PageItem
<1>5. ComparedAt(h) \in 1..end /\ end \in Nat /\ clock \in Nat
  BY <1>1, <1>2, <1>3, ClockIs DEF UpToEnd, Typed
<1>6. /\ \A k \in DOMAIN out' : \/ k \in DOMAIN out /\ out'[k] = out[k]
                                \/ out'[k].wm = RowWatermark(h.row, h.at)
      /\ \A j \in DOMAIN scans' : \A k \in DOMAIN scans'[j].page :
           \E m \in DOMAIN scans[j].page : j \in DOMAIN scans /\ scans'[j].page[k] = scans[j].page[m]
  <2>1. /\ DOMAIN scans' = DOMAIN scans /\ \A j \in DOMAIN scans : j # i => scans'[j] = scans[j]
        /\ \A k \in DOMAIN scans'[i].page : k + 1 \in DOMAIN scans[i].page
                                             /\ scans'[i].page[k] = scans[i].page[k + 1]
    BY <1>1 DEF SendsRow, OnlyScan
  <2>2. \A k \in DOMAIN out' : \/ k \in DOMAIN out /\ out'[k] = out[k]
                               \/ out'[k].wm = RowWatermark(h.row, h.at)
    BY <1>1, <1>3 DEF AppendsOut
  <2> QED BY <2>1, <2>2
<1>7. RowWatermark(h.row, h.at) <= end
  <2>1. /\ ShownAt(h.row, h.at) \in {0, h.at}
        /\ ~AppendOnly
        /\ RowWatermark(h.row, h.at) = IF reading.bare = "now" /\ ShownAt(h.row, h.at) = 0
                                         THEN clock ELSE ShownAt(h.row, h.at)
    <3>1. ~AppendOnly
      BY <1>1, <1>2, ReadingNow DEF Limited
    <3> QED BY <1>1, <1>4, <3>1, WatermarkIs
  <2>2. CASE reading.bare = "now" /\ ShownAt(h.row, h.at) = 0
    <3>1. changed = {}
      BY <1>3, <2>2 DEF SendStep
    <3>2. end = IF source.bounded THEN clock ELSE end
      BY <1>1, <3>1 DEF Base, Phases
    <3>3. ~source.bounded => end = 0
      BY <1>1 DEF Base, Phases
    <3>4. source.bounded
      BY <1>5, <3>3
    <3> QED BY <1>5, <2>1, <2>2, <3>2, <3>4
  <2>3. CASE ~(reading.bare = "now" /\ ShownAt(h.row, h.at) = 0)
    <3>1. ComparedAt(h) \in {h.at, ShownAt(h.row, h.at)} /\ (ShownAt(h.row, h.at) <= ComparedAt(h))
      BY <1>4, <1>5, <2>1 DEF ComparedAt
    <3> QED BY <1>4, <1>5, <2>1, <2>3, <3>1
  <2> QED BY <2>2, <2>3
<1>8. \A item : ComparedAt(item)' = ComparedAt(item)
  BY <1>1, SameCompared
<1> QED BY <1>1, <1>2, <1>6, <1>7, <1>8 DEF UpToEnd

LEMMA UpToEndFetch ==
  ASSUME Base, UpToEnd, NEW i \in DOMAIN scans, NEW page \in Seq(Rows), NEW more \in BOOLEAN,
         FetchStep(i, page, more)
  PROVE  UpToEnd'
<1> SUFFICES ASSUME smooth', Limited' PROVE UpToEnd'
  BY DEF UpToEnd
<1>1. /\ Typed /\ FetchesScan(i, page, more) /\ PageOf(i, page, more)
      /\ UNCHANGED <<reading, source, end, phase, highest, out>>
      /\ phase = "extract" /\ smooth
  BY DEF FetchStep, ScanFrame, scanFrame, Base
<1>2. Limited
  BY <1>1, LimitedKept
<1>3. ASSUME NEW k \in DOMAIN page PROVE ComparedAt(scans'[i].page[k]) \in 1..end
  <2>1. page[k] \in Rows /\ InScope(page[k])
    BY <1>1 DEF PageOf
  <2>2. PICK q \in Rows : q = page[k]
    BY <2>1
  <2>3. ~AppendOnly
    BY <1>1, <1>2, ReadingNow DEF Limited
  <2>4. Compared(q) \in Nat /\ UpTo(reading.upper, Compared(q), end)
    BY <1>1, <2>1, <2>2, <2>3, ComparedIs DEF InScope, InWindow
  <2>5. Compared(q) \in 1..end
    BY <1>1, <1>2, <2>4, LimitedIs
  <2>6. scans'[i].page[k].row = q /\ scans'[i].page[k].at = time[q]
    BY <1>1, <2>2 DEF FetchesScan
  <2>7. Compared(q) = IF reading.pages = "server" THEN time[q] ELSE ShownAt(q, time[q])
    BY <1>1, <2>3, ComparedIs DEF AppendOnly, Shown
  <2> QED BY <2>5, <2>6, <2>7 DEF ComparedAt
<1>4. /\ DOMAIN scans' = DOMAIN scans /\ \A j \in DOMAIN scans : j # i => scans'[j] = scans[j]
      /\ DOMAIN scans'[i].page = DOMAIN page
  BY <1>1 DEF FetchesScan, OnlyScan
<1>5. \A item : ComparedAt(item)' = ComparedAt(item)
  BY <1>1, SameCompared
<1> QED BY <1>1, <1>2, <1>3, <1>4, <1>5 DEF UpToEnd

LEMMA UpToEndStep ==
  ASSUME Base, UpToEnd, [Next]_vars
  PROVE  UpToEnd'
<1>0. DOMAIN <<>> = {}
  OBVIOUS
<1>1. CASE Begin
  <2>1. scans' = <<>> /\ out' = <<>> /\ highest' = 0 /\ end' \in Nat
    BY <1>1, BeginBase DEF Begin, Base, Phases, Typed
  <2> QED BY <1>0, <2>1 DEF UpToEnd
<1>2. CASE StartsScans
  <2>1. /\ phase = "plan" /\ UNCHANGED <<out, highest, end>>
        /\ \A i \in DOMAIN scans' : scans'[i].page = <<>>
    BY <1>2 DEF StartsScans, startFrame
  <2>2. scans = <<>> /\ end \in Nat
    BY <2>1 DEF Base, Phases, Typed
  <2>3. out = <<>> /\ highest = 0
    <3>1. PICK r \in Rows : TRUE
      BY ExtractAssumption
    <3> QED BY <1>0, <2>1, <2>2, NothingSent
  <2> QED BY <1>0, <2>1, <2>2, <2>3 DEF UpToEnd
<1>3. CASE Return
  <2>1. scans' = <<>> /\ out' = <<>> /\ UNCHANGED <<highest, end, smooth, reading, source>> /\ phase = "extract"
    BY <1>3 DEF Return, bookVars
  <2> QED BY <1>0, <2>1, UpToEndKept
<1>4. CASE Finish
  BY <1>4 DEF Finish, UpToEnd
<1>5. CASE EndContext \/ UNCHANGED vars
  <2>1. UNCHANGED <<reading, source, scans, out, highest, end, smooth, phase>>
    BY <1>5 DEF EndContext, vars, runVars, bookVars
  <2> SUFFICES ASSUME phase' # "idle" PROVE UpToEnd'
    BY DEF UpToEnd
  <2> QED BY <2>1, UpToEndKept
<1>6. ASSUME NEW r \in Rows, Write(r) PROVE UpToEnd'
  <2>1. UNCHANGED <<reading, source, scans, out, highest, end, smooth, phase>>
    BY <1>6 DEF Write, runVars
  <2> SUFFICES ASSUME phase' # "idle" PROVE UpToEnd'
    BY DEF UpToEnd
  <2> QED BY <2>1, UpToEndKept
<1>7. ASSUME NEW i \in DOMAIN scans, FailStep(i) \/ EndStep(i) PROVE UpToEnd'
  <2>1. UNCHANGED <<reading, source, out, highest, end, smooth, phase>> /\ phase = "extract"
    BY <1>7 DEF FailStep, EndStep, ScanFrame, scanFrame
  <2>4. /\ DOMAIN scans' = DOMAIN scans /\ \A j \in DOMAIN scans : j # i => scans'[j] = scans[j]
        /\ scans'[i].page = <<>>
    BY <1>7 DEF FailStep, EndStep, FailsScan, EndsPage, OnlyScan
  <2> QED BY <1>0, <2>1, <2>4, UpToEndKept
<1> QED BY <1>1, <1>2, <1>3, <1>4, <1>5, <1>6, <1>7, StepCases, UpToEndTake, UpToEndSend, UpToEndFetch

------------------------------------------------------------------------------
\* Rows in order

LEMMA SameMark ==
  ASSUME UNCHANGED <<reading, source>>
  PROVE  \A item : Mark(item)' = Mark(item)
BY DEF Mark, ShownAt, AppendOnly

(* A row's watermark is not above that of a row that is behind it.          *)
LEMMA RankShown ==
  ASSUME Typed, NEW r \in Rows, NEW q \in Rows, Shown(r) > 0, Rank(q) <= Rank(r)
  PROVE  Shown(r) >= Shown(q)
<1>1. /\ Shown(r) \in Nat /\ Shown(q) \in Nat /\ Rank(r) \in Nat /\ Rank(q) \in Nat
      /\ Rank(r) = Shown(r) /\ (Shown(q) > 0 => Rank(q) = Shown(q))
  <2>1. \A p \in Rows : /\ time[p] \in 0..clock /\ Shown(p) \in {0, time[p]} /\ Rank(p) \in Nat
                        /\ (Shown(p) > 0 => Rank(p) = Shown(p))
    BY ComparedIs
  <2>2. clock \in Nat
    BY ClockIs
  <2>3. \A p \in Rows : Shown(p) \in Nat
    BY <2>1, <2>2
  <2> QED BY <2>1, <2>3
<1> QED BY <1>1

LEMMA InOrderTake ==
  ASSUME Base, InOrder, Take
  PROVE  InOrder'
<1> SUFFICES ASSUME Running', Orderly' PROVE InOrder'
  BY DEF InOrder
<1>1. /\ TakesHead /\ UNCHANGED <<time, late, reading, source, start, end, scans, smooth, phase, ctxDone>>
      /\ phase = "extract" /\ Typed
  BY TakeIs DEF Base, takeFrame, tableVars
<1>2. Running /\ Orderly /\ ~ctxDone /\ Timely' = Timely /\ (AppendOnly' <=> AppendOnly)
  BY <1>1 DEF Running, Orderly, AppendOnly, Present, Timely
<1>3. \A r \in Rows : SentFresh(r)' <=> SentFresh(r)
  BY <1>1, <1>2, TakeMoves
<1>4. \A r : (InScope(r)' <=> InScope(r)) /\ Compared(r)' = Compared(r)
  <2>1. \A r : time'[r] = time[r]
    BY <1>1
  <2> QED BY <1>1, <2>1, SameWindow
<1>5. \A item : Mark(item)' = Mark(item)
  BY <1>1, SameMark
<1>6. /\ highest' \in {highest, out[1].wm} /\ 1 \in DOMAIN out
      /\ \A k \in DOMAIN out' : k + 1 \in DOMAIN out /\ out'[k] = out[k + 1]
  BY <1>1, <1>2 DEF TakesHead
<1>7. ASSUME NEW r \in Rows, NotBelow(r) PROVE NotBelow(r)'
  BY <1>1, <1>4, <1>5, <1>6, <1>7 DEF NotBelow
<1>8. \A r \in Timely : r \in Rows
  BY DEF Present, Timely
<1> HIDE DEF Present, Timely
<1> QED BY <1>1, <1>2, <1>3, <1>4, <1>7, <1>8 DEF InOrder

LEMMA InOrderSend ==
  ASSUME Base, Marks, InOrder, NEW i \in DOMAIN scans, SendStep(i)
  PROVE  InOrder'
<1> SUFFICES ASSUME Running', Orderly' PROVE InOrder'
  BY DEF InOrder
<1>1. /\ SendsRow(i) /\ AppendsOut(i) /\ OnlyScan(i) /\ scans[i].pc = "emit"
      /\ UNCHANGED <<time, late, reading, source, start, end, phase, ctxDone, highest, taken, fresh>>
      /\ phase = "extract" /\ Typed /\ Scans /\ (smooth' => smooth)
  BY DEF SendStep, SendsRow, ScanFrame, scanFrame, tableVars, Base
<1>2. Running /\ Orderly /\ Timely' = Timely /\ (AppendOnly' <=> AppendOnly)
  BY <1>1 DEF Running, Orderly, AppendOnly, Present, Timely
<1>3. PICK h \in PageItem : h = scans[i].page[1] /\ 1 \in DOMAIN scans[i].page
  BY <1>1, ScanIs, ItemIs
<1>4. \A r \in Rows : SentFresh(r)' <=> SentFresh(r) \/ (r = h.row /\ h.at = time[r])
  BY <1>1, <1>3, SendMoves
<1>5. \A r : (InScope(r)' <=> InScope(r)) /\ Compared(r)' = Compared(r)
  <2>1. \A r : time'[r] = time[r]
    BY <1>1
  <2> QED BY <1>1, <2>1, SameWindow
<1>6. \A item : Mark(item)' = Mark(item)
  BY <1>1, SameMark
<1>7. RowWatermark(h.row, h.at) = Mark(h) /\ h.row \in Rows /\ h.at \in Nat
  <2>1. h.row \in Rows /\ h.at \in Nat
    BY DEF PageItem
  <2> QED BY <1>1, <1>2, <2>1, WatermarkIs DEF Mark, Orderly
<1>8. /\ \A k \in DOMAIN out' : \/ k \in DOMAIN out /\ out'[k] = out[k]
                                \/ out'[k].wm = Mark(h)
      /\ DOMAIN scans' = DOMAIN scans /\ \A j \in DOMAIN scans : j # i => scans'[j] = scans[j]
      /\ scans'[i].last = h.row
      /\ \A k \in DOMAIN scans'[i].page : /\ k + 1 \in DOMAIN scans[i].page
                                          /\ scans'[i].page[k] = scans[i].page[k + 1]
  <2>1. \A k \in DOMAIN out' : \/ k \in DOMAIN out /\ out'[k] = out[k]
                               \/ out'[k].wm = RowWatermark(h.row, h.at)
    BY <1>1, <1>3 DEF AppendsOut
  <2>2. /\ DOMAIN scans' = DOMAIN scans /\ \A j \in DOMAIN scans : j # i => scans'[j] = scans[j]
        /\ scans'[i].last = h.row
        /\ \A k \in DOMAIN scans'[i].page : /\ k + 1 \in DOMAIN scans[i].page
                                            /\ scans'[i].page[k] = scans[i].page[k + 1]
    BY <1>1, <1>3 DEF SendsRow, OnlyScan
  <2> QED BY <1>7, <2>1, <2>2
<1>9. ASSUME NEW r \in Rows, NotBelow(r), ~SentFresh(r)' PROVE NotBelow(r)' /\ Compared(r) >= Mark(h)
  <2>1. Compared(r) >= Mark(h)
    <3>1. Compared(r) >= Mark(scans[i].page[1]) \/ \E m \in 1..(1 - 1) : scans[i].page[m] = [row |-> r, at |-> time[r]]
      BY <1>3, <1>9 DEF NotBelow
    <3> QED BY <1>3, <3>1
  <2>2. h # [row |-> r, at |-> time[r]]
    BY <1>4, <1>9
  <2>3. ASSUME NEW k \in DOMAIN scans'[i].page
        PROVE  \/ Compared(r) >= Mark(scans'[i].page[k])
               \/ \E m \in 1..(k - 1) : scans'[i].page[m] = [row |-> r, at |-> time[r]]
    <3>1. \/ Compared(r) >= Mark(scans'[i].page[k])
          \/ \E m \in 1..k : scans[i].page[m] = [row |-> r, at |-> time[r]]
      <4>1. \/ Compared(r) >= Mark(scans[i].page[k + 1])
            \/ \E m \in 1..((k + 1) - 1) : scans[i].page[m] = [row |-> r, at |-> time[r]]
        BY <1>8, <1>9 DEF NotBelow
      <4>2. k \in Nat /\ (k + 1) - 1 = k
        BY <1>1 DEF SendsRow
      <4> QED BY <1>8, <4>1, <4>2
    <3>2. ASSUME NEW m \in 1..k, scans[i].page[m] = [row |-> r, at |-> time[r]]
          PROVE  m - 1 \in 1..(k - 1) /\ scans'[i].page[m - 1] = [row |-> r, at |-> time[r]]
      <4>1. m # 1
        BY <1>3, <2>2, <3>2
      <4>2. /\ DOMAIN scans'[i].page = 1..(Len(scans[i].page) - 1) /\ Len(scans[i].page) \in Nat /\ k \in Nat
            /\ k <= Len(scans[i].page) - 1
        BY <1>1, ScanIs DEF SendsRow
      <4>3. m \in Nat /\ m - 1 \in 1..(k - 1) /\ m - 1 \in DOMAIN scans'[i].page /\ (m - 1) + 1 = m
        BY <4>1, <4>2
      <4> QED BY <1>8, <3>2, <4>3
    <3> QED BY <3>1, <3>2
  <2>4. \A j \in DOMAIN scans' : \A k \in DOMAIN scans'[j].page :
          \/ Compared(r) >= Mark(scans'[j].page[k])
          \/ \E m \in 1..(k - 1) : scans'[j].page[m] = [row |-> r, at |-> time[r]]
    BY <1>8, <1>9, <2>3 DEF NotBelow
  <2>5. /\ Compared(r) >= highest' /\ \A k \in DOMAIN out' : Compared(r) >= out'[k].wm
    BY <1>1, <1>8, <1>9, <2>1 DEF NotBelow
  <2>6. NotBelow(r)'
    <3> HIDE <1>9
    <3> QED BY <1>1, <1>5, <1>6, <2>4, <2>5 DEF NotBelow
  <2> QED BY <2>1, <2>6
<1>10. ASSUME NEW r \in Timely, InScope(r), Compared(r) > 0
       PROVE  SentFresh(r)' \/ (NotBelow(r)' /\ Compared(r) >= Mark(h))
  <2>1. r \in Rows /\ (SentFresh(r) \/ NotBelow(r))
    BY <1>2, <1>10 DEF InOrder, Present, Timely
  <2> QED BY <1>4, <1>9, <2>1
<1>11. ASSUME AppendOnly, NEW j \in DOMAIN scans, NEW r \in Timely, start < r, r <= scans'[j].last
       PROVE  SentFresh(r)'
  <2>0. j = i /\ r \in Rows /\ r \in Nat
    BY <1>11, OnlyOne, ExtractAssumption DEF AppendOnly, Present, Timely
  <2>1. r <= h.row
    BY <1>8, <1>11, <2>0
  <2>2. SentFresh(r)' \/ Compared(r) >= Mark(h)
    <3>1. InScope(r) /\ Compared(r) > 0
      BY <1>1, <1>11, <2>0, ComparedIs DEF InScope
    <3> QED BY <1>10, <3>1
  <2>3. Compared(r) = r /\ Mark(h) = h.row /\ h.row \in Nat
    BY <1>1, <1>7, <1>11, <2>0, ComparedIs, ExtractAssumption DEF Mark
  <2>4. h.at = time[h.row]
    BY <1>3, <1>11 DEF Marks
  <2>5. CASE r >= h.row
    <3>1. r = h.row
      BY <2>0, <2>1, <2>3, <2>5
    <3> QED BY <1>4, <2>0, <2>4, <3>1
  <2> QED BY <2>2, <2>3, <2>5
<1> HIDE DEF Present, Timely
<1> QED BY <1>1, <1>2, <1>5, <1>8, <1>10, <1>11 DEF InOrder

(* What a statement in order has before the row is not above it.            *)
PageInOrder(page, r) ==
  \A k \in DOMAIN page :
    \/ Compared(r) >= (IF AppendOnly THEN page[k] ELSE Shown(page[k]))
    \/ \E m \in 1..(k - 1) : page[m] = r /\ m \in DOMAIN page

LEMMA KeysInOrder ==
  ASSUME Base, InOrder, NEW i \in DOMAIN scans, NEW page \in Seq(Rows), NEW more \in BOOLEAN,
         FetchStep(i, page, more), Running, AppendOnly,
         NEW r \in Timely, InScope(r), ~SentFresh(r)
  PROVE  PageInOrder(page, r)
<1>1. Typed /\ CursorPage(i, page, more) /\ r \in Rows /\ Orderly
  BY DEF Base, FetchStep, AppendOnly, Present, Timely, Orderly
<1>2. Compared(r) = r /\ r > start /\ r \in Nat /\ \A q \in Rows : q \in Nat
  BY <1>1, ComparedIs, ExtractAssumption DEF InScope
<1>3. scans[i].last \in Nat
  BY <1>1, ScanIs
<1>4. r > scans[i].last
  <2>1. ~(start < r /\ r <= scans[i].last)
    BY <1>1 DEF InOrder
  <2>2. start \in Nat
    BY <1>1 DEF Typed
  <2> QED BY <1>2, <1>3, <2>1, <2>2
<1>5. \/ \E k \in DOMAIN page : page[k] = r
      \/ \A k \in DOMAIN page : r > page[k]
  BY <1>1, <1>4 DEF CursorPage, Timely
<1>6. DOMAIN page = 1..Len(page) /\ Len(page) \in Nat /\ \A k \in DOMAIN page : page[k] \in Rows
  OBVIOUS
<1>7. ASSUME NEW n \in DOMAIN page, page[n] = r, NEW k \in DOMAIN page
      PROVE  Compared(r) >= page[k] \/ \E m \in 1..(k - 1) : page[m] = r /\ m \in DOMAIN page
  <2>1. CASE k = n
    BY <1>2, <1>7, <2>1
  <2>2. CASE k < n
    <3>1. k \in 1..(n - 1)
      BY <1>6, <2>2
    <3>2. page[k] < page[n]
      BY <1>1, <3>1 DEF CursorPage
    <3> QED BY <1>2, <1>6, <1>7, <3>2
  <2>3. CASE n < k
    BY <1>6, <1>7, <2>3
  <2> QED BY <1>6, <2>1, <2>2, <2>3
<1>8. ASSUME \A k \in DOMAIN page : r > page[k], NEW k \in DOMAIN page
      PROVE  Compared(r) >= page[k]
  BY <1>2, <1>6, <1>8
<1> QED BY <1>5, <1>7, <1>8 DEF PageInOrder

LEMMA TimesInOrder ==
  ASSUME Base, OffsetOrder, StableFresh, NEW i \in DOMAIN scans, NEW page \in Seq(Rows), NEW more \in BOOLEAN,
         FetchStep(i, page, more), Running, Orderly, ~AppendOnly, smooth',
         NEW r \in Present, InScope(r), Compared(r) > 0, ~SentFresh(r)
  PROVE  PageInOrder(page, r)
<1>1. /\ Typed /\ r \in Rows /\ ~ctxDone /\ reading.pages \in {"offset", "one"} /\ reading.ordered
      /\ phase = "extract" /\ scans[i].pc = "query"
  BY DEF Base, FetchStep, ScanFrame, Present, Orderly, Running
<1>2. Compared(r) = Shown(r) /\ Shown(r) > 0 /\ Shown(r) \in Nat
  BY <1>1, ComparedIs
<1>3. DOMAIN page = 1..Len(page) /\ Len(page) \in Nat /\ \A k \in DOMAIN page : page[k] \in Rows
  OBVIOUS
<1>4. ASSUME NEW q \in Rows, Rank(q) <= Rank(r) PROVE Compared(r) >= Shown(q)
  BY <1>1, <1>2, <1>4, RankShown
<1>5. Rank(r) \in Nat
  BY <1>1, ComparedIs
<1>6. CASE reading.pages = "one"
  <2>1. WholePage(i, page, more)
    BY <1>6 DEF FetchStep
  <2>2. PICK n \in DOMAIN page : page[n] = r
    BY <1>6, <2>1 DEF WholePage
  <2>3. \A k \in DOMAIN page : k < n => Rank(page[k]) <= Rank(page[n])
    BY <1>1, <2>1 DEF WholePage
  <2>4. ASSUME NEW k \in DOMAIN page
        PROVE  Compared(r) >= Shown(page[k]) \/ \E m \in 1..(k - 1) : page[m] = r /\ m \in DOMAIN page
    <3>1. CASE k <= n
      <4>1. Rank(page[k]) <= Rank(r)
        BY <1>3, <1>5, <2>2, <2>3, <3>1
      <4> QED BY <1>3, <1>4, <4>1
    <3>2. CASE n < k
      BY <1>3, <2>2, <3>2
    <3> QED BY <1>3, <3>1, <3>2
  <2> QED BY <2>4 DEF PageInOrder
<1>7. CASE reading.pages = "offset"
  <2> DEFINE n == scans[i].sent
  <2>0. n \in Nat
    BY <1>1, ScanIs
  <2>1. PICK rows \in Orders(Selected) :
          /\ rows \in Seq(Rows) /\ DOMAIN rows = 1..Len(rows) /\ Len(rows) \in Nat
          /\ \A q \in Selected : \E k \in DOMAIN rows : rows[k] = q
          /\ \A q \in Rows : Sent(q) <=> \E k \in 1..n : rows[k] = q
          /\ n + Len(page) <= Len(rows)
          /\ \A k \in DOMAIN page : n + k \in DOMAIN rows /\ page[k] = rows[n + k]
    <3>1. OneOrderCut(i, page, more)
      BY <1>1, <1>7, OffsetFetch
    <3> QED BY <3>1 DEF OneOrderCut
  <2>2. PICK p \in DOMAIN rows : rows[p] = r
    <3>1. r \in Selected
      BY <1>1, SelectedIs
    <3> QED BY <2>1, <3>1
  <2>3. \A k, m \in DOMAIN rows : k < m => Rank(rows[k]) <= Rank(rows[m])
    BY DEF Orders
  <2>4. p > n
    <3>1. CASE n = 0
      BY <2>1, <2>2, <3>1
    <3>2. CASE n # 0
      <4>1. Later(i)
        BY <2>0, <3>2 DEF Later
      <4>2. changed = {}
        BY <1>1, <4>1 DEF FetchStep
      <4>3. ~Sent(r)
        <5> SUFFICES ASSUME Sent(r) PROVE FALSE
          OBVIOUS
        <5>1. phase # "idle" /\ r \in Rows \ changed
          BY <1>1, <4>2
        <5>2. (taken[r] > 0 => r \in fresh) /\ \A k \in DOMAIN out : out[k].row = r => out[k].at = time[r]
          BY <5>1 DEF StableFresh
        <5> QED BY <5>2 DEF Sent, InOut, SentFresh
      <4>4. p \notin 1..n
        BY <1>1, <2>1, <2>2, <4>3
      <4> QED BY <2>0, <2>1, <4>4
    <3> QED BY <3>1, <3>2
  <2>5. ASSUME NEW k \in DOMAIN page
        PROVE  Compared(r) >= Shown(page[k]) \/ \E m \in 1..(k - 1) : page[m] = r /\ m \in DOMAIN page
    <3> HIDE DEF n
    <3>1. CASE n + k <= p
      <4>1. Rank(rows[n + k]) <= Rank(rows[p])
        <5>1. CASE n + k = p
          BY <1>5, <2>2, <5>1
        <5>2. CASE n + k < p
          BY <2>1, <2>3, <5>2
        <5> QED BY <1>3, <2>0, <2>1, <3>1, <5>1, <5>2
      <4>2. Rank(page[k]) <= Rank(r)
        BY <2>1, <2>2, <4>1
      <4> QED BY <1>3, <1>4, <4>2
    <3>2. CASE p < n + k
      <4>1. p - n \in 1..(k - 1) /\ p - n \in DOMAIN page /\ n + (p - n) = p
        BY <1>3, <2>0, <2>1, <2>4, <3>2
      <4>2. page[p - n] = r
        BY <2>1, <2>2, <4>1
      <4> QED BY <4>1, <4>2
    <3> QED BY <1>3, <2>0, <2>1, <3>1, <3>2
  <2> QED BY <2>5 DEF PageInOrder
<1> QED BY <1>1, <1>6, <1>7

LEMMA InOrderFetch ==
  ASSUME Base, OffsetOrder, StableFresh, InOrder,
         NEW i \in DOMAIN scans, NEW page \in Seq(Rows), NEW more \in BOOLEAN, FetchStep(i, page, more)
  PROVE  InOrder'
<1> SUFFICES ASSUME Running', Orderly' PROVE InOrder'
  BY DEF InOrder
<1>1. /\ FetchesScan(i, page, more) /\ OnlyScan(i)
      /\ UNCHANGED <<time, late, reading, source, start, end, phase, ctxDone, highest, taken, fresh, out>>
      /\ phase = "extract" /\ Typed /\ (smooth' => smooth)
  BY DEF FetchStep, FetchesScan, ScanFrame, scanFrame, tableVars, Base
<1>2. Running /\ Orderly /\ Timely' = Timely /\ (AppendOnly' <=> AppendOnly) /\ (~AppendOnly => smooth')
  BY <1>1 DEF Running, Orderly, AppendOnly, Present, Timely
<1>3. \A r : SentFresh(r)' <=> SentFresh(r)
  BY <1>1 DEF SentFresh
<1>4. \A r : (InScope(r)' <=> InScope(r)) /\ Compared(r)' = Compared(r)
  <2>1. \A r : time'[r] = time[r]
    BY <1>1
  <2> QED BY <1>1, <2>1, SameWindow
<1>5. \A item : Mark(item)' = Mark(item)
  BY <1>1, SameMark
<1>6. /\ DOMAIN scans' = DOMAIN scans /\ \A j \in DOMAIN scans : j # i => scans'[j] = scans[j]
      /\ scans'[i].last = scans[i].last /\ DOMAIN scans'[i].page = DOMAIN page
      /\ \A k \in DOMAIN page : /\ page[k] \in Present
                                /\ scans'[i].page[k] = [row |-> page[k], at |-> time[page[k]]]
                                /\ scans'[i].page[k].row = page[k] /\ scans'[i].page[k].at = time[page[k]]
  BY <1>1 DEF FetchesScan, OnlyScan
<1>7. ASSUME NEW r \in Timely, InScope(r), Compared(r) > 0, ~SentFresh(r) PROVE NotBelow(r)'
  <2>0. r \in Present
    BY DEF Timely
  <2>1. PageInOrder(page, r)
    BY <1>1, <1>2, <1>7, <2>0, KeysInOrder, TimesInOrder
  <2>2. NotBelow(r)
    BY <1>2, <1>7 DEF InOrder
  <2>3. ASSUME NEW k \in DOMAIN page
        PROVE  \/ Compared(r) >= Mark(scans'[i].page[k])
               \/ \E m \in 1..(k - 1) : scans'[i].page[m] = [row |-> r, at |-> time[r]]
    <3>1. scans'[i].page[k].row = page[k] /\ scans'[i].page[k].at = time[page[k]]
      BY <1>6
    <3>2. Mark(scans'[i].page[k]) = IF AppendOnly THEN page[k] ELSE Shown(page[k])
      BY <3>1 DEF Mark, Shown
    <3>3. ASSUME NEW m \in 1..(k - 1), page[m] = r, m \in DOMAIN page
          PROVE  scans'[i].page[m] = [row |-> r, at |-> time[r]]
      BY <1>6, <3>3
    <3> QED BY <2>1, <3>2, <3>3 DEF PageInOrder
  <2>4. \A j \in DOMAIN scans' : \A k \in DOMAIN scans'[j].page :
          \/ Compared(r) >= Mark(scans'[j].page[k])
          \/ \E m \in 1..(k - 1) : scans'[j].page[m] = [row |-> r, at |-> time[r]]
    BY <1>6, <2>2, <2>3 DEF NotBelow
  <2> QED BY <1>1, <1>4, <1>5, <2>2, <2>4 DEF NotBelow
<1>8. \A j \in DOMAIN scans : scans'[j].last = scans[j].last
  BY <1>6
<1> HIDE DEF Present, Timely
<1> QED BY <1>1, <1>2, <1>3, <1>4, <1>6, <1>7, <1>8 DEF InOrder

LEMMA InOrderWrite ==
  ASSUME Base, Marks, InOrder, NEW r \in Rows, Write(r)
  PROVE  InOrder'
<1> SUFFICES ASSUME Running', Orderly' PROVE InOrder'
  BY DEF InOrder
<1>1. /\ clock' = clock + 1 /\ \A q \in Rows : q # r => time'[q] = time[q]
      /\ AppendOnly => time[r] = 0 /\ time'[r] = clock + 1
      /\ fresh' = fresh \ {r} /\ late' \in {late \cup {r}, late \ {r}}
      /\ UNCHANGED <<source, reading, start, end, phase, ctxDone, scans, out, highest, smooth>>
      /\ Typed /\ clock \in Nat /\ r \in Nat \ {0}
  BY WriteIs, ClockIs, ExtractAssumption DEF Base, runVars
<1>2. Running /\ Orderly /\ (AppendOnly' <=> AppendOnly)
  BY <1>1 DEF Running, Orderly, AppendOnly
<1>3. \A item : Mark(item)' = Mark(item)
  BY <1>1, SameMark
<1>4. /\ highest \in Nat /\ \A k \in DOMAIN out : out[k].wm \in Nat
      /\ \A i \in DOMAIN scans : \A k \in DOMAIN scans[i].page :
           scans[i].page[k].row \in Rows /\ scans[i].page[k].at \in Nat
      /\ \A i \in DOMAIN scans : scans[i].last \in Nat
  BY <1>1, OutIs, ScanIs DEF Typed
<1>9. r \in Timely' => time'[r] = clock + 1 /\ (AppendOnly => \A q \in Present : q < r)
  BY <1>1, <1>2, TimelyWrite DEF Running
<1>5. ASSUME NEW q \in Timely', q # r, InScope(q)', Compared(q)' > 0 PROVE SentFresh(q)' \/ NotBelow(q)'
  <2>1. q \in Rows /\ time'[q] = time[q] /\ q \in Timely
    BY <1>1, <1>5 DEF Present, Timely
  <2>2. InScope(q) /\ Compared(q)' = Compared(q)
    BY <1>1, <1>5, <2>1, SameWindow
  <2>3. SentFresh(q) \/ NotBelow(q)
    BY <1>2, <1>5, <2>1, <2>2 DEF InOrder
  <2>4. SentFresh(q) => SentFresh(q)'
    BY <1>1, <1>5, <2>1 DEF SentFresh
  <2>5. NotBelow(q) => NotBelow(q)'
    BY <1>1, <1>3, <2>1, <2>2 DEF NotBelow
  <2> QED BY <2>3, <2>4, <2>5
<1>6. ASSUME r \in Timely', Compared(r)' > 0 PROVE NotBelow(r)'
  <2>1. CASE AppendOnly
    <3>1. Compared(r)' = r
      BY <1>2, <2>1 DEF Compared, AppendOnly
    <3>2. /\ highest \in Present \cup {0} /\ \A k \in DOMAIN out : out[k].wm \in Present
          /\ \A i \in DOMAIN scans : \A k \in DOMAIN scans[i].page : scans[i].page[k].row \in Present
      BY <2>1 DEF Marks
    <3>3. r >= highest /\ \A k \in DOMAIN out : r >= out[k].wm
      BY <1>1, <1>4, <1>6, <1>9, <2>1, <3>2
    <3>4. \A i \in DOMAIN scans : \A k \in DOMAIN scans[i].page : r >= Mark(scans[i].page[k])
      <4>1. \A i \in DOMAIN scans : \A k \in DOMAIN scans[i].page :
              scans[i].page[k].row < r /\ scans[i].page[k].row \in Nat
        BY <1>1, <1>4, <1>6, <1>9, <2>1, <3>2, ExtractAssumption
      <4> QED BY <1>1, <2>1, <4>1 DEF Mark
    <3> QED BY <1>1, <1>3, <3>1, <3>3, <3>4 DEF NotBelow
  <2>2. CASE ~AppendOnly
    <3>1. Compared(r)' = clock + 1
      <4>1. Compared(r)' \in {0, time'[r]}
        BY <1>2, <2>2 DEF Compared, Shown, ShownAt, AppendOnly
      <4> QED BY <1>1, <1>6, <1>9, <4>1
    <3>2. clock + 1 >= highest /\ \A k \in DOMAIN out : clock + 1 >= out[k].wm
      BY <1>1, <1>4, <2>2 DEF Marks
    <3>3. \A i \in DOMAIN scans : \A k \in DOMAIN scans[i].page : clock + 1 >= Mark(scans[i].page[k])
      <4>1. \A i \in DOMAIN scans : \A k \in DOMAIN scans[i].page : scans[i].page[k].at <= clock
        BY DEF Marks
      <4>2. \A i \in DOMAIN scans : \A k \in DOMAIN scans[i].page :
              Mark(scans[i].page[k]) \in {0, scans[i].page[k].at}
        BY <2>2 DEF Mark, ShownAt
      <4> QED BY <1>1, <1>4, <4>1, <4>2
    <3> QED BY <1>1, <1>3, <3>1, <3>2, <3>3 DEF NotBelow
  <2> QED BY <2>1, <2>2
<1>7. ASSUME AppendOnly, NEW i \in DOMAIN scans, NEW q \in Timely', start < q, q <= scans[i].last
      PROVE  SentFresh(q)'
  <2>1. q \in Rows
    BY DEF Present, Timely
  <2>2. CASE q = r
    <3>1. scans[i].last \in Present \cup {0}
      BY <1>7 DEF Marks
    <3>2. scans[i].last < r
      BY <1>1, <1>7, <1>9, <2>2, <3>1
    <3> QED BY <1>1, <1>4, <1>7, <2>2, <3>2
  <2>3. CASE q # r
    <3>1. q \in Timely /\ time'[q] = time[q]
      BY <1>1, <1>7, <2>1, <2>3 DEF Present, Timely
    <3>2. SentFresh(q)
      BY <1>2, <1>7, <3>1 DEF InOrder
    <3> QED BY <1>1, <2>1, <2>3, <3>1, <3>2 DEF SentFresh
  <2> QED BY <2>2, <2>3
<1> HIDE DEF Present, Timely
<1> QED BY <1>1, <1>2, <1>5, <1>6, <1>7 DEF InOrder

LEMMA InOrderStep ==
  ASSUME Base, Marks, OffsetOrder, StableFresh, InOrder, [Next]_vars
  PROVE  InOrder'
<1>0. DOMAIN <<>> = {}
  OBVIOUS
<1>1. CASE Begin \/ Finish \/ EndContext
  BY <1>1 DEF Begin, Finish, EndContext, Running, InOrder
<1>2. CASE StartsScans
  <2>1. /\ phase = "plan" /\ UNCHANGED <<out, highest, start, watermark, time>>
        /\ \A i \in DOMAIN scans' : /\ scans'[i].page = <<>>
                                    /\ scans'[i].last = IF reading'.pages = "keyset" THEN watermark ELSE 0
    BY <1>2 DEF StartsScans, startFrame, tableVars
  <2>2. scans = <<>> /\ start = watermark /\ start \in Nat
    BY <2>1 DEF Base, Phases, Typed
  <2>3. out = <<>> /\ highest = 0
    <3>1. PICK r \in Rows : TRUE
      BY ExtractAssumption
    <3> QED BY <1>0, <2>1, <2>2, NothingSent
  <2>4. \A r \in Timely' : Compared(r)' > 0 => NotBelow(r)'
    <3> SUFFICES ASSUME NEW r \in Timely', Compared(r)' > 0 PROVE NotBelow(r)'
      OBVIOUS
    <3>1. Compared(r)' \in Nat
      <4>1. r \in Rows /\ r \in Nat /\ time[r] \in Nat
        BY ExtractAssumption DEF Present, Timely, Base, Typed
      <4> QED BY <2>1, <4>1 DEF Compared, Shown, ShownAt
    <3> QED BY <1>0, <2>1, <2>3, <3>1 DEF NotBelow
  <2>5. AppendOnly' => \A i \in DOMAIN scans' : scans'[i].last = start'
    BY <2>1, <2>2 DEF AppendOnly
  <2>6. \A r \in Timely' : r \in Nat
    BY ExtractAssumption DEF Present, Timely
  <2> HIDE DEF Present, Timely
  <2> QED BY <2>1, <2>2, <2>4, <2>5, <2>6 DEF InOrder
<1>3. CASE Return
  <2>1. /\ UNCHANGED <<time, late, reading, source, start, end, highest, fresh, ctxDone, smooth>> /\ phase = "extract"
        /\ scans' = <<>> /\ out' = <<>> /\ (out = <<>> \/ stopped)
    BY <1>3 DEF Return, tableVars, bookVars
  <2> SUFFICES ASSUME Running', Orderly' PROVE InOrder'
    BY DEF InOrder
  <2>2. Running /\ Orderly /\ Timely' = Timely /\ out = <<>>
    BY <2>1 DEF Running, Orderly, AppendOnly, Present, Timely, Base, Phases
  <2>3. \A r : (InScope(r)' <=> InScope(r)) /\ Compared(r)' = Compared(r)
    <3>1. \A r : time'[r] = time[r]
      BY <2>1
    <3> QED BY <2>1, <3>1, SameWindow
  <2>4. \A r : SentFresh(r) => SentFresh(r)'
    BY <1>0, <2>1, <2>2 DEF SentFresh
  <2>5. \A r : NotBelow(r) => NotBelow(r)'
    BY <1>0, <2>1, <2>3 DEF NotBelow
  <2> HIDE DEF Present, Timely
  <2> QED BY <1>0, <2>1, <2>2, <2>3, <2>4, <2>5 DEF InOrder
<1>4. ASSUME \/ UNCHANGED vars
             \/ \E i \in DOMAIN scans : FailStep(i) \/ EndStep(i)
      PROVE InOrder'
  <2>1. UNCHANGED <<time, late, reading, source, start, end, highest, fresh, ctxDone, smooth, phase, out>>
    BY <1>4 DEF vars, tableVars, runVars, bookVars, FailStep, EndStep, ScanFrame, scanFrame
  <2> SUFFICES ASSUME Running', Orderly' PROVE InOrder'
    BY DEF InOrder
  <2>2. /\ DOMAIN scans' = DOMAIN scans
        /\ \A j \in DOMAIN scans : scans'[j].last = scans[j].last
        /\ \A j \in DOMAIN scans : scans'[j].page = <<>> \/ scans'[j] = scans[j]
    <3>1. CASE UNCHANGED vars
      BY <3>1 DEF vars, runVars
    <3>2. ASSUME NEW i \in DOMAIN scans, FailStep(i) \/ EndStep(i)
          PROVE  /\ DOMAIN scans' = DOMAIN scans
                 /\ \A j \in DOMAIN scans : scans'[j].last = scans[j].last
                 /\ \A j \in DOMAIN scans : scans'[j].page = <<>> \/ scans'[j] = scans[j]
      BY <3>2 DEF FailStep, EndStep, FailsScan, EndsPage, OnlyScan
    <3> QED BY <1>4, <3>1, <3>2
  <2>3. Running /\ Orderly /\ Timely' = Timely /\ (AppendOnly' <=> AppendOnly)
    BY <2>1 DEF Running, Orderly, AppendOnly, Present, Timely
  <2>4. \A r : (InScope(r)' <=> InScope(r)) /\ Compared(r)' = Compared(r)
    <3>1. \A r : time'[r] = time[r]
      BY <2>1
    <3> QED BY <2>1, <3>1, SameWindow
  <2>5. \A item : Mark(item)' = Mark(item)
    BY <2>1, SameMark
  <2>6. \A r : SentFresh(r)' <=> SentFresh(r)
    BY <2>1 DEF SentFresh
  <2>7. ASSUME NEW r, NotBelow(r) PROVE NotBelow(r)'
    BY <1>0, <2>1, <2>2, <2>4, <2>5, <2>7 DEF NotBelow
  <2> HIDE DEF Present, Timely
  <2> QED BY <2>1, <2>2, <2>3, <2>4, <2>6, <2>7 DEF InOrder
<1> QED BY <1>1, <1>2, <1>3, <1>4, StepCases, InOrderTake, InOrderSend, InOrderFetch, InOrderWrite

------------------------------------------------------------------------------
\* Rows that changed

LEMMA NewerTake ==
  ASSUME Base, Take, NEW r, Newer(r)
  PROVE  Newer(r)'
<1>1. TakesHead /\ UNCHANGED <<time, late, scans>> /\ Typed
  BY TakeIs DEF Base, takeFrame, tableVars
<1>2. /\ highest' \in {highest, out[1].wm} /\ 1 \in DOMAIN out
      /\ \A k \in DOMAIN out' : k + 1 \in DOMAIN out /\ out'[k] = out[k + 1]
  BY <1>1 DEF TakesHead
<1> QED BY <1>1, <1>2 DEF Newer

LEMMA NewerKept ==
  ASSUME NEW r, Newer(r), time'[r] = time[r], UNCHANGED highest,
         \A k \in DOMAIN out' : k \in DOMAIN out /\ out'[k] = out[k],
         \A i \in DOMAIN scans' : \A k \in DOMAIN scans'[i].page :
           i \in DOMAIN scans /\ k \in DOMAIN scans[i].page /\ scans'[i].page[k] = scans[i].page[k]
  PROVE  Newer(r)'
BY DEF Newer

LEMMA NewerSend ==
  ASSUME Base, NEW i \in DOMAIN scans, SendStep(i), smooth', changed # {}, ~AppendOnly,
         NEW r \in Rows, Newer(r)
  PROVE  Newer(r)'
<1>1. /\ SendsRow(i) /\ AppendsOut(i) /\ UNCHANGED <<time, late, highest>> /\ Typed
  BY DEF SendStep, ScanFrame, scanFrame, tableVars, Base
<1>2. PICK h \in PageItem : h = scans[i].page[1] /\ 1 \in DOMAIN scans[i].page
  BY <1>1, ScanIs, ItemIs
<1>3. h.row \in Rows /\ h.at \in Nat /\ time[r] \in Nat /\ h.at < time[r]
  <2>1. h.row \in Rows /\ h.at \in Nat
    BY DEF PageItem
  <2>2. time[r] \in Nat
    BY <1>1, ComparedIs, ClockIs
  <2> QED BY <1>2, <2>1, <2>2 DEF Newer
<1>4. RowWatermark(h.row, h.at) < time[r]
  <2>1. /\ ShownAt(h.row, h.at) \in {0, h.at}
        /\ RowWatermark(h.row, h.at) = IF reading.bare = "now" /\ ShownAt(h.row, h.at) = 0
                                         THEN clock ELSE ShownAt(h.row, h.at)
    BY <1>1, <1>3, WatermarkIs
  <2>2. ~(reading.bare = "now" /\ ShownAt(h.row, h.at) = 0)
    BY <1>2 DEF SendStep
  <2> QED BY <1>3, <2>1, <2>2
<1>5. /\ \A k \in DOMAIN out' : \/ k \in DOMAIN out /\ out'[k] = out[k]
                                \/ out'[k].wm = RowWatermark(h.row, h.at)
      /\ DOMAIN scans' = DOMAIN scans /\ \A j \in DOMAIN scans : j # i => scans'[j] = scans[j]
      /\ \A k \in DOMAIN scans'[i].page : /\ k + 1 \in DOMAIN scans[i].page
                                          /\ scans'[i].page[k] = scans[i].page[k + 1]
  <2>1. \A k \in DOMAIN out' : \/ k \in DOMAIN out /\ out'[k] = out[k]
                               \/ out'[k].wm = RowWatermark(h.row, h.at)
    BY <1>1, <1>2 DEF AppendsOut
  <2>2. /\ DOMAIN scans' = DOMAIN scans /\ \A j \in DOMAIN scans : j # i => scans'[j] = scans[j]
        /\ \A k \in DOMAIN scans'[i].page : /\ k + 1 \in DOMAIN scans[i].page
                                            /\ scans'[i].page[k] = scans[i].page[k + 1]
    BY <1>1 DEF SendsRow, OnlyScan
  <2> QED BY <2>1, <2>2
<1>6. \A k \in DOMAIN out' : time[r] > out'[k].wm
  BY <1>3, <1>4, <1>5 DEF Newer
<1>7. \A j \in DOMAIN scans' : \A k \in DOMAIN scans'[j].page : time[r] > scans'[j].page[k].at
  BY <1>5 DEF Newer
<1> QED BY <1>1, <1>6, <1>7 DEF Newer

LEMMA NewerWrite ==
  ASSUME Base, Marks, ~AppendOnly, NEW r \in Rows, Write(r), r \in Timely', phase # "idle"
  PROVE  Newer(r)'
<1>1. /\ time'[r] = clock + 1 /\ clock \in Nat /\ Typed
      /\ UNCHANGED <<scans, out, highest>>
  BY WriteIs, ClockIs, TimelyWrite DEF Base, runVars
<1>2. highest \in Nat /\ highest <= clock /\ \A k \in DOMAIN out : out[k].wm \in Nat /\ out[k].wm <= clock
  BY <1>1, OutIs DEF Marks, Typed
<1>3. \A i \in DOMAIN scans : \A k \in DOMAIN scans[i].page :
        scans[i].page[k].at \in Nat /\ scans[i].page[k].at <= clock
  BY <1>1, ScanIs DEF Marks
<1> QED BY <1>1, <1>2, <1>3 DEF Newer

(* The first statement of a run that is alone reads all there is, one of     *)
(* several leaves another.                                                 *)
LEMMA ChangedFetch ==
  ASSUME Base, OffsetOrder, NEW i \in DOMAIN scans, NEW page \in Seq(Rows), NEW more \in BOOLEAN,
         FetchStep(i, page, more), ~ctxDone, smooth', changed # {}, ~AppendOnly,
         NEW r \in Present, InScope(r)
  PROVE  Reached(r)' \/ Another'
<1>1. /\ Typed /\ Scans /\ phase = "extract" /\ scans[i].pc = "query" /\ scans[i].page = <<>> /\ DOMAIN <<>> = {}
      /\ OnlyScan(i) /\ UNCHANGED <<reading, changed>> /\ r \in Rows /\ r \in Nat \ {0}
  BY ExtractAssumption DEF Base, FetchStep, ScanFrame, scanFrame, FetchesScan, Scans, Present
<1>2. ~Later(i)
  BY DEF FetchStep
<1>3. scans[i].sent = 0 /\ \A j \in DOMAIN scans : scans[j].pc = "query"
  BY <1>1, <1>2, ScanIs DEF Later
<1>4. CASE reading.pages = "ranges"
  <2>1. Len(scans) >= 2 /\ DOMAIN scans = 1..Len(scans) /\ Len(scans) \in Nat
    BY <1>1, <1>4, ScanIs DEF Scans
  <2>2. PICK j \in DOMAIN scans : j # i
    <3>1. 1 \in DOMAIN scans /\ 2 \in DOMAIN scans
      BY <2>1
    <3> QED BY <3>1
  <2>3. j \in DOMAIN scans' /\ scans'[j].pc = "query"
    BY <1>1, <1>3, <2>2 DEF OnlyScan
  <2> QED BY <1>1, <1>4, <2>3 DEF Another
<1>5. CASE reading.pages # "ranges"
  <2>1. DOMAIN scans = {i}
    BY <1>5, OnlyOne
  <2>2. ~Sent(r) /\ ~InPage(i, r)
    BY <1>1, <1>3, <2>1, NothingSent DEF InPage
  <2>3. scans[i].last = 0
    BY <1>1, <1>3 DEF Scans
  <2>4. ToCome(i, r)
    <3>1. reading.pages \in {"offset", "server", "one"}
      BY <1>1, <1>5 DEF Scans, AppendOnly
    <3>2. CASE reading.pages = "server"
      BY <1>1, <2>3, <3>2 DEF ToCome
    <3>3. CASE reading.pages = "offset"
      BY <1>1, <2>2, <3>3 DEF ToCome
    <3>4. CASE reading.pages = "one"
      BY <1>1, <3>4 DEF ToCome
    <3> QED BY <3>1, <3>2, <3>3, <3>4
  <2>5. Reached(r)
    BY <2>4 DEF Reached
  <2> QED BY <2>5, ReachedFetch
<1> QED BY <1>4, <1>5

LEMMA ChangedStep ==
  ASSUME Base, Marks, OffsetOrder, ChangedSeen, [Next]_vars
  PROVE  ChangedSeen'
<1> SUFFICES ASSUME Running', failed' = "no", ~cutShort', smooth', ~AppendOnly',
                    NEW r \in Timely', r \in changed', InScope(r)', Compared(r)' > 0
             PROVE  Reached(r)' \/ Newer(r)' \/ Another'
  BY DEF ChangedSeen
<1>0. r \in Rows /\ DOMAIN <<>> = {} /\ ~AppendOnly /\ r \in Present'
  BY AppendOnlyStep DEF Present, Timely
<1>1. CASE Begin \/ Finish \/ EndContext
  BY <1>1 DEF Begin, Finish, EndContext, Running
<1>2. CASE StartsScans
  <2>1. r \in Present
    BY <1>0, <1>2 DEF StartsScans, startFrame, tableVars, Present
  <2> QED BY <1>0, <1>2, <2>1, ReachedStart
<1>3. CASE Take \/ Return
  <2>1. UNCHANGED <<source, reading, time, late, ctxDone, failed, cutShort, smooth, changed, start, end>> /\ phase = "extract"
    BY <1>3 DEF Take, Return, tableVars, bookVars
  <2>2. Timely' = Timely /\ r \in Timely /\ InScope(r) /\ Compared(r) > 0 /\ ~ctxDone
    BY <2>1, SameWindow DEF Present, Timely, Running
  <2>3. Reached(r) \/ Newer(r) \/ Another
    BY <1>0, <2>1, <2>2 DEF ChangedSeen, Running
  <2>4. CASE Take
    <3>1. Another => Another'
      BY <2>1, <2>4 DEF Another, Take
    <3> QED BY <1>0, <2>2, <2>3, <2>4, <3>1, ReachedTake, NewerTake
  <2>5. CASE Return
    <3>1. ~Another
      BY <2>5 DEF Another, Return
    <3>2. Newer(r) => Newer(r)'
      <4>1. UNCHANGED <<time, highest>> /\ out' = <<>> /\ scans' = <<>>
        BY <2>5 DEF Return, tableVars
      <4> QED BY <1>0, <4>1, NewerKept
    <3> QED BY <2>2, <2>3, <2>5, <3>1, <3>2, ReachedReturn
  <2> QED BY <1>3, <2>4, <2>5
<1>4. CASE UNCHANGED vars
  <2>1. UNCHANGED <<source, reading, time, late, ctxDone, phase, failed, cutShort, smooth, changed, start, end,
                    out, taken, scans, fresh, highest>>
    BY <1>4 DEF vars, tableVars, runVars, bookVars
  <2>2. Timely' = Timely /\ r \in Timely /\ InScope(r) /\ Compared(r) > 0
    BY <2>1, SameWindow DEF Present, Timely
  <2>3. Reached(r) \/ Newer(r) \/ Another
    BY <1>0, <2>1, <2>2 DEF ChangedSeen, Running
  <2>4. Another => Another'
    BY <2>1 DEF Another
  <2>5. Newer(r) => Newer(r)'
    BY <2>1, NewerKept
  <2> QED BY <2>1, <2>3, <2>4, <2>5, ReachedStays
<1>5. ASSUME NEW q \in Rows, Write(q) PROVE Reached(r)' \/ Newer(r)' \/ Another'
  <2>1. /\ UNCHANGED <<source, reading, ctxDone, phase, failed, cutShort, smooth, start, end, out, taken, scans, highest>>
        /\ \A p \in Rows : p # q => time'[p] = time[p]
        /\ changed' = changed \cup {q} /\ fresh' = fresh \ {q}
        /\ late' \in {late \cup {q}, late \ {q}}
    BY <1>5, WriteIs DEF Base, runVars
  <2>2. CASE r = q
    BY <1>0, <1>5, <2>1, <2>2, NewerWrite DEF Running
  <2>3. CASE r # q
    <3>1. r \in changed /\ time'[r] = time[r] /\ (r \in fresh' <=> r \in fresh)
      BY <1>0, <2>1, <2>3
    <3>2. r \in Timely /\ InScope(r) /\ Compared(r) > 0
      <4>1. r \in Timely
        BY <1>0, <2>1, <2>3, <3>1 DEF Present, Timely
      <4> QED BY <1>0, <2>1, <3>1, <4>1, SameWindow
    <3>3. Reached(r) \/ Newer(r) \/ Another
      BY <1>0, <2>1, <3>1, <3>2 DEF ChangedSeen, Running
    <3>4. Another => Another'
      BY <2>1 DEF Another
    <3>5. Newer(r) => Newer(r)'
      BY <2>1, <3>1, NewerKept
    <3> QED BY <2>1, <3>1, <3>3, <3>4, <3>5, ReachedStays
  <2> QED BY <2>2, <2>3
<1>6. ASSUME NEW i \in DOMAIN scans,
             \/ FailStep(i) \/ EndStep(i) \/ SendStep(i)
             \/ \E page \in Seq(Rows), more \in BOOLEAN : FetchStep(i, page, more)
      PROVE  Reached(r)' \/ Newer(r)' \/ Another'
  <2>1. ~FailStep(i)
    BY DEF FailStep, FailsScan
  <2>2. /\ UNCHANGED <<source, reading, time, late, phase, ctxDone, failed, cutShort, changed, start, end, highest>>
        /\ phase = "extract" /\ smooth
    BY <1>6, <2>1 DEF EndStep, SendStep, FetchStep, ScanFrame, scanFrame, tableVars
  <2>3. Timely' = Timely /\ r \in Timely /\ InScope(r) /\ Compared(r) > 0 /\ ~ctxDone
    BY <2>2, SameWindow DEF Present, Timely, Running
  <2>4. Reached(r) \/ Newer(r) \/ Another
    BY <1>0, <2>2, <2>3 DEF ChangedSeen, Running
  <2>5. EndStep(i) \/ SendStep(i) => (Another => Another')
    <3> SUFFICES ASSUME EndStep(i) \/ SendStep(i), Another PROVE Another'
      OBVIOUS
    <3>1. PICK j \in DOMAIN scans : scans[j].pc = "query"
      BY DEF Another
    <3>2. scans[i].pc = "emit" /\ OnlyScan(i)
      BY <3>1 DEF EndStep, SendStep, EndsPage, SendsRow
    <3>3. j \in DOMAIN scans' /\ scans'[j].pc = "query"
      BY <3>1, <3>2 DEF OnlyScan
    <3> QED BY <2>2, <3>3 DEF Another
  <2>6. CASE EndStep(i)
    <3>1. Newer(r) => Newer(r)'
      <4>1. UNCHANGED out /\ OnlyScan(i) /\ scans'[i].page = <<>>
        BY <2>6 DEF EndStep, EndsPage
      <4> QED BY <1>0, <2>2, <4>1, NewerKept DEF OnlyScan
    <3> QED BY <2>4, <2>5, <2>6, <3>1, ReachedEnd
  <2>7. CASE SendStep(i)
    <3>1. changed # {}
      BY <2>2
    <3> QED BY <1>0, <2>4, <2>5, <2>7, <3>1, ReachedSend, NewerSend
  <2>8. ASSUME NEW page \in Seq(Rows), NEW more \in BOOLEAN, FetchStep(i, page, more)
        PROVE  Reached(r)' \/ Newer(r)' \/ Another'
    <3>1. changed # {} /\ r \in Present
      BY <2>2, <2>3 DEF Timely
    <3> QED BY <1>0, <2>3, <2>8, <3>1, ChangedFetch
  <2> QED BY <1>6, <2>1, <2>6, <2>7, <2>8
<1> QED BY <1>1, <1>2, <1>3, <1>4, <1>5, <1>6, StepCases

------------------------------------------------------------------------------
\* The position

(* Leaving pages for ranges, or ranges for pages, compares the same.        *)
LEMMA SameAhead ==
  ASSUME Typed, UNCHANGED <<source, time, watermark>>,
         reading' # reading => reading' \in {ReadingOf(source), PgPages} /\ ReadingOf(source) = PgRanges
  PROVE  \A r : Compared(r)' = Compared(r) /\ (Ahead(r)' <=> Ahead(r))
<1>1. CASE reading' = reading
  <2>1. \A r : Compared(r)' = Compared(r)
    BY <1>1 DEF Compared, Shown, ShownAt
  <2> QED BY <1>1, <2>1 DEF Ahead, AppendOnly, Above
<1>2. CASE reading' # reading
  <2>1. {reading, reading'} \subseteq {PgPages, PgRanges}
    BY <1>2 DEF Typed
  <2>2. /\ reading.pages \in {"offset", "ranges"} /\ reading'.pages \in {"offset", "ranges"}
        /\ reading.lower = reading'.lower
    BY <2>1, PagesIs
  <2>3. \A r : Compared(r) = Shown(r) /\ Compared(r)' = Shown(r)'
    BY <2>2 DEF Compared
  <2>4. \A r : Shown(r)' = Shown(r)
    BY DEF Shown, ShownAt
  <2>5. ~AppendOnly /\ ~AppendOnly'
    BY <2>2 DEF AppendOnly
  <2> QED BY <2>2, <2>3, <2>4, <2>5 DEF Ahead, Above
<1> QED BY <1>1, <1>2

LEMMA PassedKept ==
  ASSUME Typed, NothingPassed, UNCHANGED <<source, time, watermark, unread, late, tied>>,
         smooth' => smooth, cutShort => cutShort',
         reading' # reading => reading' \in {ReadingOf(source), PgPages} /\ ReadingOf(source) = PgRanges
  PROVE  NothingPassed'
<1>1. \A r : Compared(r)' = Compared(r) /\ (Ahead(r)' <=> Ahead(r))
  BY SameAhead
<1>2. Timely' = Timely /\ ReadingOf(source)' = ReadingOf(source)
  BY DEF Present, Timely
<1> HIDE DEF Timely, ReadingOf
<1> QED BY <1>1, <1>2 DEF NothingPassed

LEMMA PassedWrite ==
  ASSUME Base, Marks, NothingPassed, NEW r \in Rows, Write(r)
  PROVE  NothingPassed'
<1>1. /\ clock' = clock + 1 /\ time'[r] \in Nat /\ \A q \in Rows : q # r => time'[q] = time[q]
      /\ tied' = tied \ {r} /\ late' \in {late \cup {r}, late \ {r}}
      /\ \A q \in unread' : q # r => q \in unread
      /\ UNCHANGED <<source, reading, start, end, smooth, cutShort, watermark>>
      /\ Typed /\ clock \in Nat /\ r \in Nat \ {0} /\ watermark \in Nat
  <2>1. Typed /\ clock \in Nat /\ r \in Nat \ {0} /\ watermark \in Nat
    BY ClockIs, ExtractAssumption DEF Base, Typed
  <2>2. unread' = (IF time'[r] > 0 THEN unread \cup {r} ELSE unread \ {r})
    BY <2>1, WriteIs
  <2>3. \A q \in unread' : q # r => q \in unread
    BY <2>2
  <2> QED BY <2>1, <2>3, WriteIs DEF runVars
<1>2. ASSUME NEW q \in Rows, q # r, q \in ((Timely \cap unread) \ tied)'
      PROVE  /\ q \in (Timely \cap unread) \ tied
             /\ Compared(q)' = Compared(q) /\ (Ahead(q)' <=> Ahead(q))
  <2>1. time'[q] = time[q] /\ q \in Timely /\ q \in unread /\ q \notin tied
    BY <1>1, <1>2 DEF Present, Timely
  <2>2. Compared(q)' = Compared(q)
    BY <1>1, <2>1, SameWindow
  <2> QED BY <1>1, <2>1, <2>2 DEF Ahead, AppendOnly, Above
<1>6. r \in Timely' => IF AppendOnly THEN r > watermark ELSE time'[r] > watermark
  BY TimelyWrite
<1>3. ASSUME r \in Timely', Compared(r)' > 0 PROVE Ahead(r)'
  <2>1. CASE AppendOnly
    <3>2. r > watermark
      BY <1>3, <1>6, <2>1
    <3> QED BY <1>1, <2>1, <3>2 DEF Ahead, AppendOnly
  <2>2. CASE ~AppendOnly
    <3>1. Compared(r)' = time'[r]
      <4>1. Compared(r)' \in {0, time'[r]}
        BY <1>1, <2>2 DEF Compared, Shown, ShownAt, AppendOnly
      <4> QED BY <1>1, <1>3, <4>1
    <3>2. time'[r] > watermark
      BY <1>3, <1>6, <2>2
    <3>3. Above(reading.lower, time'[r], watermark)
      BY <1>1, <3>2, ReadingNow, AboveWhenGreater
    <3> QED BY <1>1, <2>2, <3>1, <3>3 DEF Ahead, AppendOnly, Above
  <2> QED BY <2>1, <2>2
<1>4. ReadingOf(source)' = ReadingOf(source)
  BY <1>1
<1>5. \A q \in Timely' : q \in Rows
  BY DEF Present, Timely
<1> HIDE DEF Timely, ReadingOf
<1> QED BY <1>1, <1>2, <1>3, <1>4, <1>5 DEF NothingPassed

LEMMA PassedFinish ==
  ASSUME Base, Marks, StableSeen, ChangedSeen, InOrder, UpToEnd, NothingPassed, Finish
  PROVE  NothingPassed'
<1>1. /\ phase = "ended" /\ UNCHANGED <<source, reading, time, late, smooth, cutShort>>
      /\ IF ~ctxDone /\ failed # "error"
           THEN /\ watermark' = IF highest > 0 THEN highest ELSE watermark
                /\ unread' = unread \ fresh /\ tied' = tied \cup WrittenAt(watermark')
           ELSE UNCHANGED <<watermark, unread, tied>>
      /\ Typed /\ scans = <<>> /\ out = <<>> /\ DOMAIN <<>> = {}
      /\ start = watermark /\ highest \in Nat /\ end \in Nat /\ watermark \in Nat
      /\ failed \in {"no", "error", "timeout"}
  BY DEF Finish, Base, Phases, Typed, tableVars
<1>2. \A r : Compared(r)' = Compared(r)
  BY <1>1 DEF Compared, Shown, ShownAt
<1>3. Timely' = Timely /\ ReadingOf(source)' = ReadingOf(source)
  BY <1>1 DEF Present, Timely
<1>4. CASE ~(~ctxDone /\ failed # "error")
  BY <1>1, <1>4, PassedKept
<1>5. CASE ~ctxDone /\ failed # "error"
  <2> SUFFICES ASSUME smooth, cutShort => ReadingOf(source).ordered /\ ReadingOf(source).bare # "now",
                      NEW r \in Timely, r \in unread', r \notin tied', Compared(r) > 0
               PROVE  Ahead(r)'
    BY <1>1, <1>2, <1>3 DEF NothingPassed
  <2>9. r \in Present
    BY DEF Timely
  <2>0. /\ r \in Rows /\ r \in unread /\ r \notin fresh /\ r \notin tied /\ Running
        /\ Compared(r) \in Nat /\ Compared(r) # watermark'
    <3>1. r \in Rows /\ Running
      BY <1>1, <1>5, <2>9 DEF Present, Running
    <3>2. r \in unread /\ r \notin fresh /\ r \notin tied /\ r \notin WrittenAt(watermark')
      BY <1>1, <1>5
    <3>3. Compared(r) \in Nat
      BY <1>1, <3>1, ComparedIs
    <3> HIDE DEF Present
    <3> QED BY <2>9, <3>1, <3>2, <3>3 DEF WrittenAt
  <2>1. Ahead(r)
    BY <2>0 DEF NothingPassed
  <2>2. Ahead(r)' <=> IF AppendOnly THEN r > watermark' ELSE Above(reading.lower, Compared(r), watermark')
    BY <1>1, <1>2 DEF Ahead, AppendOnly, Above
  <2>3. CASE highest = 0
    <3>1. watermark' = watermark
      BY <1>1, <1>5, <2>3
    <3> QED BY <2>1, <2>2, <3>1 DEF Ahead
  <2>4. CASE highest > 0
    <3>1. watermark' = highest
      BY <1>1, <1>5, <2>4
    <3>2. CASE Compared(r) > highest
      <4>1. AppendOnly => r > watermark'
        BY <1>1, <2>0, <3>1, <3>2, ComparedIs
      <4>2. Above(reading.lower, Compared(r), watermark')
        BY <1>1, <2>0, <3>1, <3>2, ReadingNow, AboveWhenGreater
      <4> QED BY <2>2, <4>1, <4>2
    <3>3. CASE Compared(r) < highest
      <4>1. InScope(r)
        <5>1. CASE AppendOnly
          BY <1>1, <2>1, <5>1 DEF Ahead, InScope
        <5>2. CASE ~AppendOnly
          <6>1. Above(reading.lower, Compared(r), start)
            BY <1>1, <2>1, <5>2 DEF Ahead
          <6>2. UpTo(reading.upper, Compared(r), end)
            <7>1. reading.upper \in {"none", "ifGiven", "always"}
              BY <1>1, ReadingNow
            <7>2. Limited => Compared(r) <= end
              <8>1. Limited => highest <= end
                BY <1>1 DEF UpToEnd
              <8> QED BY <1>1, <2>0, <3>3, <8>1
            <7>3. UpTo("none", Compared(r), end)
              BY DEF UpTo
            <7>4. CASE reading.upper = "ifGiven"
              <8>1. end = 0 \/ Compared(r) <= end
                BY <7>2, <7>4 DEF Limited
              <8>2. UpTo("ifGiven", Compared(r), end)
                BY <8>1 DEF UpTo
              <8> QED BY <7>4, <8>2
            <7>5. CASE reading.upper = "always"
              <8>1. Compared(r) <= end
                BY <7>2, <7>5 DEF Limited
              <8>2. UpTo("always", Compared(r), end)
                BY <8>1 DEF UpTo
              <8> QED BY <7>5, <8>2
            <7> QED BY <7>1, <7>3, <7>4, <7>5
          <6> QED BY <5>2, <6>1, <6>2 DEF InScope, InWindow
        <5> QED BY <5>1, <5>2
      <4>2. ~SentFresh(r) /\ ~Reached(r)
        BY <1>1, <2>0 DEF SentFresh, Reached, Held
      <4>3. CASE Orderly
        <5>1. NotBelow(r)
          BY <2>0, <4>1, <4>2, <4>3 DEF InOrder
        <5>2. Compared(r) >= highest
          BY <5>1 DEF NotBelow
        <5> QED BY <1>1, <2>0, <3>3, <5>2
      <4>4. CASE ~Orderly
        <5>1. ~AppendOnly
          BY <4>4 DEF Orderly
        <5>2. ~cutShort
          <6> SUFFICES ASSUME cutShort PROVE FALSE
            OBVIOUS
          <6>1. ReadingOf(source).ordered /\ ReadingOf(source).bare # "now"
            OBVIOUS
          <6>2. reading = ReadingOf(source)
            BY <1>1, <6>1, PagesIs DEF Typed
          <6>3. reading.ordered /\ reading.bare # "now"
            BY <6>1, <6>2
          <6>4. reading.pages \in {"offset", "one"}
            BY <1>1, <5>1, <6>3, ReadingNow DEF AppendOnly
          <6> QED BY <4>4, <6>3, <6>4 DEF Orderly
        <5>3. failed = "no"
          BY <1>1, <1>5, <5>2 DEF Base, Phases
        <5>4. CASE r \in changed
          <6>1. Reached(r) \/ Newer(r) \/ Another
            BY <2>0, <4>1, <5>1, <5>2, <5>3, <5>4 DEF ChangedSeen
          <6>2. ~Another
            BY <1>1 DEF Another
          <6>3. time[r] > highest /\ Compared(r) = time[r]
            BY <1>1, <2>0, <4>2, <5>1, <6>1, <6>2, ComparedIs DEF Newer
          <6> QED BY <1>1, <2>0, <3>3, <6>3
        <5>5. CASE r \notin changed
          BY <2>0, <2>9, <4>1, <4>2, <5>1, <5>2, <5>3, <5>5 DEF StableSeen
        <5> QED BY <5>4, <5>5
      <4> QED BY <4>3, <4>4
    <3> QED BY <1>1, <2>0, <3>1, <3>2, <3>3
  <2> QED BY <1>1, <2>3, <2>4
<1> QED BY <1>4, <1>5

LEMMA PassedStep ==
  ASSUME Base, Marks, StableSeen, ChangedSeen, InOrder, UpToEnd, NothingPassed, [Next]_vars
  PROVE  NothingPassed'
<1>0. Typed
  BY DEF Base
<1>1. CASE Begin
  <2>1. /\ UNCHANGED <<source, time, watermark, unread, late, tied, smooth, cutShort>>
        /\ reading' = ReadingOf(source)
    BY <1>1 DEF Begin, tableVars
  <2>2. reading' # reading => ReadingOf(source) = PgRanges
    BY <1>0, <2>1 DEF Typed
  <2> QED BY <1>0, <2>1, <2>2, PassedKept
<1>2. CASE StartsScans
  <2>1. /\ UNCHANGED <<source, time, watermark, unread, late, tied, smooth>> /\ (cutShort => cutShort')
        /\ reading' = reading \/ (reading.pages = "ranges" /\ reading' = PgPages)
    BY <1>2 DEF StartsScans, startFrame, tableVars
  <2>2. reading' # reading => ReadingOf(source) = PgRanges
    BY <1>0, <2>1, PagesIs, ReadingNow, ReadingOfIs DEF Typed
  <2> QED BY <1>0, <2>1, <2>2, PassedKept
<1>4. CASE Take \/ Return \/ EndContext \/ UNCHANGED vars
  BY <1>0, <1>4, PassedKept DEF Take, Return, EndContext, vars, tableVars, bookVars
<1>5. ASSUME NEW i \in DOMAIN scans,
             \/ FailStep(i) \/ EndStep(i) \/ SendStep(i)
             \/ \E page \in Seq(Rows), more \in BOOLEAN : FetchStep(i, page, more)
      PROVE  NothingPassed'
  <2>1. UNCHANGED <<source, reading, time, watermark, unread, late, tied>> /\ (smooth' => smooth)
    <3>1. ScanFrame => UNCHANGED <<source, reading, time, watermark, unread, late, tied>>
      BY DEF ScanFrame, scanFrame, tableVars
    <3>2. ScanFrame
      BY <1>5 DEF FailStep, EndStep, SendStep, FetchStep
    <3>3. smooth' => smooth
      BY <1>5 DEF FailStep, EndStep, SendStep, FetchStep
    <3> QED BY <3>1, <3>2, <3>3
  <2>2. cutShort => cutShort'
    BY <1>5 DEF FailStep, EndStep, SendStep, FetchStep, FailsScan
  <2> QED BY <1>0, <2>1, <2>2, PassedKept
<1> QED BY <1>1, <1>2, <1>4, <1>5, StepCases, PassedFinish, PassedWrite

------------------------------------------------------------------------------
\* The invariant

Top == Max(Rows \cup {MaxTime})
Interval == {start, end} \subseteq 0..Top

LEMMA TopIs ==
  /\ Top \in Nat /\ MaxTime <= Top /\ MaxTime \in Nat
  /\ \A r \in Rows : r \in Nat /\ r <= Top
<1>1. MaxTime \in Nat /\ Rows \subseteq Nat /\ IsFiniteSet(Rows)
  BY ExtractAssumption
<1>2. Rows \cup {MaxTime} \in SUBSET Nat /\ IsFiniteSet(Rows \cup {MaxTime})
  BY <1>1, FS_AddElement
<1>3. Top \in Rows \cup {MaxTime} /\ \A y \in Rows \cup {MaxTime} : y <= Top
  BY <1>2, MaxIs DEF Top
<1>4. MaxTime \in Rows \cup {MaxTime} /\ \A r \in Rows : r \in Rows \cup {MaxTime}
  OBVIOUS
<1> QED BY <1>1, <1>3, <1>4

(* A mark of either kind is below the top.                                  *)
LEMMA MarkBelowTop ==
  ASSUME Typed, NEW n \in Nat, AppendOnly => n \in Present \cup {0}, ~AppendOnly => n <= clock
  PROVE  n \in 0..Top
<1>1. clock \in Nat /\ clock <= MaxTime
  BY ClockIs
<1>2. CASE AppendOnly
  <2>1. n \in Rows \cup {0}
    BY <1>2 DEF Present
  <2> QED BY <2>1, TopIs
<1>3. CASE ~AppendOnly
  BY <1>1, <1>3, TopIs
<1> QED BY <1>2, <1>3

LEMMA IntervalStep ==
  ASSUME Base, Marks, Interval, [Next]_vars
  PROVE  Interval'
<1>1. CASE Begin
  <2>1. watermark \in Nat /\ clock \in Nat /\ clock <= MaxTime
    BY ClockIs DEF Base, Typed
  <2>2. watermark \in 0..Top
    BY <2>1, MarkBelowTop DEF Base, Marks
  <2>3. start' = watermark /\ end' \in {0, clock}
    BY <1>1 DEF Begin
  <2> QED BY <2>1, <2>2, <2>3, TopIs DEF Interval, Top
<1>2. CASE UNCHANGED <<start, end>>
  BY <1>2 DEF Interval, Top
<1>3. StartsScans => UNCHANGED <<start, end>>
  BY DEF StartsScans, startFrame
<1>4. Take \/ Return \/ Finish \/ EndContext \/ UNCHANGED vars => UNCHANGED <<start, end>>
  BY DEF Take, Return, Finish, EndContext, vars, runVars
<1>5. ScanFrame => UNCHANGED <<start, end>>
  BY DEF ScanFrame, scanFrame
<1>6. \A r \in Rows : Write(r) => UNCHANGED <<start, end>>
  BY DEF Write, runVars
<1> QED BY <1>1, <1>2, <1>3, <1>4, <1>5, <1>6, StepCases DEF FailStep, EndStep, SendStep, FetchStep

ExtractInv ==
  /\ Base /\ Marks /\ Interval /\ Counts /\ OffsetOrder /\ Unique
  /\ StableFresh /\ StableSeen /\ ChangedSeen /\ InOrder /\ UpToEnd /\ NothingPassed

LEMMA ExtractInit == Init => ExtractInv
<1> SUFFICES ASSUME Init PROVE ExtractInv
  OBVIOUS
<1>1. /\ source \in Sources /\ reading = ReadingOf(source)
      /\ clock = 2 /\ time \in [Rows -> 0..2]
      /\ phase = "idle" /\ ctxDone = FALSE /\ scans = <<>> /\ out = <<>> /\ stopped = FALSE
      /\ failed = "no" /\ highest = 0 /\ watermark = 0
      /\ runs = 0 /\ faults = 0 /\ start = 0 /\ end = 0
      /\ taken = [r \in Rows |-> 0] /\ fresh = {} /\ changed = {}
      /\ unread = Present /\ late = {} /\ tied = {} /\ smooth = TRUE /\ cutShort = FALSE
  BY DEF Init
<1>2. DOMAIN <<>> = {} /\ <<>> \in Seq(ScanType) /\ <<>> \in Seq(OutItem) /\ Len(<<>>) = 0
  OBVIOUS
<1>3. Typed
  <2>1. clock \in 2..MaxTime /\ runs \in 0..MaxRuns /\ faults \in 0..MaxFaults /\ time \in [Rows -> 0..clock]
    BY <1>1, ExtractAssumption
  <2>2. taken \in [Rows -> Nat]
    BY <1>1
  <2>3. unread \in SUBSET Rows
    BY <1>1 DEF Present
  <2>4. {ctxDone, stopped, smooth, cutShort} \subseteq BOOLEAN
    BY <1>1
  <2>5. {highest, watermark, start, end} \subseteq Nat /\ {fresh, changed, unread, late, tied} \subseteq SUBSET Rows
    BY <1>1, <2>3
  <2>6. scans \in Seq(ScanType) /\ out \in Seq(OutItem)
    BY <1>1, <1>2
  <2>7. source \in Sources /\ reading = ReadingOf(source) /\ phase = "idle" /\ failed = "no"
    BY <1>1
  <2> QED BY <2>1, <2>2, <2>4, <2>5, <2>6, <2>7 DEF Typed
<1>4. Phases /\ Scans
  BY <1>1, <1>2 DEF Phases, Scans
<1>5. Marks
  BY <1>1, <1>2 DEF Marks
<1>6. Interval
  BY <1>1, TopIs DEF Interval
<1>7. Counts
  <2>1. Cardinality(Rows) \in Nat /\ 0 <= Cardinality(Rows) /\ Capacity \in Nat
    BY Finite, ExtractAssumption
  <2> QED BY <1>1, <1>2, <2>1 DEF Counts
<1>8. ~Running /\ phase = "idle"
  BY <1>1 DEF Running
<1>9. NothingPassed
  <2> SUFFICES ASSUME NEW r \in Present, Compared(r) > 0 PROVE Ahead(r)
    BY DEF NothingPassed, Timely
  <2>1. r \in Rows
    BY DEF Present
  <2>2. Compared(r) \in Nat /\ r \in Nat \ {0}
    BY <1>3, <2>1, ComparedIs
  <2>3. Above(reading.lower, Compared(r), watermark)
    BY <1>1, <1>3, <2>2, ReadingNow, AboveWhenGreater
  <2> QED BY <1>1, <2>2, <2>3 DEF Ahead
<1> QED BY <1>3, <1>4, <1>5, <1>6, <1>7, <1>8, <1>9
        DEF ExtractInv, Base, OffsetOrder, Unique, StableFresh, StableSeen, ChangedSeen, InOrder, UpToEnd

LEMMA ExtractStep == ExtractInv /\ [Next]_vars => ExtractInv'
<1> SUFFICES ASSUME ExtractInv, [Next]_vars PROVE ExtractInv'
  OBVIOUS
<1>1. /\ Base /\ Marks /\ Interval /\ Counts /\ OffsetOrder /\ Unique
      /\ StableFresh /\ StableSeen /\ ChangedSeen /\ InOrder /\ UpToEnd /\ NothingPassed
  BY DEF ExtractInv
<1>2. Base'
  BY <1>1, BaseStep
<1>3. Marks' /\ Interval' /\ OffsetOrder' /\ StableFresh'
  BY <1>1, MarksStep, IntervalStep, OffsetStep, StableStep
<1>4. Unique' /\ Counts'
  BY <1>1, <1>2, UniqueStep, CountsStep
<1>5. StableSeen' /\ ChangedSeen' /\ InOrder' /\ UpToEnd'
  BY <1>1, SeenStep, ChangedStep, InOrderStep, UpToEndStep
<1>6. NothingPassed'
  BY <1>1, PassedStep
<1> QED BY <1>2, <1>3, <1>4, <1>5, <1>6 DEF ExtractInv

LEMMA ExtractTyped ==
  ASSUME ExtractInv
  PROVE  TypeOK
<1>1. Typed /\ Scans /\ Marks /\ Interval /\ Counts
  BY DEF ExtractInv, Base
<1>2. clock \in Nat /\ clock <= MaxTime /\ MaxTime \in Nat /\ Cardinality(Rows) \in Nat
  BY <1>1, ClockIs, Finite
<1>3. ASSUME NEW i \in DOMAIN scans
      PROVE  /\ scans[i].pc \in {"query", "emit", "ended"} /\ scans[i].more \in BOOLEAN
             /\ scans[i].last \in Rows \cup {0} /\ scans[i].sent \in 0..Cardinality(Rows)
             /\ Range(scans[i].page) \subseteq [row : Rows, at : 1..MaxTime]
  <2>1. /\ scans[i].pc \in {"query", "emit", "ended"} /\ scans[i].more \in BOOLEAN /\ scans[i].sent \in Nat
        /\ scans[i].page \in Seq(PageItem) /\ Len(scans[i].page) \in Nat
    BY <1>1, ScanIs
  <2>2. ScanCounts(i)
    BY <1>1, CountsAre
  <2>3. KeysUpTo(scans[i].last) \subseteq Rows
    BY DEF KeysUpTo
  <2>4. Cardinality(KeysUpTo(scans[i].last)) \in Nat /\ Cardinality(KeysUpTo(scans[i].last)) <= Cardinality(Rows)
    BY <2>3, Finite
  <2>5. scans[i].last \in Rows \cup {0} /\ scans[i].sent <= Cardinality(Rows)
    BY <1>2, <2>1, <2>2, <2>4 DEF ScanCounts
  <2>6. ASSUME NEW k \in DOMAIN scans[i].page PROVE scans[i].page[k] \in [row : Rows, at : 1..MaxTime]
    <3>1. PICK t \in PageItem : t = scans[i].page[k]
      BY <2>1
    <3>2. t \in [row : Rows, at : Nat \ {0}]
      BY DEF PageItem
    <3>3. t.at <= clock
      BY <1>1, <3>1 DEF Marks
    <3>4. t.at \in 1..MaxTime
      BY <1>2, <3>2, <3>3
    <3> QED BY <3>1, <3>2, <3>4
  <2>7. Range(scans[i].page) \subseteq [row : Rows, at : 1..MaxTime]
    BY <2>6 DEF Range
  <2> QED BY <1>2, <2>1, <2>5, <2>7
<1>4. Range(out) \subseteq [row : Rows, at : 1..MaxTime, wm : 0..Top]
  <2> SUFFICES ASSUME NEW k \in DOMAIN out PROVE out[k] \in [row : Rows, at : 1..MaxTime, wm : 0..Top]
    BY DEF Range
  <2>1. PICK t \in OutItem : t = out[k]
    BY <1>1, OutIs
  <2>2. t \in [row : Rows, at : Nat \ {0}, wm : Nat]
    BY DEF OutItem
  <2>3. t.at <= clock
    BY <1>1, <2>1 DEF Marks
  <2>4. t.wm \in 0..Top
    <3>1. t.wm \in Nat
      BY <2>2
    <3>2. (AppendOnly => t.wm \in Present \cup {0}) /\ (~AppendOnly => t.wm <= clock)
      BY <1>1, <2>1 DEF Marks
    <3> QED BY <1>1, <3>1, <3>2, MarkBelowTop
  <2>5. t.at \in 1..MaxTime
    BY <1>2, <2>2, <2>3
  <2> QED BY <2>1, <2>2, <2>4, <2>5
<1>5. {highest, watermark, start, end} \subseteq 0..Top
  <2>1. highest \in Nat /\ watermark \in Nat
    BY <1>1 DEF Typed
  <2>2. highest \in 0..Top /\ watermark \in 0..Top
    BY <1>1, <2>1, MarkBelowTop DEF Marks
  <2> QED BY <1>1, <2>2 DEF Interval
<1>6. taken \in [Rows -> 0..Cardinality(Rows)]
  <2>1. taken \in [Rows -> Nat]
    BY <1>1 DEF Typed
  <2>2. ASSUME NEW r \in Rows PROVE taken[r] \in 0..Cardinality(Rows)
    <3>1. taken[r] <= (IF reading.pages = "offset" THEN Cardinality(Rows) ELSE 1) /\ taken[r] \in Nat
      BY <1>1, <2>1 DEF Counts
    <3>2. 1 <= Cardinality(Rows)
      <4>1. IsFiniteSet({r}) /\ Cardinality({r}) = 1 /\ {r} \subseteq Rows /\ IsFiniteSet(Rows)
        BY FS_Singleton, ExtractAssumption
      <4> QED BY <4>1, FS_Subset
    <3> QED BY <1>2, <3>1, <3>2
  <2> QED BY <2>1, <2>2
<1>7. time \in [Rows -> 0..MaxTime] /\ clock \in 0..MaxTime
  <2>1. time \in [Rows -> 0..clock] /\ 0..clock \subseteq 0..MaxTime
    BY <1>1, <1>2 DEF Typed
  <2> QED BY <1>2, <2>1
<1>8. Len(out) <= Capacity
  BY <1>1 DEF Counts
<1>9. /\ source \in Sources /\ reading \in {ReadingOf(source), PgPages}
      /\ phase \in {"idle", "plan", "extract", "ended"} /\ ctxDone \in BOOLEAN
      /\ stopped \in BOOLEAN /\ failed \in {"no", "error", "timeout"}
      /\ runs \in 0..MaxRuns /\ faults \in 0..MaxFaults
      /\ {fresh, changed, unread, late, tied} \subseteq SUBSET Rows
      /\ smooth \in BOOLEAN /\ cutShort \in BOOLEAN
  <2> HIDE DEF ReadingOf, PgPages
  <2> QED BY <1>1 DEF Typed
<1> HIDE DEF ReadingOf, PgPages
<1> QED BY <1>3, <1>4, <1>5, <1>6, <1>7, <1>8, <1>9 DEF TypeOK, Top

------------------------------------------------------------------------------
\* The theorems

(* BatchExtract keeps the types it declares: no scan sends more rows than    *)
(* the table has keys, no channel holds more than its capacity, and every    *)
(* watermark is a time that has come or a key of the table.                 *)
THEOREM ExtractTypeOK == Spec => []TypeOK
<1>1. Init => ExtractInv
  BY ExtractInit
<1>2. ExtractInv /\ [Next]_vars => ExtractInv'
  BY ExtractStep
<1>3. ExtractInv => TypeOK
  BY ExtractTyped
<1> QED BY <1>1, <1>2, <1>3, PTL DEF Spec

(* An Extract that returns nil has sent every promised row that did not      *)
(* change meanwhile, and none of them twice, however it cuts the table: by   *)
(* offset, cursor or range of keys.                                        *)
THEOREM ExtractReadsOnce == Spec => []StableRowsReadOnce
<1>1. Init => ExtractInv
  BY ExtractInit
<1>2. ExtractInv /\ [Next]_vars => ExtractInv'
  BY ExtractStep
<1>3. ExtractInv => StableRowsReadOnce
  BY ReadOnce DEF ExtractInv
<1> QED BY <1>1, <1>2, <1>3, PTL DEF Spec

(* The position a successful run saves passes no row whose content no        *)
(* successful run has read, except one committed late and one at that very  *)
(* time; statements may break off anywhere in a page.                       *)
THEOREM ExtractPassesNoRow == Spec => []NoRowPassed
<1>1. Init => ExtractInv
  BY ExtractInit
<1>2. ExtractInv /\ [Next]_vars => ExtractInv'
  BY ExtractStep
<1>3. ExtractInv => NoRowPassed
  <2> HIDE DEF ReadingOf, Present
  <2> QED BY DEF ExtractInv, NothingPassed, NoRowPassed, Timely
<1> QED BY <1>1, <1>2, <1>3, PTL DEF Spec
=============================================================================
