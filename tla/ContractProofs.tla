---------------------------- MODULE ContractProofs ----------------------------
(***************************************************************************)
(* Every API destination keeps the contract of destination.go, for every    *)
(* number of rows, unit size, number of workers, attempts and faults; what   *)
(* the searches of a destination that looks before it creates are worth; and *)
(* the type invariant, with it the bound on the attempts of a request.       *)
(***************************************************************************)
EXTENDS DeliveryProofs, WellFoundedInduction

------------------------------------------------------------------------------
\* How Load cuts its rows into units

Below(rows, r) == {q \in rows : q < r}
Rank(rows, r) == Cardinality(Below(rows, r))

(* A non-empty set of natural numbers has a least element.                 *)
LEMMA Least ==
  ASSUME NEW T, T \subseteq Nat, T # {}
  PROVE  \E i \in T : \A j \in T : i <= j
<1> DEFINE R == {p \in Nat \X Nat : p[1] < p[2]}
<1>1. IsWellFoundedOn(R, Nat)
  BY NatLessThanWellFounded DEF OpToRel
<1>2. PICK i \in T : \A j \in T : ~(<<j, i>> \in R)
  <2> HIDE DEF R
  <2> QED BY <1>1, WFMin
<1>3. ASSUME NEW j \in T, ~(i <= j) PROVE FALSE
  <2>1. i \in Nat /\ j \in Nat
    OBVIOUS
  <2>2. <<j, i>> \in R
    BY <1>3, <2>1
  <2> QED BY <1>2, <2>2
<1> QED BY <1>3

LEMMA RankIsNat ==
  ASSUME NEW rows \in SUBSET Rows, NEW r
  PROVE  IsFiniteSet(Below(rows, r)) /\ Rank(rows, r) \in Nat
<1>1. IsFiniteSet(1..MaxRows)
  BY DeliveryAssumption, FS_Interval
<1>2. Below(rows, r) \in SUBSET (1..MaxRows)
  BY DEF Below, Rows
<1>3. IsFiniteSet(Below(rows, r))
  BY <1>1, <1>2, FS_Subset
<1> QED BY <1>3, FS_CardinalityType DEF Rank

(* The row before a row that is not the first.                             *)
LEMMA RowBefore ==
  ASSUME NEW rows \in SUBSET Rows, NEW q \in rows, Rank(rows, q) # 0
  PROVE  \E p \in rows : Rank(rows, p) = Rank(rows, q) - 1
<1> DEFINE T == {MaxRows - x : x \in Below(rows, q)}
<1>0. MaxRows \in Nat /\ \A x \in rows : x \in 1..MaxRows
  BY DeliveryAssumption DEF Rows
<1>1. Below(rows, q) # {}
  BY FS_EmptySet DEF Rank
<1>2. T \subseteq Nat /\ T # {}
  BY <1>0, <1>1 DEF Below
<1>3. PICK t \in T : \A j \in T : t <= j
  <2> HIDE DEF T
  <2> QED BY <1>2, Least
<1>4. PICK p \in Below(rows, q) : t = MaxRows - p
  OBVIOUS
<1>5. p \in rows /\ p < q /\ \A x \in Below(rows, q) : x <= p
  <2>1. \A x \in Below(rows, q) : MaxRows - p <= MaxRows - x
    BY <1>3, <1>4
  <2> QED BY <1>0, <1>4, <2>1 DEF Below
<1>6. Below(rows, q) = Below(rows, p) \cup {p} /\ p \notin Below(rows, p)
  BY <1>0, <1>5 DEF Below
<1>7. Rank(rows, q) = Rank(rows, p) + 1
  BY <1>6, RankIsNat, FS_AddElement DEF Rank
<1>8. Rank(rows, p) \in Nat
  BY RankIsNat
<1> QED BY <1>5, <1>7, <1>8

(* The ranks of the rows have no gap.                                      *)
LEMMA RankReached ==
  ASSUME NEW rows \in SUBSET Rows, NEW r \in rows, NEW k \in Nat, k <= Rank(rows, r)
  PROVE  \E q \in rows : Rank(rows, q) = k
<1> DEFINE T == {Rank(rows, q) : q \in {x \in rows : k <= Rank(rows, x)}}
<1>1. T \subseteq Nat /\ T # {}
  BY RankIsNat
<1>2. PICK m \in T : \A j \in T : m <= j
  <2> HIDE DEF T
  <2> QED BY <1>1, Least
<1>3. PICK q \in rows : m = Rank(rows, q) /\ k <= m
  OBVIOUS
<1>4. SUFFICES ASSUME m # k PROVE FALSE
  BY <1>3
<1>5. m \in Nat /\ m # 0
  BY <1>1, <1>2, <1>3, <1>4
<1>6. PICK p \in rows : Rank(rows, p) = m - 1
  BY <1>3, <1>5, RowBefore
<1>7. m - 1 \in T
  BY <1>3, <1>4, <1>5, <1>6
<1> HIDE DEF T
<1> QED BY <1>2, <1>5, <1>7

(* No two rows have the same rank.                                         *)
LEMMA RankApart ==
  ASSUME NEW rows \in SUBSET Rows, NEW p \in rows, NEW q \in rows, Rank(rows, p) = Rank(rows, q)
  PROVE  p = q
<1>0. MaxRows \in Nat /\ \A x \in rows : x \in 1..MaxRows
  BY DeliveryAssumption DEF Rows
<1>1. ASSUME NEW x \in rows, NEW y \in rows, x < y PROVE Rank(rows, x) # Rank(rows, y)
  <2>1. Below(rows, x) \in SUBSET Below(rows, y) /\ x \in Below(rows, y) /\ x \notin Below(rows, x)
    BY <1>0, <1>1 DEF Below
  <2> QED BY <2>1, RankIsNat, FS_Subset DEF Rank
<1> QED BY <1>0, <1>1

LEMMA SizeIsPositive ==
  ASSUME DeliveryShape, n # 0 PROVE UnitSize \in Nat \ {0}
<1>1. n \in Nat \ {0} /\ ChunkSize \in Nat \ {0} /\ Opt.bulk \in Nat \ {0}
  BY DeliveryAssumption, DestinationsAssumption DEF DeliveryShape, Opt, Instances
<1>2. Shape.unit \in {"all", "threshold", "chunk", "one"}
  BY KindKnown DEF Kinds, Shape, LoadOf, LoadShape, RestLoad, IntercomLoad, PipedriveLoad,
     ZendeskLoad, KlaviyoLoad, MixpanelLoad, HubSpotLoad, SlackLoad, SheetsLoad,
     SalesforceLoadRest, SalesforceLoadBulk, SalesforceLoadBulkParallel
<1> QED BY <1>1, <1>2 DEF UnitSize

LEMMA UnitIs ==
  ASSUME NEW rows \in SUBSET Rows, NEW u \in Rows
  PROVE  Units(rows)[u] =
           IF u \in rows /\ Rank(rows, u) % UnitSize = 0
             THEN {q \in rows : Rank(rows, q) \in Rank(rows, u)..(Rank(rows, u) + UnitSize - 1)}
             ELSE {}
BY DEF Units, Rank, Below

LEMMA Multiples ==
  ASSUME NEW a \in Nat, NEW s \in Nat \ {0}
  PROVE  \E m \in Nat : (m % s) = 0 /\ m <= a /\ a <= m + s - 1
<1> DEFINE k == a \div s
           m == s * k
<1>1. k \in Nat
  OBVIOUS
<1>2. a = m + (a % s) /\ (a % s) \in 0..(s - 1)
  OBVIOUS
<1>3. (m % s) = 0
  <2> HIDE DEF k
  <2> QED BY <1>1
<1>4. m \in Nat
  <2> HIDE DEF k
  <2> QED BY <1>1
<1> HIDE DEF m
<1> QED BY <1>2, <1>3, <1>4

LEMMA OneMultiple ==
  ASSUME NEW a \in Nat, NEW b \in Nat, NEW s \in Nat \ {0},
         (a % s) = 0, (b % s) = 0, a - b < s, b - a < s
  PROVE  a = b
<1> DEFINE k == a \div s
           l == b \div s
<1>1. k \in Nat /\ l \in Nat
  OBVIOUS
<1>2. a = s * k /\ b = s * l
  OBVIOUS
<1> HIDE DEF k, l
<1>3. \A x, y \in Nat : x < y => s * x + s <= s * y
  <2> SUFFICES ASSUME NEW x \in Nat, NEW y \in Nat, x < y PROVE s * x + s <= s * y OBVIOUS
  <2> DEFINE d == y - (x + 1)
  <2>1. d \in Nat /\ y = x + 1 + d
    OBVIOUS
  <2> HIDE DEF d
  <2>2. s * y = s * x + s + s * d /\ s * d >= 0
    BY <2>1
  <2>3. s * x \in Nat /\ s * y \in Nat /\ s * d \in Nat
    BY <2>1
  <2> QED BY <2>2, <2>3
<1>4. s * k \in Nat /\ s * l \in Nat
  BY <1>1
<1>5. ~(k < l) /\ ~(l < k)
  BY <1>1, <1>2, <1>3, <1>4
<1>6. k = l
  BY <1>1, <1>5
<1> QED BY <1>2, <1>6

(* Every row is in a unit,                                                 *)
LEMMA UnitsCover ==
  ASSUME DeliveryShape, n # 0, NEW rows \in SUBSET Rows, NEW r \in rows
  PROVE  \E u \in Rows : r \in Units(rows)[u]
<1> DEFINE s == UnitSize
           a == Rank(rows, r)
<1>1. s \in Nat \ {0} /\ a \in Nat
  BY SizeIsPositive, RankIsNat
<1> HIDE DEF s, a
<1>2. PICK m \in Nat : (m % s) = 0 /\ m <= a /\ a <= m + s - 1
  BY <1>1, Multiples
<1>3. PICK u \in rows : Rank(rows, u) = m
  BY <1>2, RankReached DEF a
<1>4. a \in m..(m + s - 1)
  BY <1>1, <1>2
<1>5. r \in Units(rows)[u]
  BY <1>2, <1>3, <1>4, UnitIs DEF s, a
<1> QED BY <1>5

(* and in no other.                                                        *)
LEMMA UnitsDisjoint ==
  ASSUME DeliveryShape, n # 0, NEW rows \in SUBSET Rows, NEW u \in Rows, NEW v \in Rows,
         NEW r \in Units(rows)[u], r \in Units(rows)[v]
  PROVE  u = v
<1> DEFINE s == UnitSize
           a == Rank(rows, u)
           b == Rank(rows, v)
           c == Rank(rows, r)
<1>1. s \in Nat \ {0} /\ a \in Nat /\ b \in Nat /\ c \in Nat
  BY SizeIsPositive, RankIsNat
<1>2. /\ u \in rows /\ v \in rows
      /\ (a % s) = 0 /\ (b % s) = 0 /\ c \in a..(a + s - 1) /\ c \in b..(b + s - 1)
  BY UnitIs
<1>3. a = b
  <2> HIDE DEF a, b, c, s
  <2>1. a - b < s /\ b - a < s
    BY <1>1, <1>2
  <2> QED BY <1>1, <1>2, <2>1, OneMultiple
<1> QED BY <1>2, <1>3, RankApart

LEMMA UnitsWithin ==
  ASSUME NEW rows \in SUBSET Rows, NEW u \in Rows PROVE Units(rows)[u] \subseteq rows
BY UnitIs

------------------------------------------------------------------------------
\* The invariant

Pending(u) == w[u].pc \notin {"idle", "done"}

(* A worker may leave its rows undecided only in a Load that will look at    *)
(* the context, which has ended.                                           *)
LookedAt == ctxDone /\ "end" \in Shape.ctx

UnitsApart == \A u, v \in Rows : u # v => unit[u] \cap unit[v] = {}

(* The rows of a unit in hand are not decided, and those that the delivery   *)
(* log was asked for are not in it.                                        *)
InHand ==
  \A u \in Rows : Pending(u) => \A r \in unit[u] :
    /\ verdict[r] = "none"
    /\ Shape.checked = "first" \/ w[u].pc # "queued" => r \notin marked

(* A row not decided yet is in the hands of a worker.                      *)
NoneForgotten ==
  \A r \in 1..n :
    verdict[r] = "none" => \E u \in Rows : r \in unit[u] /\ (Pending(u) \/ LookedAt)

(* Only bulk jobs reject rows, and count rows without their names.           *)
NamesRows == rejected = {} /\ \A r \in Rows : verdict[r] \in Counted \cup {"none"}

UnitInv ==
  /\ verdict \in [Rows -> Verdicts] /\ ctxDone \in BOOLEAN
  /\ UnitsApart /\ InHand
  /\ Anonymous \/ NamesRows
  /\ phase = "filter" => \A r \in Rows : w[r].pc = "idle" /\ verdict[r] = "none"
  /\ phase = "send" => NoneForgotten
  /\ EveryRowDecided

------------------------------------------------------------------------------
\* A step of one worker

Served(u) ==
  /\ applied \subseteq applied' /\ applied' \subseteq applied \cup unit[u]
  /\ Anonymous \/ rejected' = rejected

(* It goes on with its unit, to the end the marks of its rows, ends with the *)
(* rows counted as errors, leaves them to the look at the context, or ends   *)
(* the Load.                                                               *)
Goes(u) ==
  /\ \E x : w' = [w EXCEPT ![u] = x] /\ x.pc \in Active \cup {"mark"}
  /\ UNCHANGED <<verdict, marked, phase, fatal>>
Counts(u) ==
  /\ UNCHANGED <<marked, phase, fatal>>
  /\ Close(u, "error") \/ (Anonymous /\ Close(u, "unnamed"))
Ends(u) ==
  /\ w' = [w EXCEPT ![u] = Done(u)]
  /\ \/ Counts(u)
     \/ LookedAt /\ UNCHANGED <<verdict, marked, phase, fatal>>
     \/ Abort /\ UNCHANGED <<verdict, marked>>

AtWork(u) == Pending(u) /\ w[u].pc # "queued"

workFrame == <<configVars, unit, ctxDone>>

LEMMA Frame ==
  UNCHANGED workFrame =>
    Shape' = Shape /\ LookedAt' = LookedAt /\ Anonymous' = Anonymous /\ UNCHANGED <<kind, n, unit>>
BY DEF workFrame, configVars, Shape, LookedAt, Anonymous

(* The rows a worker closes.                                               *)
LEMMA Closed ==
  ASSUME UnitInv, NEW u \in Rows, NEW v \in Verdicts, Close(u, v), unit[u] \subseteq Rows,
         \A r \in unit[u] : verdict[r] = "none"
  PROVE  /\ verdict' \in [Rows -> Verdicts]
         /\ \A r \in unit[u] : verdict'[r] = v
         /\ \A r \in Rows \ unit[u] : verdict'[r] = verdict[r]
BY DEF Close, UnitInv

(* What a worker's step does to the rows, whatever it is.                   *)
RowsMove(u) ==
  /\ verdict' \in [Rows -> Verdicts]
  /\ \A r \in Rows \ unit[u] : verdict'[r] = verdict[r]
  /\ marked \subseteq marked' /\ marked' \subseteq marked \cup unit[u]
  /\ \A r \in unit[u] : verdict[r] = "none" /\ r \notin marked
  /\ \/ UNCHANGED <<verdict, marked>>
     \/ /\ UNCHANGED <<phase, fatal>>
        /\ \A r \in unit[u] :
             \/ verdict'[r] = "error" /\ r \notin marked'
             \/ verdict'[r] = "loaded" /\ r \in marked' /\ r \in applied' \cup Waived
             \/ /\ verdict'[r] \in {"unnamed", "lost"} /\ Anonymous
                /\ r \in marked' => r \in Waived
  /\ \E x : w' = [w EXCEPT ![u] = x] /\ (x.pc = "done" \/ UNCHANGED <<verdict, marked>>)
  /\ \/ /\ UNCHANGED <<phase, fatal>>
        /\ Pending(u)' \/ LookedAt \/ \A r \in unit[u] : verdict'[r] # "none"
     \/ phase' = "returned" /\ fatal' = TRUE

LEMMA RowsOfStep ==
  ASSUME MarkInv, UnitInv, NEW u \in Rows, AtWork(u), Goes(u) \/ Ends(u)
  PROVE  RowsMove(u)
<1>1. /\ unit[u] \subseteq Rows /\ w \in [Rows -> WorkerShape]
      /\ \A r \in unit[u] : verdict[r] = "none" /\ r \notin marked
  BY DEF MarkInv, DeliveryShape, UnitInv, InHand, AtWork
<1>2. CASE Goes(u)
  <2>1. PICK x : w' = [w EXCEPT ![u] = x] /\ x.pc \in Active \cup {"mark"}
    BY <1>2 DEF Goes
  <2>2. UNCHANGED <<verdict, marked, phase, fatal>> /\ Pending(u)'
    BY <1>1, <1>2, <2>1 DEF Goes, Pending, Active
  <2> QED BY <1>1, <2>1, <2>2 DEF RowsMove, UnitInv
<1>3. CASE Ends(u)
  <2>1. w' = [w EXCEPT ![u] = Done(u)] /\ Done(u).pc = "done"
    BY <1>3, DoneShape DEF Ends, Active
  <2>2. ASSUME NEW v \in {"error", "unnamed"}, Close(u, v), UNCHANGED <<marked, phase, fatal>>,
               v = "unnamed" => Anonymous
        PROVE RowsMove(u)
    <3>1. /\ v \in Verdicts /\ v # "none"
      BY DEF Verdicts, Counted
    <3>2. /\ verdict' \in [Rows -> Verdicts]
          /\ \A r \in unit[u] : verdict'[r] = v
          /\ \A r \in Rows \ unit[u] : verdict'[r] = verdict[r]
      BY <1>1, <2>2, <3>1, Closed
    <3> QED BY <1>1, <2>1, <2>2, <3>1, <3>2 DEF RowsMove
  <2>3. ASSUME UNCHANGED <<verdict, marked>>, (LookedAt /\ UNCHANGED <<phase, fatal>>) \/ Abort
        PROVE RowsMove(u)
    BY <1>1, <2>1, <2>3 DEF RowsMove, Abort, UnitInv
  <2> QED BY <1>3, <2>2, <2>3 DEF Ends, Counts
<1> QED BY <1>2, <1>3

LEMMA UnitStep ==
  ASSUME MarkInv, UnitInv, NEW u \in Rows, phase = "send", RowsMove(u), Served(u),
         UNCHANGED workFrame
  PROVE  UnitInv'
<1>1. /\ Shape' = Shape /\ (LookedAt' <=> LookedAt) /\ n' = n /\ unit' = unit /\ ctxDone' = ctxDone
      /\ (Anonymous' <=> Anonymous)
  BY Frame DEF workFrame
<1>2. PICK x : w' = [w EXCEPT ![u] = x] /\ (x.pc = "done" \/ UNCHANGED <<verdict, marked>>)
  BY DEF RowsMove
<1>3. w \in [Rows -> WorkerShape] /\ 1..n \subseteq Rows
  BY DeliveryAssumption DEF MarkInv, DeliveryShape, Rows
<1>4. /\ w'[u] = x /\ \A v \in Rows : v # u => w'[v] = w[v]
  BY <1>2, <1>3
<1>5. UnitsApart'
  BY <1>1 DEF UnitInv, UnitsApart
<1>6. InHand'
  <2> SUFFICES ASSUME NEW v \in Rows, Pending(v)', NEW r \in unit[v]
               PROVE /\ verdict'[r] = "none"
                     /\ Shape.checked = "first" \/ w'[v].pc # "queued" => r \notin marked'
    BY <1>1 DEF InHand
  <2>1. r \in Rows
    BY DEF MarkInv, DeliveryShape
  <2>2. CASE v = u
    <3>1. UNCHANGED <<verdict, marked>>
      BY <1>2, <1>4, <2>2 DEF Pending
    <3> QED BY <2>2, <3>1 DEF RowsMove
  <2>3. CASE v # u
    <3>1. r \notin unit[u] /\ Pending(v) /\ w'[v] = w[v]
      BY <1>4, <2>3 DEF Pending, UnitInv, UnitsApart
    <3> QED BY <2>1, <3>1 DEF RowsMove, UnitInv, InHand
  <2> QED BY <2>2, <2>3
<1>7. phase' = "send" => NoneForgotten'
  <2> SUFFICES ASSUME phase' = "send", NEW r \in 1..n, verdict'[r] = "none"
               PROVE \E v \in Rows : r \in unit[v] /\ (Pending(v)' \/ LookedAt)
    BY <1>1 DEF NoneForgotten
  <2>1. verdict[r] = "none"
    BY <1>3 DEF RowsMove
  <2>2. PICK v \in Rows : r \in unit[v] /\ (Pending(v) \/ LookedAt)
    BY <2>1 DEF UnitInv, NoneForgotten
  <2>3. CASE v = u
    BY <2>2, <2>3 DEF RowsMove
  <2>4. CASE v # u
    BY <1>4, <2>2, <2>4 DEF Pending
  <2> QED BY <2>3, <2>4
<1>8. phase' # "filter" /\ EveryRowDecided'
  BY DEF RowsMove, EveryRowDecided
<1>9. Anonymous' \/ NamesRows'
  <2> SUFFICES ASSUME ~Anonymous PROVE NamesRows'
    BY <1>1
  <2>1. rejected' = {} /\ \A r \in Rows : verdict[r] \in Counted \cup {"none"}
    BY DEF UnitInv, NamesRows, Served
  <2>2. ASSUME NEW r \in Rows PROVE verdict'[r] \in Counted \cup {"none"}
    BY <2>1 DEF RowsMove, Counted
  <2> QED BY <2>1, <2>2 DEF NamesRows
<1> QED BY <1>1, <1>5, <1>6, <1>7, <1>8, <1>9 DEF UnitInv, RowsMove

LEMMA StepOfContract ==
  ASSUME MarkInv, UnitInv, NEW u \in Rows, phase = "send", RowsMove(u), Served(u),
         UNCHANGED workFrame
  PROVE  Contract!Step
<1>1. n' = n /\ unit[u] \subseteq Rows
  BY Frame DEF MarkInv, DeliveryShape
<1>2. Contract!Count
  <2>1. \A r \in Rows : verdict[r] # "none" => verdict'[r] = verdict[r]
    BY DEF RowsMove
  <2>2. ASSUME NEW r \in Rows, verdict'[r] # verdict[r]
        PROVE  /\ verdict'[r] # "skipped"
               /\ verdict'[r] = "loaded" => r \in applied' \cup Waived /\ r \in marked' \ marked
    BY <2>2 DEF RowsMove
  <2>3. \A r \in marked' \ marked : verdict[r] = "none" /\ (verdict'[r] = "loaded" \/ r \in Waived)
    BY DEF RowsMove
  <2> QED BY <2>1, <2>2, <2>3 DEF Contract!Count, RowsMove
<1>3. applied \subseteq applied' /\ (applied' \ applied) \cap marked = {}
  BY DEF Served, RowsMove
<1>4. \/ phase' = "send" /\ fatal' = fatal
      \/ phase' = "returned" /\ fatal' = TRUE
  BY DEF RowsMove
<1> QED BY <1>1, <1>2, <1>3, <1>4 DEF Contract!Step, Contract!Between

------------------------------------------------------------------------------
\* The actions of a worker

LEMMA ShapeFacts ==
  DeliveryShape =>
    /\ Shape.onError \in {"rowErrors", "fatal", "unnamed"}
    /\ \/ Shape.onCtx \in {"rowErrors", "fatal", "unnamed"}
       \/ Shape.onCtx = "silent" /\ "end" \in Shape.ctx
    /\ Shape.onError = "unnamed" \/ Shape.onCtx = "unnamed" => Anonymous
    /\ Shape.checked \in {"first", "inTurn"}
    /\ kind = "hubspot" => Shape.checked = "inTurn" /\ Shape.unit = "one"
BY KindKnown DEF Kinds, Shape, LoadOf, LoadShape, RestLoad, IntercomLoad, PipedriveLoad,
   ZendeskLoad, KlaviyoLoad, MixpanelLoad, HubSpotLoad, SlackLoad, SheetsLoad,
   SalesforceLoadRest, SalesforceLoadBulk, SalesforceLoadBulkParallel, Anonymous

LEMMA SettleEnds ==
  ASSUME NEW u \in Rows, NEW how, Settle(u, how),
         how \in {"rowErrors", "unnamed", "fatal"} \/ LookedAt, how = "unnamed" => Anonymous
  PROVE  Ends(u)
<1>1. w' = [w EXCEPT ![u] = Done(u)] /\ UNCHANGED marked
  BY DEF Settle
<1>2. CASE how = "rowErrors"
  BY <1>1, <1>2 DEF Settle, Ends, Counts
<1>3. CASE how = "unnamed"
  BY <1>1, <1>3 DEF Settle, Ends, Counts
<1>4. CASE how = "fatal"
  BY <1>1, <1>4 DEF Settle, Ends
<1>5. CASE how \notin {"rowErrors", "unnamed", "fatal"}
  BY <1>1, <1>5 DEF Settle, Ends
<1> QED BY <1>2, <1>3, <1>4, <1>5

LEMMA ResumeGoes ==
  ASSUME NEW u \in Rows, NEW x, Resume(u, x), x.pc \in Active \cup {"mark"} PROVE Goes(u)
BY DEF Resume, Goes

LEMMA FinishMoves ==
  ASSUME NEW u \in Rows, NEW found, Finish(u, found) PROVE Goes(u)
<1> DEFINE x == [Idle EXCEPT !.pc = "mark", !.stage = w[u].stage, !.found = found]
<1>1. x.pc = "mark" /\ Resume(u, x)
  BY DEF Idle, Finish
<1> HIDE DEF x
<1> QED BY <1>1, ResumeGoes

(* Only a bulk job is given up without a name for the rows.                 *)
LEMMA GiveUpMoves ==
  ASSUME NEW u \in Rows, NEW how, GiveUp(u, how),
         how \in {"rowErrors", "unnamed", "fatal"} \/ LookedAt, how = "unnamed" => Anonymous
  PROVE  Goes(u) \/ Ends(u)
BY FinishMoves, SettleEnds DEF GiveUp

LEMMA AgainGoes ==
  ASSUME MarkInv, NEW u \in Rows, Again(u) PROVE Goes(u)
<1> DEFINE x == [w[u] EXCEPT !.pc = "check", !.check = 1, !.probe = FALSE, !.attempt = @ + 1]
<1>1. x.pc = "check"
  BY DEF MarkInv, DeliveryShape, WorkerShape
<1> QED BY <1>1, ResumeGoes DEF Again, Active

LEMMA BadAttemptMoves ==
  ASSUME MarkInv, NEW u \in Rows,
         NEW answer, ~Good(answer), NEW found, EndAttempt(u, answer, found)
  PROVE  Goes(u) \/ Ends(u)
<1> DEFINE next == AfterOf(answer, w[u].attempt)
<1>1. next \in {"again", "backoff", "failed", "fatal"}
  BY OnlyGoodIsDone
<1>2. CASE next = "again"
  BY <1>2, AgainGoes DEF EndAttempt
<1>3. CASE next = "backoff"
  <2>1. [w[u] EXCEPT !.pc = "backoff", !.probe = FALSE].pc = "backoff"
    BY DEF MarkInv, DeliveryShape, WorkerShape
  <2> QED BY <1>3, <2>1, ResumeGoes DEF EndAttempt, Active
<1>4. CASE next = "failed"
  BY <1>4, GiveUpMoves, ShapeFacts DEF EndAttempt, MarkInv
<1>5. CASE next = "fatal"
  BY <1>5, SettleEnds DEF EndAttempt
<1> QED BY <1>1, <1>2, <1>3, <1>4, <1>5

LEMMA ToRequestMoves ==
  ASSUME NEW u \in Rows, NEW s, NEW found, ToRequest(u, s, found) PROVE Goes(u)
<1> DEFINE place == IF Requests(u)[s].effect = "poll" THEN "tick" ELSE "check"
           x == [AtRequest(s) EXCEPT !.found = found, !.late = w[u].late /\ s = w[u].stage,
                                     !.pc = place]
<1>1. x.pc = place
  BY DEF AtRequest, Idle
<1>2. x.pc \in Active
  BY <1>1 DEF Active
<1>3. Resume(u, x)
  BY DEF ToRequest
<1> HIDE DEF x
<1> QED BY <1>2, <1>3, ResumeGoes

LEMMA NextRequestMoves ==
  ASSUME NEW u \in Rows, NEW found, NextRequest(u, found) PROVE Goes(u)
BY FinishMoves, ToRequestMoves DEF NextRequest

(* What the server writes are rows of the unit.                            *)
LEMMA ServeWrites ==
  ASSUME NEW u \in Rows, NEW effect, NEW taken \in SUBSET unit[u], Serve(u, effect, taken),
         Anonymous \/ effect # "close"
  PROVE  Served(u)
<1>1. CASE effect \in {"post", "upsert", "update", "create", "archive"}
  <2>1. applied' = applied \cup BuildPayload(unit[u]) /\ rejected' = rejected
    BY <1>1 DEF Serve
  <2>2. BuildPayload(unit[u]) \subseteq unit[u]
    BY DEF BuildPayload
  <2> QED BY <2>1, <2>2 DEF Served
<1>2. CASE effect = "close"
  BY <1>2 DEF Serve, Served
<1>3. CASE effect \notin {"post", "upsert", "update", "create", "archive", "close"}
  <2>1. UNCHANGED serverVars
    BY <1>3 DEF Serve
  <2> QED BY <2>1 DEF serverVars, Served
<1> QED BY <1>1, <1>2, <1>3

(* What a worker at work does, one action at a time.                        *)
Acts(u) == AtWork(u) /\ phase = "send" /\ Served(u) /\ UNCHANGED workFrame /\ (Goes(u) \/ Ends(u))

LEMMA ActiveWorks == ASSUME NEW u, w[u].pc \in Active \cup {"resolve", "mark"} PROVE AtWork(u)
BY DEF Active, AtWork, Pending

LEMMA ChecksAct ==
  ASSUME MarkInv, NEW u \in Rows,
         CheckContext(u) \/ CheckBreaker(u) \/ CheckLimiter(u) \/ CheckAuth(u)
  PROVE  Acts(u)
<1>1. /\ w[u].pc \in Active /\ phase = "send" /\ UNCHANGED checkFrame
      /\ \/ \E probe : Pass(u, probe)
         \/ \E answer \in {NoAnswer, Circuit, NoToken} : Drop(u, answer)
  BY DEF CheckContext, CheckBreaker, CheckLimiter, CheckAuth, Checking, Active
<1>2. UNCHANGED workFrame /\ Served(u) /\ AtWork(u)
  BY <1>1, ActiveWorks DEF checkFrame, workFrame, serverVars, Served
<1>3. CASE \E probe : Pass(u, probe)
  <2>1. PICK probe : Pass(u, probe)
    BY <1>3
  <2> DEFINE x == [w[u] EXCEPT !.probe = probe, !.check = @ + 1,
                               !.pc = IF LastCheck(u) THEN "sent" ELSE @]
  <2>2. x.pc \in Active
    BY <1>1 DEF MarkInv, DeliveryShape, WorkerShape, Active
  <2>3. Resume(u, x)
    BY <2>1 DEF Pass
  <2> HIDE DEF x
  <2> QED BY <1>1, <1>2, <2>2, <2>3, ResumeGoes DEF Acts
<1>4. CASE \E answer \in {NoAnswer, Circuit, NoToken} : Drop(u, answer)
  <2>1. PICK answer \in {NoAnswer, Circuit, NoToken} : Drop(u, answer)
    BY <1>4
  <2>2. ~Good(answer)
    BY DEF Good, NoAnswer, Circuit, NoToken
  <2> QED BY <1>1, <1>2, <2>1, <2>2, BadAttemptMoves DEF Drop, Acts
<1> QED BY <1>1, <1>3, <1>4

LEMMA AnswerActs == ASSUME MarkInv, NEW u \in Rows, Answer(u) PROVE Acts(u)
<1>1. w[u].pc \in Active /\ AtWork(u) /\ phase = "send" /\ UNCHANGED workFrame
  BY ActiveWorks DEF Answer, Active, workFrame
<1>2. PICK answer \in Answers(u), landed \in BOOLEAN :
        /\ IF Good(answer) THEN AfterGoodAnswer(u) ELSE AfterBadAnswer(u, answer)
        /\ IF landed THEN \E taken \in SUBSET unit[u] : Serve(u, Req(u).effect, taken)
           ELSE UNCHANGED serverVars
  BY DEF Answer
<1>3. Served(u)
  <2>1. Anonymous \/ Req(u).effect # "close"
    BY <1>1, AtRequestFacts DEF MarkInv, Anonymous, BulkKinds
  <2>2. CASE landed
    BY <2>1, <2>2, <1>2, ServeWrites
  <2>3. CASE ~landed
    BY <2>3, <1>2 DEF serverVars, Served
  <2> QED BY <2>2, <2>3
<1>4. CASE ~Good(answer)
  <2>1. EndAttempt(u, answer, w[u].found)
    BY <1>2, <1>4 DEF AfterBadAnswer
  <2> QED BY <1>1, <1>3, <1>4, <2>1, BadAttemptMoves DEF Acts
<1>5. CASE Good(answer)
  <2>1. \/ \E found : NextRequest(u, found)
        \/ \E s : ToRequest(u, s, FALSE)
        \/ Settle(u, "rowErrors") \/ Settle(u, Shape.onError)
    <3>1. AfterGoodAnswer(u)
      BY <1>2, <1>5
    <3>2. CASE Req(u).effect = "search"
      BY <3>1, <3>2 DEF AfterGoodAnswer, AfterSearch
    <3>3. CASE Req(u).effect = "poll"
      BY <3>1, <3>3 DEF AfterGoodAnswer, AfterPoll
    <3>4. CASE Req(u).effect \notin {"search", "poll"}
      BY <3>1, <3>4 DEF AfterGoodAnswer
    <3> QED BY <3>2, <3>3, <3>4
  <2>2. CASE \E found : NextRequest(u, found)
    BY <1>1, <1>3, <2>2, NextRequestMoves DEF Acts
  <2>3. CASE \E s : ToRequest(u, s, FALSE)
    BY <1>1, <1>3, <2>3, ToRequestMoves DEF Acts
  <2>4. CASE Settle(u, "rowErrors") \/ Settle(u, Shape.onError)
    BY <1>1, <1>3, <2>4, SettleEnds, ShapeFacts DEF Acts, MarkInv
  <2> QED BY <2>1, <2>2, <2>3, <2>4
<1> QED BY <1>4, <1>5

(* Before its first request: the ID of the row is read.                    *)
LEMMA ResolveActs == ASSUME MarkInv, NEW u \in Rows, Resolve(u) PROVE Acts(u)
<1>1. AtWork(u) /\ phase = "send" /\ UNCHANGED workFrame /\ Served(u)
  BY ActiveWorks DEF Resolve, Active, workFrame, helperVars, serverVars, Served
<1>2. Finish(u, FALSE) \/ Settle(u, "rowErrors") \/ Resume(u, AtRequest(1))
  BY DEF Resolve
<1>3. CASE Finish(u, FALSE)
  BY <1>1, <1>3, FinishMoves DEF Acts
<1>4. CASE Settle(u, "rowErrors")
  BY <1>1, <1>4, SettleEnds DEF Acts
<1>5. CASE Resume(u, AtRequest(1))
  BY <1>1, <1>5, FirstShape, ResumeGoes DEF Acts, Active
<1> QED BY <1>2, <1>3, <1>4, <1>5

LEMMA WaitsAct ==
  ASSUME MarkInv, NEW u \in Rows, Send(u) \/ Backoff(u) \/ Tick(u)
  PROVE  Acts(u)
<1>1. AtWork(u) /\ phase = "send" /\ UNCHANGED workFrame /\ Served(u)
  BY ActiveWorks DEF Send, Backoff, Tick, checkFrame, helperVars, serverVars, workFrame, Served, Active
<1>2. ASSUME NEW place \in Active, Resume(u, [w[u] EXCEPT !.pc = place]) PROVE Acts(u)
  <2>1. [w[u] EXCEPT !.pc = place].pc = place
    BY DEF MarkInv, DeliveryShape, WorkerShape
  <2> QED BY <1>1, <1>2, <2>1, ResumeGoes DEF Acts
<1>3. /\ ctxDone => Shape.onCtx \in {"rowErrors", "unnamed", "fatal"} \/ LookedAt
      /\ Shape.onCtx = "unnamed" => Anonymous
  BY ShapeFacts DEF LookedAt, MarkInv
<1>4. CASE Send(u)
  BY <1>2, <1>4 DEF Send, Active
<1>5. CASE Backoff(u)
  <2>1. CASE Again(u)
    BY <1>1, <2>1, AgainGoes DEF Acts
  <2>2. CASE ctxDone /\ GiveUp(u, IF kind = "hubspot" THEN "rowErrors" ELSE Shape.onCtx)
    BY <1>1, <1>3, <2>2, GiveUpMoves DEF Acts
  <2> QED BY <1>5, <2>1, <2>2 DEF Backoff
<1>6. CASE Tick(u)
  <2>1. CASE Resume(u, [w[u] EXCEPT !.pc = "check"])
    BY <1>2, <2>1 DEF Active
  <2>2. CASE (ctxDone /\ Settle(u, Shape.onCtx)) \/ Settle(u, Shape.onError)
    BY <1>1, <1>3, <2>2, SettleEnds, ShapeFacts DEF Acts, MarkInv
  <2> QED BY <1>6, <2>1, <2>2 DEF Tick
<1> QED BY <1>4, <1>5, <1>6

(* Whatever a worker does, the invariant holds and the contract is kept.    *)
LEMMA ActKeeps ==
  ASSUME MarkInv, UnitInv, NEW u \in Rows, Acts(u) PROVE UnitInv' /\ Contract!Step
<1>1. RowsMove(u)
  BY RowsOfStep DEF Acts
<1> QED BY <1>1, UnitStep, StepOfContract DEF Acts

(* The rows of a delivered unit are marked: those whose mark fails are       *)
(* errors, those the bulk job rejected are counted in a way of their own.   *)
LEMMA MarkMoves ==
  ASSUME MarkInv, UnitInv, NEW u \in Rows, Mark(u) PROVE UnitInv' /\ Contract!Step
<1>1. /\ phase = "send" /\ UNCHANGED workFrame /\ Served(u)
      /\ UNCHANGED <<phase, fatal>> /\ applied' = applied
      /\ w' = [w EXCEPT ![u] = Done(u)] /\ w[u].pc = "mark"
  BY DEF Mark, workFrame, helperVars, serverVars, Served
<1>2. PICK unmarked :
        /\ marked' = marked \cup (unit[u] \ unmarked)
        /\ verdict' = [r \in Rows |->
             IF r \notin unit[u] \/ verdict[r] # "none" THEN verdict[r]
             ELSE IF r \in unmarked THEN "error"
             ELSE IF r \in rejected THEN RejectedAs(u) ELSE "loaded"]
  BY DEF Mark
<1>3. /\ unit[u] \subseteq Rows /\ \A r \in unit[u] : verdict[r] = "none" /\ r \notin marked
      /\ unit[u] \subseteq applied \cup Waived
  BY <1>1, ActiveWorks DEF MarkInv, DeliveryShape, UnitInv, InHand, AtRequests, Covered, AtWork
<1>4. /\ RejectedAs(u) \in {"loaded", "unnamed", "lost"}
      /\ \A r \in rejected : Anonymous /\ r \in Waived
  BY DEF RejectedAs, UnitInv, NamesRows, Anonymous, Waived
<1>5. {"loaded", "unnamed", "lost", "error"} \subseteq Verdicts /\ "none" \notin {"loaded", "unnamed", "lost", "error"}
  BY DEF Verdicts, Counted
<1>6. verdict' \in [Rows -> Verdicts] /\ \A r \in Rows \ unit[u] : verdict'[r] = verdict[r]
  BY <1>2, <1>4, <1>5 DEF UnitInv
<1>7. ASSUME NEW r \in unit[u]
      PROVE  /\ \/ verdict'[r] = "error" /\ r \notin marked'
                \/ verdict'[r] = "loaded" /\ r \in marked' /\ r \in applied' \cup Waived
                \/ /\ verdict'[r] \in {"unnamed", "lost"} /\ Anonymous
                   /\ r \in marked' => r \in Waived
             /\ verdict'[r] # "none"
  BY <1>1, <1>2, <1>3, <1>4, <1>5
<1>8. RowsMove(u)
  BY <1>1, <1>2, <1>3, <1>6, <1>7, DoneShape DEF RowsMove
<1> QED BY <1>1, <1>8, UnitStep, StepOfContract

------------------------------------------------------------------------------
\* A worker takes its unit up

(* Of its unit it keeps some rows, to be sent, and decides the others.      *)
StartMove(u, rows) ==
  /\ rows \subseteq unit[u] /\ unit' = [unit EXCEPT ![u] = rows]
  /\ \E x : /\ w' = [w EXCEPT ![u] = x] /\ x.pc \in {"check", "resolve", "done"}
            /\ x.pc = "done" => rows = {}
  /\ verdict' \in [Rows -> Verdicts]
  /\ \A r \in Rows \ unit[u] : verdict'[r] = verdict[r]
  /\ \A r \in unit[u] \ rows :
       (verdict'[r] = "skipped" /\ r \in marked) \/ verdict'[r] = "error"
  /\ \A r \in rows : verdict'[r] = "none" /\ r \notin marked
  /\ \A r \in unit[u] : verdict[r] = "none"
  /\ UNCHANGED <<marked, phase, fatal>>

LEMMA StartMoveKeeps ==
  ASSUME MarkInv, UnitInv, NEW u \in Rows, phase = "send", NEW rows, StartMove(u, rows),
         UNCHANGED <<configVars, ctxDone, applied, rejected>>
  PROVE  UnitInv' /\ Contract!Step
<1>1. /\ Shape' = Shape /\ (LookedAt' <=> LookedAt) /\ n' = n /\ ctxDone' = ctxDone
      /\ (Anonymous' <=> Anonymous)
  BY DEF configVars, Shape, LookedAt, Anonymous
<1>2. PICK x : /\ w' = [w EXCEPT ![u] = x] /\ x.pc \in {"check", "resolve", "done"}
               /\ x.pc = "done" => rows = {}
  BY DEF StartMove
<1>3. /\ w \in [Rows -> WorkerShape] /\ unit \in [Rows -> SUBSET Rows] /\ 1..n \subseteq Rows
  BY DeliveryAssumption DEF MarkInv, DeliveryShape, Rows
<1>4. /\ w'[u] = x /\ \A v \in Rows : v # u => w'[v] = w[v]
      /\ unit'[u] = rows /\ \A v \in Rows : v # u => unit'[v] = unit[v]
      /\ rows \subseteq unit[u]
  BY <1>2, <1>3 DEF StartMove
<1>5. UnitsApart'
  <2>1. \A v \in Rows : unit'[v] \subseteq unit[v]
    BY <1>4
  <2> QED BY <2>1 DEF UnitInv, UnitsApart
<1>6. InHand'
  <2> SUFFICES ASSUME NEW v \in Rows, Pending(v)', NEW r \in unit'[v]
               PROVE /\ verdict'[r] = "none"
                     /\ Shape.checked = "first" \/ w'[v].pc # "queued" => r \notin marked'
    BY <1>1 DEF InHand
  <2>1. CASE v = u
    BY <1>4, <2>1 DEF StartMove
  <2>2. CASE v # u
    <3>1. r \in Rows \ unit[u] /\ r \in unit[v] /\ Pending(v) /\ w'[v] = w[v]
      BY <1>3, <1>4, <2>2 DEF Pending, UnitInv, UnitsApart
    <3> QED BY <3>1 DEF StartMove, UnitInv, InHand
  <2> QED BY <2>1, <2>2
<1>7. NoneForgotten'
  <2> SUFFICES ASSUME NEW r \in 1..n, verdict'[r] = "none"
               PROVE \E v \in Rows : r \in unit'[v] /\ (Pending(v)' \/ LookedAt)
    BY <1>1 DEF NoneForgotten
  <2>1. CASE r \in unit[u]
    <3>1. r \in rows /\ x.pc \in {"check", "resolve"}
      BY <1>2, <2>1 DEF StartMove
    <3> QED BY <1>4, <3>1 DEF Pending
  <2>2. CASE r \notin unit[u]
    <3>1. verdict[r] = "none"
      BY <1>3, <2>2 DEF StartMove
    <3>2. PICK v \in Rows : r \in unit[v] /\ (Pending(v) \/ LookedAt)
      BY <3>1 DEF UnitInv, NoneForgotten
    <3> QED BY <1>4, <2>2, <3>2 DEF Pending
  <2> QED BY <2>1, <2>2
<1>8. phase' = "send" /\ fatal' = fatal
  BY DEF StartMove
<1>9. Anonymous' \/ NamesRows'
  BY <1>1 DEF UnitInv, NamesRows, StartMove, Counted
<1>10. UnitInv'
  BY <1>1, <1>5, <1>6, <1>7, <1>8, <1>9 DEF UnitInv, EveryRowDecided, StartMove
<1>11. Contract!Count
  <2>1. \A r \in Rows : verdict[r] # "none" => verdict'[r] = verdict[r]
    BY DEF StartMove
  <2>2. ASSUME NEW r \in Rows, verdict'[r] # verdict[r]
        PROVE  (verdict'[r] = "skipped" => r \in marked) /\ verdict'[r] # "loaded"
    BY <2>2 DEF StartMove
  <2> QED BY <2>1, <2>2 DEF Contract!Count, StartMove
<1> QED BY <1>1, <1>8, <1>10, <1>11 DEF Contract!Step, Contract!Between

(* A Load that ends with a top-level error, and nothing else.              *)
LEMMA EndKeeps ==
  ASSUME UnitInv, phase \in {"filter", "send"}, phase' = "returned", fatal' = TRUE,
         UNCHANGED <<configVars, ctxDone, unit, w, verdict, marked, applied, rejected>>
  PROVE  UnitInv' /\ Contract!Step
<1>1. Shape' = Shape /\ n' = n /\ Anonymous' = Anonymous
  BY DEF configVars, Shape, Anonymous
<1>2. UnitInv'
  BY <1>1 DEF UnitInv, UnitsApart, InHand, Pending, EveryRowDecided, NamesRows
<1>3. Contract!Count
  BY DEF Contract!Count
<1> QED BY <1>1, <1>2, <1>3 DEF Contract!Step, Contract!Between

(* The rows of a set that the look at the delivery log decides.             *)
LEMMA Booked ==
  ASSUME UnitInv, NEW rows \in SUBSET Rows, NEW unread, verdict' = Book(rows, unread),
         \A r \in rows : verdict[r] = "none"
  PROVE  /\ verdict' \in [Rows -> Verdicts]
         /\ \A r \in Rows \ rows : verdict'[r] = verdict[r]
         /\ \A r \in ToSend(rows, unread) : verdict'[r] = "none" /\ r \in rows \ marked
         /\ \A r \in rows \ ToSend(rows, unread) :
              \/ verdict'[r] = "skipped" /\ r \in marked
              \/ verdict'[r] = "error"
<1>1. "skipped" \in Verdicts /\ "error" \in Verdicts
  BY DEF Verdicts, Counted
<1>2. ToSend(rows, unread) \subseteq rows \ marked
  BY DEF ToSend
<1> QED BY <1>1, <1>2 DEF Book, UnitInv

LEMMA StartMoves ==
  ASSUME MarkInv, UnitInv, NEW u \in Rows, Start(u)
  PROVE  UnitInv' /\ Contract!Step
<1> DEFINE inTurn == Shape.checked = "inTurn"
<1>1. /\ phase = "send" /\ w[u].pc = "queued"
      /\ UNCHANGED <<configVars, ctxDone, marked, applied, rejected>>
  BY DEF Start, helperVars, serverVars
<1>2. CASE ctxDone /\ "unit" \in Shape.ctx
  <2>1. phase' = "returned" /\ fatal' = TRUE /\ UNCHANGED <<unit, w, verdict>>
    BY <1>2 DEF Start, Abort
  <2> QED BY <1>1, <2>1, EndKeeps
<1>3. CASE ~(ctxDone /\ "unit" \in Shape.ctx)
  <2> DEFINE rowsOf(unread) == IF inTurn THEN ToSend(unit[u], unread) ELSE unit[u]
             next(rows) == IF rows = {} THEN Done(u)
                           ELSE IF kind = "hubspot" THEN [Idle EXCEPT !.pc = "resolve"]
                           ELSE AtRequest(1)
  <2>1. PICK unread :
          LET rows == rowsOf(unread)
          IN /\ unit' = [unit EXCEPT ![u] = rows]
             /\ verdict' = IF inTurn THEN Book(unit[u], unread) ELSE verdict
             /\ w' = [w EXCEPT ![u] = next(rows)]
             /\ UNCHANGED <<phase, fatal>>
    BY <1>3 DEF Start
  <2> DEFINE rows == rowsOf(unread)
             x == next(rows)
  <2>2. /\ unit[u] \subseteq Rows /\ verdict \in [Rows -> Verdicts]
        /\ \A r \in unit[u] : verdict[r] = "none"
        /\ Shape.checked = "first" => \A r \in unit[u] : r \notin marked
        /\ Shape.checked \in {"first", "inTurn"}
    BY <1>1, ShapeFacts DEF MarkInv, DeliveryShape, UnitInv, InHand, Pending
  <2>3. x.pc \in {"check", "resolve", "done"} /\ (x.pc = "done" => rows = {})
    <3>1. /\ Done(u).pc = "done" /\ AtRequest(1).pc = "check" /\ [Idle EXCEPT !.pc = "resolve"].pc = "resolve"
      BY DoneShape, FirstShape DEF Idle
    <3> HIDE DEF rows
    <3> QED BY <3>1
  <2>4. /\ unit' = [unit EXCEPT ![u] = rows] /\ w' = [w EXCEPT ![u] = x]
        /\ verdict' = (IF inTurn THEN Book(unit[u], unread) ELSE verdict)
        /\ UNCHANGED <<phase, fatal>>
    BY <2>1
  <2> HIDE DEF x
  <2>5. CASE ~inTurn
    <3>1. rows = unit[u]
      BY <2>5
    <3> HIDE DEF rows
    <3>2. StartMove(u, rows)
      BY <1>1, <2>2, <2>3, <2>4, <2>5, <3>1 DEF StartMove
    <3> QED BY <1>1, <3>2, StartMoveKeeps
  <2>6. CASE inTurn
    <3>1. verdict' = Book(unit[u], unread) /\ rows = ToSend(unit[u], unread)
      BY <2>4, <2>6
    <3> HIDE DEF rows
    <3>2. /\ verdict' \in [Rows -> Verdicts]
          /\ \A r \in Rows \ unit[u] : verdict'[r] = verdict[r]
          /\ \A r \in rows : verdict'[r] = "none" /\ r \in unit[u] \ marked
          /\ \A r \in unit[u] \ rows :
               \/ verdict'[r] = "skipped" /\ r \in marked
               \/ verdict'[r] = "error"
      BY <2>2, <3>1, Booked
    <3>3. StartMove(u, rows)
      BY <1>1, <2>2, <2>3, <2>4, <3>2 DEF StartMove
    <3> QED BY <1>1, <3>3, StartMoveKeeps
  <2> QED BY <2>5, <2>6
<1> QED BY <1>2, <1>3

------------------------------------------------------------------------------
\* The actions of Load

LEMMA QueueKeeps ==
  ASSUME MarkInv, UnitInv, phase = "filter", phase' = "send", UNCHANGED <<configVars, fatal, ctxDone>>,
         UNCHANGED <<marked, applied, rejected>>,
         NEW rows \in SUBSET (1..n), Queue(Units(rows)),
         verdict' \in [Rows -> Verdicts],
         \A r \in rows : verdict'[r] = "none" /\ (Shape.checked = "first" => r \notin marked),
         \A r \in (1..n) \ rows : verdict'[r] # "none",
         \A r \in Rows : verdict'[r] \in {"none", "skipped", "error"},
         \A r \in Rows : verdict'[r] = "skipped" => r \in marked
  PROVE  UnitInv' /\ Contract!Step
<1>1. /\ Shape' = Shape /\ n' = n /\ ctxDone' = ctxDone /\ n \in Nat /\ 1..n \subseteq Rows
      /\ Anonymous' = Anonymous
  BY DeliveryAssumption DEF configVars, Shape, MarkInv, DeliveryShape, Rows, Anonymous
<1>2. /\ unit' = Units(rows) /\ rows \in SUBSET Rows /\ DeliveryShape
      /\ \A r \in Rows : w'[r] = IF Units(rows)[r] = {} THEN Idle ELSE [Idle EXCEPT !.pc = "queued"]
  BY <1>1 DEF Queue, MarkInv
<1>3. /\ Idle.pc = "idle" /\ [Idle EXCEPT !.pc = "queued"].pc = "queued"
  BY DEF Idle
<1>4. \A r \in Rows : /\ w'[r].pc \in {"idle", "queued"}
                      /\ (Pending(r)' <=> unit'[r] # {})
  BY <1>2, <1>3 DEF Pending
<1>5. UnitsApart'
  <2> SUFFICES ASSUME NEW u \in Rows, NEW v \in Rows, u # v, NEW r \in Units(rows)[u], r \in Units(rows)[v]
               PROVE FALSE
    BY <1>2 DEF UnitsApart
  <2>1. r \in 1..n
    BY <1>2, UnitsWithin
  <2> QED BY <1>1, <1>2, <2>1, UnitsDisjoint
<1>6. InHand'
  <2> SUFFICES ASSUME NEW u \in Rows, Pending(u)', NEW r \in Units(rows)[u]
               PROVE /\ verdict'[r] = "none"
                     /\ Shape.checked = "first" \/ w'[u].pc # "queued" => r \notin marked'
    BY <1>1, <1>2 DEF InHand
  <2>1. r \in rows /\ w'[u].pc = "queued"
    BY <1>2, <1>4, UnitsWithin DEF Pending
  <2> QED BY <2>1
<1>7. NoneForgotten'
  <2> SUFFICES ASSUME NEW r \in 1..n, verdict'[r] = "none"
               PROVE \E u \in Rows : r \in unit'[u] /\ Pending(u)'
    BY <1>1 DEF NoneForgotten
  <2>1. r \in rows /\ n # 0
    BY <1>1
  <2>2. PICK u \in Rows : r \in Units(rows)[u]
    BY <1>2, <2>1, UnitsCover
  <2> QED BY <1>2, <1>4, <2>2
<1>8. UnitInv'
  <2>1. Anonymous' \/ NamesRows'
    BY <1>1 DEF UnitInv, NamesRows, Counted
  <2> QED BY <1>1, <1>5, <1>6, <1>7, <2>1 DEF UnitInv, EveryRowDecided
<1>9. Contract!Count
  <2>1. \A r \in Rows : verdict[r] = "none"
    BY DEF UnitInv
  <2> QED BY <2>1 DEF Contract!Count
<1> QED BY <1>1, <1>8, <1>9 DEF Contract!Step, Contract!Between

LEMMA FilterMoves == ASSUME MarkInv, UnitInv, Filter PROVE UnitInv' /\ Contract!Step
<1>1. /\ phase = "filter" /\ UNCHANGED <<configVars, ctxDone, marked, applied, rejected>>
      /\ \A r \in Rows : verdict[r] = "none"
      /\ 1..n \subseteq Rows /\ verdict \in [Rows -> Verdicts]
  BY DeliveryAssumption DEF Filter, helperVars, serverVars, UnitInv, MarkInv, DeliveryShape, Rows
<1>2. CASE ctxDone /\ "pass" \in Shape.ctx
  <2>1. phase' = "returned" /\ fatal' = TRUE /\ UNCHANGED <<unit, w, verdict>>
    BY <1>2 DEF Filter
  <2> QED BY <1>1, <2>1, EndKeeps
<1>3. CASE ~(ctxDone /\ "pass" \in Shape.ctx) /\ Shape.checked = "inTurn"
  <2>1. phase' = "send" /\ UNCHANGED <<fatal, verdict>> /\ Queue(Units(1..n))
    BY <1>3 DEF Filter
  <2>2. 1..n \in SUBSET (1..n) /\ \A r \in (1..n) \ (1..n) : FALSE
    OBVIOUS
  <2>3. \A r \in 1..n : verdict'[r] = "none" /\ (Shape.checked = "first" => r \notin marked)
    BY <1>1, <1>3, <2>1
  <2> QED BY <1>1, <2>1, <2>2, <2>3, QueueKeeps
<1>4. CASE ~(ctxDone /\ "pass" \in Shape.ctx) /\ Shape.checked # "inTurn"
  <2>1. PICK unread : /\ phase' = "send" /\ UNCHANGED fatal
                      /\ verdict' = Book(1..n, unread)
                      /\ Queue(Units(ToSend(1..n, unread)))
    BY <1>4 DEF Filter
  <2> DEFINE rows == ToSend(1..n, unread)
  <2>2. /\ verdict' \in [Rows -> Verdicts]
        /\ \A r \in Rows \ (1..n) : verdict'[r] = verdict[r]
        /\ \A r \in rows : verdict'[r] = "none" /\ r \in (1..n) \ marked
        /\ \A r \in (1..n) \ rows :
             \/ verdict'[r] = "skipped" /\ r \in marked
             \/ verdict'[r] = "error"
    <3>1. 1..n \in SUBSET Rows /\ \A r \in 1..n : verdict[r] = "none"
      BY <1>1
    <3> QED BY <2>1, <3>1, Booked
  <2> HIDE DEF rows
  <2>3. rows \in SUBSET (1..n) /\ Queue(Units(rows))
    BY <2>1, <2>2 DEF rows
  <2>4. \A r \in Rows : /\ verdict'[r] \in {"none", "skipped", "error"}
                        /\ verdict'[r] = "skipped" => r \in marked
    BY <1>1, <2>2
  <2>5. /\ \A r \in rows : verdict'[r] = "none" /\ (Shape.checked = "first" => r \notin marked)
        /\ \A r \in (1..n) \ rows : verdict'[r] # "none"
    BY <2>2
  <2> QED BY <1>1, <2>1, <2>2, <2>3, <2>4, <2>5, QueueKeeps
<1> QED BY <1>2, <1>3, <1>4

LEMMA CallMoves == ASSUME MarkInv, UnitInv, Call PROVE UnitInv' /\ Contract!Begin
<1>1. /\ phase \in {"idle", "returned"} /\ UNCHANGED <<kind, ctxDone>> /\ ctxDone \in BOOLEAN
      /\ n' \in 0..MaxRows /\ 1..n' \subseteq Rows
  BY DeliveryAssumption DEF Call, helperVars, UnitInv, MarkInv, DeliveryShape, Opt, Instances, Rows
<1>2. /\ \A r \in Rows : verdict'[r] = "none" /\ unit'[r] = {} /\ w'[r] = Idle
      /\ fatal' = ctxDone /\ phase' = IF ctxDone THEN "returned" ELSE "filter"
      /\ verdict' = [r \in Rows |-> "none"]
      /\ UNCHANGED <<applied, marked>> \/ (applied' = {} /\ marked' = {})
      /\ rejected' \in {rejected, {}} /\ Anonymous' = Anonymous
  <2>1. /\ verdict' = [r \in Rows |-> "none"] /\ unit' = [r \in Rows |-> {}] /\ w' = [r \in Rows |-> Idle]
        /\ fatal' = ctxDone /\ phase' = IF ctxDone THEN "returned" ELSE "filter"
    BY DEF Call
  <2>2. /\ UNCHANGED <<applied, marked>> \/ (applied' = {} /\ marked' = {})
        /\ rejected' \in {rejected, {}} /\ Anonymous' = Anonymous
    BY DEF Call, Anonymous
  <2> QED BY <2>1, <2>2
<1>3. Idle.pc = "idle" /\ "none" \in Verdicts
  BY DEF Idle, Verdicts
<1>4. UnitInv'
  BY <1>1, <1>2, <1>3 DEF UnitInv, UnitsApart, InHand, Pending, EveryRowDecided, NamesRows
<1>5. Contract!Begin
  BY <1>1, <1>2 DEF Contract!Begin, Contract!Between
<1> QED BY <1>4, <1>5

LEMMA ReturnMoves == ASSUME MarkInv, UnitInv, Return PROVE UnitInv' /\ Contract!Step
<1>1. /\ phase = "send" /\ phase' = "returned"
      /\ UNCHANGED <<n, kind, ctxDone, unit, w, verdict, marked, applied, rejected>>
      /\ \A r \in Rows : ~Pending(r)
      /\ fatal' = (LookedAt /\ \E r \in Rows : unit[r] # {})
  BY DEF Return, configVars, helperVars, serverVars, Pending, LookedAt
<1>2. ASSUME ~fatal'
      PROVE  \A r \in 1..n : verdict[r] \in Counted \/ (Anonymous /\ verdict[r] # "none")
  <2>1. \A r \in 1..n : r \in Rows
    BY DeliveryAssumption DEF MarkInv, DeliveryShape, Rows
  <2>2. \A r \in 1..n : verdict[r] # "none"
    BY <1>1, <1>2 DEF UnitInv, NoneForgotten
  <2> QED BY <2>1, <2>2 DEF UnitInv, NamesRows
<1>3. Shape' = Shape /\ fatal' \in BOOLEAN /\ Anonymous' = Anonymous
  BY <1>1 DEF Shape, Anonymous
<1>4. UnitInv'
  BY <1>1, <1>2, <1>3 DEF UnitInv, UnitsApart, InHand, Pending, EveryRowDecided, NamesRows
<1>5. Contract!Count
  BY <1>1 DEF Contract!Count
<1> QED BY <1>1, <1>2, <1>3, <1>4, <1>5 DEF Contract!Step, Contract!Between, Contract!Counted, Counted

(* What moves neither rows nor the places of the workers.                  *)
LEMMA StillKeeps ==
  ASSUME UnitInv, UNCHANGED <<configVars, unit, verdict, marked, phase, fatal, applied, rejected>>,
         ctxDone' \in BOOLEAN, ctxDone => ctxDone', \A u \in Rows : w'[u].pc = w[u].pc
  PROVE  UnitInv' /\ UNCHANGED Contract!vars
<1>1. Shape' = Shape /\ n' = n /\ Anonymous' = Anonymous
  BY DEF configVars, Shape, Anonymous
<1>2. \A u \in Rows : Pending(u)' <=> Pending(u)
  BY DEF Pending
<1>3. LookedAt => LookedAt'
  BY <1>1 DEF LookedAt
<1>4. InHand' /\ UnitsApart'
  BY <1>1, <1>2 DEF UnitInv, InHand, UnitsApart
<1>5. phase' = "send" => NoneForgotten'
  BY <1>1, <1>2, <1>3 DEF UnitInv, NoneForgotten
<1>6. UnitInv'
  BY <1>1, <1>4, <1>5 DEF UnitInv, EveryRowDecided, NamesRows
<1> QED BY <1>1, <1>6 DEF Contract!vars

LEMMA DeadlineKeeps ==
  ASSUME MarkInv, UnitInv, NEW u \in Rows, Deadline(u) PROVE UnitInv' /\ UNCHANGED Contract!vars
<1>1. /\ UNCHANGED <<configVars, unit, ctxDone, verdict, marked, phase, fatal, applied, rejected>>
      /\ w' = [w EXCEPT ![u] = [w[u] EXCEPT !.late = TRUE]]
  BY DEF Deadline, Resume, helperVars, serverVars
<1>2. \A v \in Rows : w'[v].pc = w[v].pc
  BY <1>1 DEF MarkInv, DeliveryShape, WorkerShape
<1> QED BY <1>1, <1>2, StillKeeps DEF UnitInv

LEMMA UnitNext ==
  ASSUME MarkInv, UnitInv, [Next]_vars PROVE UnitInv' /\ [Contract!Next]_(Contract!vars)
<1>1. CASE Call
  BY <1>1, CallMoves DEF Contract!Next
<1>2. CASE Filter
  BY <1>2, FilterMoves DEF Contract!Next
<1>3. CASE Return
  BY <1>3, ReturnMoves DEF Contract!Next
<1>4. ASSUME NEW u \in Rows, Work(u) PROVE UnitInv' /\ Contract!Step
  BY <1>4, StartMoves, ResolveActs, ChecksAct, AnswerActs, WaitsAct, ActKeeps, MarkMoves DEF Work
<1>5. CASE \E u \in Rows : Deadline(u)
  BY <1>5, DeadlineKeeps
<1>6. CASE Refill \/ Cooldown \/ TokenExpires \/ EndContext \/ UNCHANGED vars
  <2>1. /\ UNCHANGED <<configVars, unit, w, verdict, marked, phase, fatal, applied, rejected>>
        /\ ctxDone' \in BOOLEAN /\ (ctxDone => ctxDone')
    BY <1>6 DEF Refill, Cooldown, TokenExpires, EndContext, envFrame, vars, helperVars, loadVars,
       serverVars, UnitInv
  <2> QED BY <2>1, StillKeeps
<1> QED BY <1>1, <1>2, <1>3, <1>4, <1>5, <1>6 DEF Next, Contract!Next

LEMMA UnitInit == Init => UnitInv /\ Contract!Init
<1> SUFFICES ASSUME Init PROVE UnitInv /\ Contract!Init OBVIOUS
<1>1. Idle.pc = "idle" /\ "none" \in Verdicts
  BY DEF Idle, Verdicts
<1>2. UnitInv
  BY <1>1 DEF Init, UnitInv, UnitsApart, InHand, Pending, EveryRowDecided, NamesRows
<1>3. 1..n = {}
  BY DEF Init
<1> QED BY <1>2, <1>3 DEF Init, Contract!Init

(* A Load that returns without a top-level error has counted every row as    *)
(* loaded, skipped or failed, whenever the context ends and whatever became  *)
(* of its requests, retries and bulk jobs.                                  *)
THEOREM NoRowUndecided == Spec => []EveryRowDecided
<1>1. Init => MarkInv /\ UnitInv
  BY MarkInit, UnitInit
<1>2. MarkInv /\ UnitInv /\ [Next]_vars => (MarkInv /\ UnitInv)'
  BY MarkStep, UnitNext
<1>3. UnitInv => EveryRowDecided
  BY DEF UnitInv
<1> QED BY <1>1, <1>2, <1>3, PTL DEF Spec

(* Every destination implements the contract of destination.go: a row in the *)
(* delivery log is not written again, enters it only when written, is       *)
(* counted once, and all are counted when Load returns without an error.    *)
THEOREM KeepsTheContract == Spec => KeepsContract
<1>1. Init => MarkInv /\ UnitInv /\ Contract!Init
  BY MarkInit, UnitInit
<1>2. MarkInv /\ UnitInv /\ [Next]_vars => (MarkInv /\ UnitInv)' /\ [Contract!Next]_(Contract!vars)
  BY MarkStep, UnitNext
<1> QED BY <1>1, <1>2, PTL DEF Spec, KeepsContract, Contract!Spec

------------------------------------------------------------------------------
\* The destinations that search before they create

(* About to create a record of its entity.                                 *)
About(u) == w[u].pc \in Active /\ w[u].stage = 2 /\ ~w[u].found

(* A request for the entity had no usable answer, or two rows raced for it.  *)
Excused(e) == \E r \in unsure \cup raced : entity[r] = e

(* Where a worker is about to create a record, there is none yet, and no     *)
(* other worker is about to create one.                                    *)
CreateInv ==
  /\ entity \in [Rows -> Rows] /\ records \in [Rows -> Nat]
  /\ kind \in SearchFirst =>
       /\ \A u \in Rows : About(u) => records[entity[u]] = 0 \/ Excused(entity[u])
       /\ \A u, v \in Rows :
            About(u) /\ About(v) /\ u # v /\ entity[u] = entity[v] => Excused(entity[u])
  /\ NoSecondRecord

(* The requests of such a unit.                                            *)
LEMMA SearchRequests ==
  ASSUME NEW k \in SearchFirst, NEW found \in BOOLEAN, NEW st \in BOOLEAN, NEW del \in BOOLEAN,
         NEW s \in 1..Len(RequestsOf(k, found, st, del))
  PROVE  LET e == RequestsOf(k, found, st, del)[s].effect
         IN /\ e \in {"search", "create", "update", "archive"}
            /\ e = "create" => s = 2 /\ ~found
            /\ s \in {1, 2}
<1>1. CASE k = "intercom"
  <2>1. Len(IntercomUpsert(found)) = 2 /\ s \in {1, 2}
    BY <1>1 DEF RequestsOf, IntercomUpsert
  <2> QED BY <1>1, <2>1 DEF RequestsOf, IntercomUpsert, IntercomSearch, IntercomWrite, Request
<1>2. CASE k = "pipedrive"
  <2>1. Len(PipedriveUpsert(found)) = 2 /\ s \in {1, 2}
    BY <1>2 DEF RequestsOf, PipedriveUpsert
  <2> QED BY <1>2, <2>1 DEF RequestsOf, PipedriveUpsert, PipedriveSearch, PipedriveWrite, Request
<1>3. CASE k = "hubspot"
  <2>1. s \in 1..Len(HubSpotDeliver(found, st, del))
    BY <1>3 DEF RequestsOf
  <2>2. Len(HubSpotDeliver(found, st, del)) \in 0..2 /\ s \in {1, 2}
    BY <2>1 DEF HubSpotDeliver
  <2> QED BY <1>3, <2>1, <2>2 DEF RequestsOf, HubSpotDeliver, HubSpotSend, Request
<1> QED BY <1>1, <1>2, <1>3 DEF SearchFirst

LEMMA AtSearchRequest ==
  ASSUME DeliveryShape, AtRequests, kind \in SearchFirst, NEW u \in Rows, w[u].pc \in Active
  PROVE  /\ Req(u).effect \in {"search", "create", "update", "archive"}
         /\ Req(u).effect = "create" => w[u].stage = 2 /\ ~w[u].found
         /\ w[u].stage = Len(Requests(u)) <=> Req(u).effect # "search"
         /\ w[u].stage \in {1, 2}
<1> DEFINE st == Known(u)
           del == kind = "hubspot" /\ u \in deletes
<1>1. /\ w[u].stage \in 1..Len(Requests(u)) /\ w[u].found \in BOOLEAN
      /\ Requests(u) = RequestsOf(kind, w[u].found, st, del) /\ st \in BOOLEAN /\ del \in BOOLEAN
  BY DEF AtRequests, DeliveryShape, WorkerShape, Requests, Known
<1> HIDE DEF st, del
<1>2. kind \notin BulkKinds
  BY DEF SearchFirst, BulkKinds
<1> QED BY <1>1, <1>2, SearchRequests, AtRequestFacts DEF Req

(* A worker that does not go on to another request.                        *)
Stays(u) ==
  \E x : /\ w' = [w EXCEPT ![u] = x]
         /\ x.pc \in Active =>
              w[u].pc \in Active /\ x.stage = w[u].stage /\ x.found = w[u].found

LEMMA FailedStays ==
  ASSUME NEW u \in Rows, w[u].pc \in Active, Failed(u) PROVE Stays(u)
BY DEF Failed, Stays

createFrame == <<kind, entity, records, unsure, raced>>

LEMMA NoneMoreKeeps ==
  ASSUME CreateInv, UNCHANGED createFrame, \A v \in Rows : About(v)' => About(v) PROVE CreateInv'
<1>1. \A e : Excused(e)' = Excused(e)
  BY DEF Excused, createFrame
<1> QED BY <1>1 DEF CreateInv, NoSecondRecord, createFrame

LEMMA StaysKeeps ==
  ASSUME MarkInv, CreateInv, NEW u \in Rows, Stays(u), UNCHANGED createFrame
  PROVE  CreateInv'
<1>1. PICK x : /\ w' = [w EXCEPT ![u] = x]
               /\ x.pc \in Active =>
                    w[u].pc \in Active /\ x.stage = w[u].stage /\ x.found = w[u].found
  BY DEF Stays
<1>2. \A v \in Rows : About(v)' => About(v)
  BY <1>1 DEF MarkInv, DeliveryShape, About
<1> QED BY <1>2, NoneMoreKeeps

LEMMA WorkStays ==
  ASSUME MarkInv, NEW u \in Rows,
         \/ CheckContext(u) \/ CheckBreaker(u) \/ CheckLimiter(u) \/ CheckAuth(u)
         \/ Send(u) \/ Backoff(u) \/ Tick(u) \/ Deadline(u) \/ Mark(u)
  PROVE  Stays(u) /\ UNCHANGED createFrame
<1>0. UNCHANGED createFrame
  BY DEF CheckContext, CheckBreaker, CheckLimiter, CheckAuth, Send, Backoff, Tick, Deadline, Mark,
     checkFrame, configVars, serverVars, ghosts, createFrame
<1>1. w[u] \in WorkerShape
  BY DEF MarkInv, DeliveryShape
<1>2. CASE CheckContext(u) \/ CheckBreaker(u) \/ CheckLimiter(u) \/ CheckAuth(u)
  <2>1. /\ w[u].pc \in Active
        /\ \/ \E probe : Pass(u, probe)
           \/ \E answer \in {NoAnswer, Circuit, NoToken} : Drop(u, answer)
    BY <1>2 DEF CheckContext, CheckBreaker, CheckLimiter, CheckAuth, Checking, Active
  <2>2. CASE \E probe : Pass(u, probe)
    <3>1. PICK probe : Pass(u, probe)
      BY <2>2
    <3> DEFINE x == [w[u] EXCEPT !.probe = probe, !.check = @ + 1,
                                 !.pc = IF LastCheck(u) THEN "sent" ELSE @]
    <3>2. x.stage = w[u].stage /\ x.found = w[u].found
      BY <1>1 DEF WorkerShape
    <3>3. w' = [w EXCEPT ![u] = x]
      BY <3>1 DEF Pass, Resume
    <3> HIDE DEF x
    <3> QED BY <1>0, <2>1, <3>2, <3>3 DEF Stays
  <2>3. CASE \E answer \in {NoAnswer, Circuit, NoToken} : Drop(u, answer)
    <3>1. PICK answer \in {NoAnswer, Circuit, NoToken} : Drop(u, answer)
      BY <2>3
    <3>2. ~Good(answer)
      BY DEF Good, NoAnswer, Circuit, NoToken
    <3> QED BY <1>0, <2>1, <3>1, <3>2, AttemptFails, FailedStays DEF Drop
  <2> QED BY <2>1, <2>2, <2>3
<1>3. ASSUME NEW place, w[u].pc \in Active, Resume(u, [w[u] EXCEPT !.pc = place]) PROVE Stays(u)
  <2>1. /\ [w[u] EXCEPT !.pc = place].stage = w[u].stage
        /\ [w[u] EXCEPT !.pc = place].found = w[u].found
    BY <1>1 DEF WorkerShape
  <2> QED BY <1>3, <2>1 DEF Resume, Stays
<1>4. CASE Send(u)
  BY <1>0, <1>3, <1>4 DEF Send, Active
<1>5. CASE Backoff(u)
  BY <1>0, <1>5, AgainFails, GiveUpFails, FailedStays DEF Backoff, Active
<1>6. CASE Tick(u)
  <2>1. w[u].pc \in Active
    BY <1>6 DEF Tick, Active
  <2>2. CASE \E how : Settle(u, how)
    BY <1>0, <2>1, <2>2, SettleFails, FailedStays
  <2>3. CASE Resume(u, [w[u] EXCEPT !.pc = "check"])
    BY <1>0, <1>3, <2>1, <2>3
  <2> QED BY <1>6, <2>2, <2>3 DEF Tick
<1>7. CASE Deadline(u)
  <2>1. /\ [w[u] EXCEPT !.late = TRUE].stage = w[u].stage
        /\ [w[u] EXCEPT !.late = TRUE].found = w[u].found
        /\ [w[u] EXCEPT !.late = TRUE].pc = w[u].pc
    BY <1>1 DEF WorkerShape
  <2>2. w' = [w EXCEPT ![u] = [w[u] EXCEPT !.late = TRUE]]
    BY <1>7 DEF Deadline, Resume
  <2> QED BY <1>0, <2>1, <2>2 DEF Stays
<1>8. CASE Mark(u)
  <2>1. w' = [w EXCEPT ![u] = Done(u)] /\ Done(u).pc \notin Active
    BY <1>8, DoneShape DEF Mark, Active
  <2> QED BY <1>0, <2>1 DEF Stays
<1> QED BY <1>2, <1>4, <1>5, <1>6, <1>7, <1>8

(* What a request does to the records: to those of its own entity, and only  *)
(* a create may leave two.                                                 *)
LEMMA ServeRecords ==
  ASSUME CreateInv, NEW u \in Rows, NEW effect, NEW taken, Serve(u, effect, taken)
  PROVE  /\ records' \in [Rows -> Nat]
         /\ \A e \in Rows : records'[e] # records[e] => e = entity[u]
         /\ records'[entity[u]] = 2 =>
              records[entity[u]] = 2 \/ (effect = "create" /\ records[entity[u]] # 0)
         /\ records[entity[u]] = 0 /\ effect # "create" => records'[entity[u]] = 0
<1> DEFINE e == entity[u]
<1>1. e \in Rows /\ records \in [Rows -> Nat]
  BY DEF CreateInv
<1> HIDE DEF e
<1>2. ASSUME NEW k \in Nat, records' = [records EXCEPT ![e] = k]
      PROVE  /\ records' \in [Rows -> Nat] /\ records'[e] = k
             /\ \A x \in Rows : x # e => records'[x] = records[x]
  BY <1>1, <1>2
<1>3. CASE effect = "create"
  <2> DEFINE k == IF records[e] = 0 THEN 1 ELSE 2
  <2>1. records' = [records EXCEPT ![e] = k] /\ k \in Nat
    BY <1>3 DEF Serve, e
  <2>2. k = 2 => records[e] # 0
    OBVIOUS
  <2> HIDE DEF k
  <2> QED BY <1>2, <1>3, <2>1, <2>2 DEF e
<1>4. CASE effect = "archive"
  <2> DEFINE k == IF records[e] = 2 THEN 1 ELSE 0
  <2>1. records' = [records EXCEPT ![e] = k] /\ k \in Nat
    BY <1>4 DEF Serve, e
  <2>2. k # 2 /\ (records[e] = 0 => k = 0)
    OBVIOUS
  <2> HIDE DEF k
  <2> QED BY <1>2, <1>4, <2>1, <2>2 DEF e
<1>5. CASE effect \notin {"create", "archive"}
  <2>1. records' = records
    BY <1>5 DEF Serve, serverVars
  <2> QED BY <1>1, <1>5, <2>1 DEF e
<1> QED BY <1>3, <1>4, <1>5

(* Where the worker goes on to its second request without having found a    *)
(* record, that was its search.                                            *)
LEMMA GoodCreates ==
  ASSUME MarkInv, CreateInv, kind \in SearchFirst, NEW u \in Rows, w[u].pc = "sent",
         AfterGoodAnswer(u)
  PROVE  /\ \E x : w' = [w EXCEPT ![u] = x] /\ (x.pc \in Active => Req(u).effect = "search")
         /\ unsure \subseteq unsure' /\ raced \subseteq raced'
         /\ About(u)' => \/ u \in unsure'
                         \/ /\ records[entity[u]] = 0
                            /\ (\E v \in Rows \ {u} : entity[v] = entity[u] /\ About(v)) => u \in raced'
<1>1. /\ Req(u).effect \in {"search", "create", "update", "archive"}
      /\ w[u].stage = Len(Requests(u)) <=> Req(u).effect # "search"
  BY AtSearchRequest DEF MarkInv, Active
<1>2. ASSUME NEW found, Finish(u, found)
      PROVE  \E x : w' = [w EXCEPT ![u] = x] /\ x.pc \notin Active
  <2> DEFINE x == [Idle EXCEPT !.pc = "mark", !.stage = w[u].stage, !.found = found]
  <2>1. w' = [w EXCEPT ![u] = x] /\ x.pc = "mark"
    BY <1>2 DEF Finish, Resume, Idle
  <2> HIDE DEF x
  <2> QED BY <2>1 DEF Active
<1>3. ASSUME \E x : w' = [w EXCEPT ![u] = x] /\ x.pc \notin Active PROVE ~About(u)'
  BY <1>3 DEF About, MarkInv, DeliveryShape
<1>4. CASE Req(u).effect # "search"
  <2>1. NextRequest(u, w[u].found \/ Req(u).effect = "failures") /\ UNCHANGED <<unsure, raced>>
    BY <1>1, <1>4 DEF AfterGoodAnswer
  <2>2. \E found : Finish(u, found)
    BY <1>1, <1>4, <2>1 DEF NextRequest
  <2> QED BY <1>2, <1>3, <2>1, <2>2
<1>5. CASE Req(u).effect = "search"
  <2>1. AfterSearch(u)
    BY <1>5 DEF AfterGoodAnswer
  <2>2. ASSUME NEW found \in BOOLEAN, NextRequest(u, found)
        PROVE  (\E x : w' = [w EXCEPT ![u] = x]) /\ (About(u)' => ~found)
    <3>1. ToRequest(u, w[u].stage + 1, found) /\ w[u].stage + 1 \in 0..6
      <4>1. w[u].stage \in {1, 2} /\ w[u].stage # Len(Requests(u))
        BY <1>1, <1>5, AtSearchRequest DEF MarkInv, Active
      <4> QED BY <2>2, <4>1 DEF NextRequest
    <3>2. PICK x \in WorkerShape : w' = [w EXCEPT ![u] = x] /\ x.found = found
      BY <3>1, ToRequestGoes
    <3> QED BY <3>2 DEF About, MarkInv, DeliveryShape
  <2>3. CASE Settle(u, "rowErrors") /\ UNCHANGED <<unsure, raced>>
    <3>1. w' = [w EXCEPT ![u] = Done(u)] /\ Done(u).pc \notin Active
      BY <2>3, DoneShape DEF Settle, Active
    <3> QED BY <1>3, <2>3, <3>1
  <2>4. CASE /\ NextRequest(u, records[entity[u]] > 0) /\ UNCHANGED unsure
             /\ raced' = IF records[entity[u]] = 0
                              /\ \E v \in Rows \ {u} : entity[v] = entity[u] /\ Creating(v)
                           THEN raced \cup {u} ELSE raced
    <3>1. (records[entity[u]] > 0) \in BOOLEAN OBVIOUS
    <3>2. (\E x : w' = [w EXCEPT ![u] = x]) /\ (About(u)' => ~(records[entity[u]] > 0))
      BY <2>2, <2>4, <3>1
    <3>3. ~(records[entity[u]] > 0) => records[entity[u]] = 0
      BY DEF CreateInv
    <3>4. \A v : About(v) => Creating(v)
      BY DEF About, Creating, Active
    <3> QED BY <1>5, <2>4, <3>2, <3>3, <3>4
  <2>5. CASE unsure' = unsure \cup {u} /\ UNCHANGED raced /\ NextRequest(u, FALSE)
    BY <1>5, <2>2, <2>5
  <2> QED BY <2>1, <2>3, <2>4, <2>5 DEF AfterSearch
<1> QED BY <1>4, <1>5

LEMMA BadCreates ==
  ASSUME MarkInv, NEW u \in Rows, w[u].pc = "sent", NEW answer, ~Good(answer),
         AfterBadAnswer(u, answer)
  PROVE  /\ \E x : w' = [w EXCEPT ![u] = x]
         /\ About(u)' => About(u)
         /\ unsure \subseteq unsure' /\ raced' = raced
         /\ Req(u).effect = "create" => u \in unsure' \/ Refused(answer)
<1>1. Failed(u)
  BY AttemptFails DEF AfterBadAnswer, Active
<1>2. PICK x : w' = [w EXCEPT ![u] = x]
               /\ (x.pc \in Active => x.stage = w[u].stage /\ x.found = w[u].found)
  BY <1>1 DEF Failed
<1>3. About(u)' => About(u)
  BY <1>2 DEF About, MarkInv, DeliveryShape, Active
<1> QED BY <1>2, <1>3 DEF AfterBadAnswer

LEMMA AnswerCreates ==
  ASSUME MarkInv, CreateInv, NEW u \in Rows, Answer(u) PROVE CreateInv'
<1>1. w[u].pc = "sent" /\ kind' = kind /\ entity' = entity
  BY DEF Answer, configVars
<1>2. PICK answer \in Answers(u), landed \in BOOLEAN :
        /\ IF Good(answer) THEN AfterGoodAnswer(u) ELSE AfterBadAnswer(u, answer)
        /\ MayLand(answer, landed)
        /\ IF landed THEN \E taken \in SUBSET unit[u] : Serve(u, Req(u).effect, taken)
           ELSE UNCHANGED serverVars
  BY DEF Answer
<1> DEFINE e == entity[u]
<1>3. e \in Rows
  BY DEF CreateInv
<1>4. /\ records' \in [Rows -> Nat]
      /\ \A f \in Rows : records'[f] # records[f] => f = e /\ landed
      /\ records'[e] = 2 => records[e] = 2 \/ (Req(u).effect = "create" /\ records[e] # 0)
      /\ records[e] = 0 /\ ~(landed /\ Req(u).effect = "create") => records'[e] = 0
  <2>1. CASE landed
    BY <1>2, <2>1, ServeRecords
  <2>2. CASE ~landed
    BY <1>2, <2>2 DEF serverVars, CreateInv
  <2> QED BY <2>1, <2>2
<1>5. CASE kind \notin SearchFirst
  BY <1>1, <1>4, <1>5 DEF CreateInv, NoSecondRecord
<1>6. CASE kind \in SearchFirst
  <2>1. /\ Req(u).effect = "create" => About(u)
        /\ w[u].stage = Len(Requests(u)) <=> Req(u).effect # "search"
    BY <1>1, <1>6, AtSearchRequest DEF MarkInv, Active, About
  <2>2. /\ \E x : w' = [w EXCEPT ![u] = x]
        /\ unsure \subseteq unsure' /\ raced \subseteq raced'
    BY <1>1, <1>2, <1>6, GoodCreates, BadCreates
  <2>3. \A f : Excused(f) => Excused(f)'
    BY <1>1, <2>2 DEF Excused
  <2>4. \A v \in Rows : v # u => (About(v)' <=> About(v))
    BY <2>2 DEF About, MarkInv, DeliveryShape
  (* A request for a record that may be one too many is excused.            *)
  <2>5. Req(u).effect = "create" => records[e] = 0 \/ Excused(e)
    BY <1>6, <2>1 DEF CreateInv
  <2>6. NoSecondRecord'
    <3> SUFFICES ASSUME NEW f \in Rows, records'[f] = 2 PROVE Excused(f)'
      BY DEF NoSecondRecord, Excused
    <3>1. CASE records[f] = 2
      BY <1>6, <2>3, <3>1 DEF CreateInv, NoSecondRecord, Excused
    <3>2. CASE records[f] # 2
      BY <1>4, <2>3, <2>5, <3>2
    <3> QED BY <3>1, <3>2
  (* A create that was applied is one other worker's only if both raced.    *)
  <2>7. ASSUME NEW v \in Rows, v # u, About(v), entity[v] = e, records'[e] # 0
        PROVE  Excused(e)'
    <3>1. CASE records[e] # 0
      BY <1>1, <1>6, <2>3, <2>7, <3>1 DEF CreateInv
    <3>2. CASE records[e] = 0
      <4>1. About(u)
        BY <1>4, <2>1, <2>7, <3>2
      <4> QED BY <1>1, <1>6, <2>3, <2>7, <4>1 DEF CreateInv
    <3> QED BY <3>1, <3>2
  <2>8. ASSUME About(u)'
        PROVE  /\ records'[e] = 0 \/ Excused(e)'
               /\ \A v \in Rows : v # u /\ About(v) /\ entity[v] = e => Excused(e)'
    <3>0. u \in unsure' \cup raced' => Excused(e)'
      BY <1>1 DEF Excused
    <3>1. CASE Good(answer)
      <4>1. AfterGoodAnswer(u)
        BY <1>2, <3>1
      <4>2. PICK x : w' = [w EXCEPT ![u] = x] /\ (x.pc \in Active => Req(u).effect = "search")
        BY <1>1, <1>6, <4>1, GoodCreates
      <4>3. Req(u).effect = "search"
        BY <2>8, <4>2 DEF About, MarkInv, DeliveryShape
      <4>4. \/ u \in unsure'
            \/ /\ records[e] = 0
               /\ (\E v \in Rows \ {u} : entity[v] = e /\ About(v)) => u \in raced'
        BY <1>1, <1>6, <2>8, <4>1, GoodCreates
      <4> QED BY <1>4, <3>0, <4>3, <4>4
    <3>2. CASE ~Good(answer)
      <4>1. About(u) /\ (Req(u).effect = "create" => u \in unsure' \/ Refused(answer))
        BY <1>1, <1>2, <2>8, <3>2, BadCreates
      <4>2. records[e] = 0 => records'[e] = 0 \/ u \in unsure'
        BY <1>2, <1>4, <4>1 DEF MayLand
      <4>3. records[e] = 0 \/ Excused(e)
        BY <1>6, <4>1 DEF CreateInv
      <4>4. \A v \in Rows : v # u /\ About(v) /\ entity[v] = e => Excused(e)
        BY <1>6, <4>1 DEF CreateInv
      <4> QED BY <1>1, <2>3, <3>0, <4>2, <4>3, <4>4
    <3> QED BY <3>1, <3>2
  <2>9. ASSUME NEW v \in Rows, About(v)' PROVE records'[entity[v]] = 0 \/ Excused(entity[v])'
    <3>1. CASE v = u
      BY <2>8, <2>9, <3>1
    <3>2. CASE v # u /\ entity[v] = e
      BY <1>1, <2>4, <2>7, <2>9, <3>2
    <3>3. CASE v # u /\ entity[v] # e
      <4>1. About(v) /\ entity[v] \in Rows
        BY <2>4, <2>9, <3>3 DEF CreateInv
      <4>2. records'[entity[v]] = records[entity[v]]
        BY <1>4, <3>3, <4>1
      <4> QED BY <1>1, <1>6, <2>3, <4>1, <4>2 DEF CreateInv
    <3> QED BY <3>1, <3>2, <3>3
  <2>10. ASSUME NEW v \in Rows, NEW x \in Rows, About(v)', About(x)', v # x, entity[v] = entity[x]
         PROVE  Excused(entity[v])'
    <3>1. CASE v = u \/ x = u
      BY <1>1, <2>4, <2>8, <2>10, <3>1
    <3>2. CASE v # u /\ x # u
      BY <1>1, <1>6, <2>3, <2>4, <2>10, <3>2 DEF CreateInv
    <3> QED BY <3>1, <3>2
  <2> QED BY <1>1, <1>4, <2>6, <2>9, <2>10 DEF CreateInv
<1> QED BY <1>5, <1>6

(* A worker that has not begun with its requests.                          *)
LEMMA BeginCreates ==
  ASSUME MarkInv, CreateInv, NEW u \in Rows, Start(u) \/ Resolve(u) PROVE CreateInv'
<1>1. UNCHANGED createFrame
  BY DEF Start, Resolve, configVars, serverVars, ghosts, createFrame
<1>2. CASE UNCHANGED w
  BY <1>1, <1>2, NoneMoreKeeps DEF About
<1>3. CASE \E x : w' = [w EXCEPT ![u] = x] /\ (x.pc \in Active => x.stage = 1)
  <2>1. \A v \in Rows : About(v)' => About(v)
    BY <1>3 DEF MarkInv, DeliveryShape, About
  <2> QED BY <1>1, <2>1, NoneMoreKeeps
<1>4. /\ Done(u).pc = "done" /\ AtRequest(1).stage = 1 /\ [Idle EXCEPT !.pc = "resolve"].pc = "resolve"
      /\ \A s : [Idle EXCEPT !.pc = "mark", !.stage = s, !.found = FALSE].pc = "mark"
  BY DoneShape, FirstShape DEF Idle
<1>5. CASE Start(u)
  <2>1. CASE ctxDone /\ "unit" \in Shape.ctx
    BY <1>2, <1>5, <2>1 DEF Start
  <2>2. CASE ~(ctxDone /\ "unit" \in Shape.ctx)
    <3>1. \E x \in {Done(u), AtRequest(1), [Idle EXCEPT !.pc = "resolve"]} : w' = [w EXCEPT ![u] = x]
      BY <1>5, <2>2 DEF Start
    <3> QED BY <1>3, <1>4, <3>1 DEF Active
  <2> QED BY <2>1, <2>2
<1>6. CASE Resolve(u)
  <2>1. \E x \in {Done(u), AtRequest(1),
                  [Idle EXCEPT !.pc = "mark", !.stage = w[u].stage, !.found = FALSE]} :
          w' = [w EXCEPT ![u] = x]
    BY <1>6 DEF Resolve, Settle, Finish, Resume
  <2> QED BY <1>3, <1>4, <2>1 DEF Active
<1> QED BY <1>5, <1>6

LEMMA LoadCreates ==
  ASSUME MarkInv, CreateInv, Call \/ Filter \/ Return PROVE CreateInv'
<1>1. UNCHANGED createFrame
  BY DEF Call, Filter, Return, configVars, serverVars, ghosts, createFrame
<1>2. CASE UNCHANGED w
  BY <1>1, <1>2, NoneMoreKeeps DEF About
<1>3. CASE \A r \in Rows : w'[r].pc \notin Active
  BY <1>1, <1>3, NoneMoreKeeps DEF About
<1>4. CASE Call
  <2>1. \A r \in Rows : w'[r] = Idle
    BY <1>4 DEF Call
  <2> QED BY <1>3, <2>1, IdleShape DEF Active
<1>5. ASSUME NEW rows, Queue(Units(rows)) PROVE CreateInv'
  <2>1. \A r \in Rows : w'[r] = Idle \/ w'[r] = [Idle EXCEPT !.pc = "queued"]
    BY <1>5 DEF Queue
  <2> QED BY <1>3, <2>1, IdleShape DEF Active, Idle
<1>6. CASE Filter
  BY <1>2, <1>5, <1>6 DEF Filter
<1>7. CASE Return
  BY <1>2, <1>7 DEF Return
<1> QED BY <1>4, <1>6, <1>7

LEMMA CreateNext == MarkInv /\ CreateInv /\ [Next]_vars => CreateInv'
<1> SUFFICES ASSUME MarkInv, CreateInv, [Next]_vars PROVE CreateInv' OBVIOUS
<1>1. ASSUME NEW u \in Rows, Work(u) \/ Deadline(u) PROVE CreateInv'
  BY <1>1, BeginCreates, AnswerCreates, WorkStays, StaysKeeps DEF Work
<1>2. CASE Call \/ Filter \/ Return
  BY <1>2, LoadCreates
<1>3. CASE Refill \/ Cooldown \/ TokenExpires \/ EndContext \/ UNCHANGED vars
  <2>1. UNCHANGED createFrame /\ w' = w
    BY <1>3 DEF Refill, Cooldown, TokenExpires, EndContext, envFrame, vars, configVars, loadVars, serverVars,
       ghosts, createFrame
  <2> QED BY <2>1, NoneMoreKeeps DEF About
<1> QED BY <1>1, <1>2, <1>3 DEF Next

(* A destination that looks for a record before it creates one (Intercom,    *)
(* Pipedrive, HubSpot) makes a second record of an entity only when an       *)
(* earlier create or search had no usable answer, or when two rows of one   *)
(* match value raced: over retries, later Loads, any number of workers and  *)
(* any way the rows share match values.                                     *)
THEOREM SecondRecordsExcused == Spec => []NoSecondRecord
<1>1. Init => MarkInv /\ CreateInv
  <2> SUFFICES ASSUME Init PROVE CreateInv
    BY MarkInit
  <2>1. \A r \in Rows : ~About(r)
    BY IdleShape DEF Init, About, Active
  <2>2. records \in [Rows -> Nat] /\ \A r \in Rows : records[r] # 2
    BY DEF Init
  <2>3. entity \in [Rows -> Rows]
    BY DeliveryAssumption DEF Init, Opt, Instances, Rows
  <2> QED BY <2>1, <2>2, <2>3 DEF CreateInv, NoSecondRecord
<1>2. MarkInv /\ CreateInv /\ [Next]_vars => (MarkInv /\ CreateInv)'
  BY MarkStep, CreateNext
<1>3. CreateInv => NoSecondRecord
  BY DEF CreateInv
<1> QED BY <1>1, <1>2, <1>3, PTL DEF Spec

------------------------------------------------------------------------------
\* Types, and how often a request is tried

(* The attempts a request may have; a worker waits for another one only     *)
(* while there is one left.                                                *)
MostAttempts == IF kind = "hubspot" THEN HubSpotAttempts ELSE Attempts
RetriesLeft(x) ==
  /\ x.check \in 0..5 /\ x.attempt <= MostAttempts
  /\ x.pc = "backoff" => x.attempt < MostAttempts

HelperTypes == breaker \in Breaker /\ tokens \in 0..Capacity /\ cachedToken \in BOOLEAN
ServerTypes == applied \subseteq Rows /\ rejected \subseteq Rows /\ records \in [Rows -> 0..2]
ResultTypes ==
  /\ phase \in {"idle", "filter", "send", "returned"} /\ fatal \in BOOLEAN
  /\ marked \subseteq Rows
BoundTypes ==
  /\ calls \in 0..Opt.calls /\ faults \in 0..Opt.faults
  /\ unsure \subseteq Rows /\ raced \subseteq Rows /\ dropped \in BOOLEAN

RestTypes ==
  /\ bare \subseteq Rows /\ deletes \subseteq Rows /\ entity \in [Rows -> Rows]
  /\ stored \subseteq Rows /\ missed \subseteq Rows
  /\ HelperTypes /\ ServerTypes /\ ResultTypes /\ BoundTypes
  /\ \A u \in Rows : RetriesLeft(w[u])

LEMMA TypesCombine == MarkInv /\ UnitInv /\ RestTypes => TypeOK
<1> SUFFICES ASSUME MarkInv, UnitInv, RestTypes PROVE TypeOK OBVIOUS
<1>1. ASSUME NEW u \in Rows PROVE w[u] \in Workers
  <2>1. w[u] \in WorkerShape /\ RetriesLeft(w[u])
    BY DEF MarkInv, DeliveryShape, RestTypes
  <2>2. MostAttempts \in Nat /\ MostAttempts <= Attempts + HubSpotAttempts
    BY HelpersAssumption, DestinationsAssumption DEF MostAttempts
  <2>3. w[u].attempt \in 0..(Attempts + HubSpotAttempts)
    BY <2>1, <2>2, HelpersAssumption, DestinationsAssumption DEF WorkerShape, RetriesLeft
  <2> HIDE DEF MostAttempts
  <2> QED BY <2>1, <2>3 DEF WorkerShape, Places, RetriesLeft, Workers
<1>2. w \in [Rows -> Workers]
  BY <1>1 DEF MarkInv, DeliveryShape
<1> QED BY <1>2 DEF TypeOK, MarkInv, DeliveryShape, UnitInv, RestTypes, HelperTypes, ServerTypes,
           ResultTypes, BoundTypes

(* The sizes the instance gives.                                           *)
LEMMA InstanceFacts ==
  DeliveryShape =>
    /\ Capacity \in Nat /\ Opt.calls \in Nat /\ Opt.faults \in Nat
    /\ Opt.bare \subseteq Rows /\ Opt.deletes \subseteq Rows
    /\ Opt.entities \subseteq [Rows -> Rows]
    /\ MostAttempts \in Nat \ {0}
<1> SUFFICES ASSUME DeliveryShape PROVE
    /\ Capacity \in Nat /\ Opt.calls \in Nat /\ Opt.faults \in Nat
    /\ Opt.bare \subseteq Rows /\ Opt.deletes \subseteq Rows
    /\ Opt.entities \subseteq [Rows -> Rows]
    /\ MostAttempts \in Nat \ {0}
  OBVIOUS
<1>1. Opt \in Instances
  BY DeliveryAssumption DEF DeliveryShape, Opt
<1>2. Opt.limit \in Nat /\ Opt.calls \in Nat /\ Opt.faults \in Nat
      /\ Opt.bare \subseteq Rows /\ Opt.deletes \subseteq Rows
      /\ Opt.entities \subseteq [Rows -> Rows]
  BY <1>1 DEF Instances, Rows
<1>3. Capacity \in Nat
  BY <1>2 DEF Capacity
<1> QED BY <1>2, <1>3, HelpersAssumption, DestinationsAssumption DEF MostAttempts

LEMMA InstanceStays ==
  kind' = kind => Capacity' = Capacity /\ Opt' = Opt /\ MostAttempts' = MostAttempts
BY DEF Capacity, Limited, Conn, Opt, MostAttempts

LEMMA BreakerTyped ==
  ASSUME NEW b \in Breaker
  PROVE  /\ NewCircuitBreaker \in Breaker /\ AfterAllow(b) \in Breaker
         /\ AfterSuccess(b) \in Breaker /\ AfterFailure(b) \in Breaker
<1>1. Threshold \in Nat \ {0} /\ 0 \in 0..Threshold /\ Threshold \in 0..Threshold
  BY HelpersAssumption
<1>2. NewCircuitBreaker \in Breaker
  BY <1>1 DEF NewCircuitBreaker, Breaker
<1>3. AfterAllow(b) \in Breaker
  <2> DEFINE f == IF b.state = "open" THEN 0 ELSE b.failures
  <2>1. f \in 0..Threshold
    BY <1>1 DEF Breaker
  <2>2. AfterAllow(b) = b \/ AfterAllow(b) = [b EXCEPT !.state = "halfOpen", !.probing = TRUE, !.failures = f]
    BY DEF AfterAllow, Breaker
  <2> HIDE DEF f
  <2> QED BY <2>1, <2>2 DEF Breaker
<1>4. \A x \in Breaker : ReleaseHalfOpen(x) \in Breaker
  BY DEF ReleaseHalfOpen, Breaker
<1>5. AfterSuccess(b) \in Breaker
  <2>1. [b EXCEPT !.state = "closed", !.failures = 0, !.cooled = FALSE] \in Breaker
    BY <1>1 DEF Breaker
  <2>2. [b EXCEPT !.failures = 0] \in Breaker
    BY <1>1 DEF Breaker
  <2> QED BY <1>4, <2>1, <2>2 DEF AfterSuccess
<1>6. AfterFailure(b) \in Breaker
  <2>1. [b EXCEPT !.state = "open", !.failures = Threshold, !.cooled = FALSE] \in Breaker
    BY <1>1 DEF Breaker
  <2>2. [b EXCEPT !.cooled = FALSE] \in Breaker
    BY DEF Breaker
  <2>3. CASE b.failures + 1 < Threshold
    <3>1. b.failures + 1 \in 0..Threshold
      BY <1>1, <2>3 DEF Breaker
    <3>2. \A k \in 0..Threshold : [b EXCEPT !.failures = k] \in Breaker
      BY DEF Breaker
    <3>3. [b EXCEPT !.failures = @ + 1] \in Breaker
      BY <3>1, <3>2 DEF Breaker
    <3>4. ~(b.failures + 1 >= Threshold)
      BY <1>1, <2>3 DEF Breaker
    <3> QED BY <1>4, <2>1, <2>2, <3>3, <3>4 DEF AfterFailure, Breaker
  <2>4. CASE ~(b.failures + 1 < Threshold)
    <3>1. b.failures + 1 >= Threshold
      BY <1>1, <2>4 DEF Breaker
    <3> QED BY <1>4, <2>1, <2>2, <3>1 DEF AfterFailure, Breaker
  <2> QED BY <2>3, <2>4
<1> QED BY <1>2, <1>3, <1>5, <1>6

(* No attempt makes more than four checks.                                 *)
LEMMA FewChecks ==
  ASSUME NEW k \in Kinds, NEW found \in BOOLEAN, NEW st \in BOOLEAN, NEW del \in BOOLEAN,
         NEW s \in 1..Len(RequestsOf(k, found, st, del))
  PROVE  Len(RequestsOf(k, found, st, del)[s].checks) \in 0..4
<1>1. /\ Len(BreakerThenLimiter) = 3 /\ Len(LimiterThenBreaker) = 3
      /\ Len(<<"ctx">> \o BreakerThenLimiter) = 4
      /\ Len(<<"limiter", "breaker">>) = 2 /\ Len(<<"limiter">>) = 1
      /\ Len(<<"ctx", "limiter", "auth">>) = 3 /\ Len(<<>>) = 0
  BY DEF BreakerThenLimiter, LimiterThenBreaker
<1> DEFINE Few(r) == Len(r.checks) \in 0..4
           all == RequestsOf(k, found, st, del)
<1>2. /\ Few(RestSend) /\ Few(ZendeskSend) /\ Few(KlaviyoSend) /\ Few(MixpanelSend)
      /\ Few(SlackPost) /\ Few(SheetsAppend) /\ Few(SalesforceUpsert)
      /\ Few(SalesforceCreateJob) /\ Few(SalesforceUpload) /\ Few(SalesforceCloseJob)
      /\ Few(SalesforcePoll) /\ Few(SalesforceResults) /\ Few(SalesforceFailures)
      /\ Few(IntercomSearch) /\ Few(IntercomWrite(found))
      /\ Few(PipedriveSearch) /\ Few(PipedriveWrite(found))
      /\ \A e : Few(HubSpotSend(e))
  BY <1>1 DEF Request, RestSend, ZendeskSend, KlaviyoSend, MixpanelSend, SlackPost, SheetsAppend,
     SalesforceUpsert, SalesforceCreateJob, SalesforceUpload, SalesforceCloseJob, SalesforcePoll,
     SalesforceResults, SalesforceFailures, IntercomSearch, IntercomWrite, PipedriveSearch, PipedriveWrite, HubSpotSend
<1> HIDE DEF Few
<1>3. CASE k \in BulkKinds
  <2>1. all = SalesforceBulk
    BY <1>3 DEF BulkKinds, RequestsOf
  <2> QED BY <1>2, <2>1 DEF SalesforceBulk, Few
<1>4. CASE k = "hubspot"
  <2>1. all = HubSpotDeliver(found, st, del)
    BY <1>4 DEF RequestsOf
  <2> QED BY <1>2, <2>1 DEF HubSpotDeliver, Few
<1>5. CASE k = "intercom"
  <2>1. all = <<IntercomSearch, IntercomWrite(found)>>
    BY <1>5 DEF RequestsOf, IntercomUpsert
  <2> QED BY <1>2, <2>1 DEF Few
<1>6. CASE k = "pipedrive"
  <2>1. all = <<PipedriveSearch, PipedriveWrite(found)>>
    BY <1>6 DEF RequestsOf, PipedriveUpsert
  <2> QED BY <1>2, <2>1 DEF Few
<1>7. CASE k \in {"restapi", "zendesk", "klaviyo", "mixpanel", "slack", "googlesheets", "salesforceRest"}
  <2>1. \E r : all = <<r>> /\ Few(r)
    BY <1>2, <1>7 DEF RequestsOf
  <2> QED BY <2>1 DEF Few
<1> QED BY <1>3, <1>4, <1>5, <1>6, <1>7 DEF Kinds, BulkKinds

LEMMA ChecksAtRequest ==
  ASSUME MarkInv, NEW u \in Rows, w[u].pc \in Active PROVE Len(Req(u).checks) \in 0..4
<1>1. w[u].stage \in 1..Len(Requests(u)) /\ w[u].found \in BOOLEAN
  BY DEF MarkInv, AtRequests, DeliveryShape, WorkerShape
<1> DEFINE st == Known(u)
           del == kind = "hubspot" /\ u \in deletes
<1>2. Requests(u) = RequestsOf(kind, w[u].found, st, del)
  BY DEF Requests
<1>3. st \in BOOLEAN /\ del \in BOOLEAN /\ kind \in Kinds
  BY KindKnown DEF MarkInv, Known
<1> HIDE DEF st, del
<1> QED BY <1>1, <1>2, <1>3, FewChecks DEF Req

(* The worker's next state has its retries left.                           *)
Retries(u) == \E x : w' = [w EXCEPT ![u] = x] /\ RetriesLeft(x)

LEMMA FreshRetries ==
  DeliveryShape =>
    /\ RetriesLeft(Idle) /\ RetriesLeft([Idle EXCEPT !.pc = "queued"])
    /\ RetriesLeft([Idle EXCEPT !.pc = "resolve"])
    /\ \A s, found : RetriesLeft([Idle EXCEPT !.pc = "mark", !.stage = s, !.found = found])
    /\ \A s : RetriesLeft(AtRequest(s))
    /\ \A u : RetriesLeft(Done(u))
BY InstanceFacts DEF RetriesLeft, Idle, AtRequest, Done

LEMMA EndRetries ==
  ASSUME MarkInv, NEW u \in Rows,
         (\E found : Finish(u, found)) \/ (\E how : Settle(u, how) \/ GiveUp(u, how))
  PROVE  Retries(u)
<1>1. ASSUME NEW found, Finish(u, found) PROVE Retries(u)
  BY <1>1, FreshRetries DEF Finish, Resume, Retries, MarkInv
<1>2. ASSUME NEW how, Settle(u, how) PROVE Retries(u)
  BY <1>2, FreshRetries DEF Settle, Retries, MarkInv
<1> QED BY <1>1, <1>2 DEF GiveUp

LEMMA AgainRetries ==
  ASSUME MarkInv, NEW u \in Rows, Again(u), w[u].attempt < MostAttempts PROVE Retries(u)
<1> DEFINE x == [w[u] EXCEPT !.pc = "check", !.check = 1, !.probe = FALSE, !.attempt = @ + 1]
<1>1. w' = [w EXCEPT ![u] = x]
  BY DEF Again, Resume
<1>2. w[u] \in WorkerShape /\ MostAttempts \in Nat
  BY InstanceFacts DEF MarkInv, DeliveryShape
<1>3. x.pc = "check" /\ x.check = 1 /\ x.attempt = w[u].attempt + 1
  BY <1>2 DEF WorkerShape
<1> HIDE DEF x
<1>4. w[u].attempt \in Nat
  BY <1>2 DEF WorkerShape
<1>5. x.attempt <= MostAttempts
  BY <1>2, <1>3, <1>4
<1>6. RetriesLeft(x)
  BY <1>3, <1>5 DEF RetriesLeft
<1> QED BY <1>1, <1>6 DEF Retries

LEMMA ToRequestRetries ==
  ASSUME MarkInv, NEW u \in Rows, NEW s, NEW found, ToRequest(u, s, found) PROVE Retries(u)
<1> DEFINE place == IF Requests(u)[s].effect = "poll" THEN "tick" ELSE "check"
           x == [AtRequest(s) EXCEPT !.found = found, !.late = w[u].late /\ s = w[u].stage,
                                     !.pc = place]
<1>1. w' = [w EXCEPT ![u] = x]
  BY DEF ToRequest, Resume
<1>2. x.pc = place /\ x.check = 1 /\ x.attempt = 1
  BY DEF AtRequest, Idle
<1>3. x.pc # "backoff"
  BY <1>2
<1> HIDE DEF x
<1>4. MostAttempts \in Nat \ {0}
  BY InstanceFacts DEF MarkInv
<1>5. RetriesLeft(x)
  BY <1>2, <1>3, <1>4 DEF RetriesLeft
<1> QED BY <1>1, <1>5 DEF Retries

(* A failed attempt is followed by another while there is one left.         *)
LEMMA AttemptRetries ==
  ASSUME MarkInv, NEW u \in Rows, RetriesLeft(w[u]), NEW answer, NEW found,
         EndAttempt(u, answer, found)
  PROVE  Retries(u)
<1> DEFINE next == AfterOf(answer, w[u].attempt)
<1>0. w[u] \in WorkerShape /\ MostAttempts \in Nat /\ w[u].attempt \in Nat
  BY InstanceFacts DEF MarkInv, DeliveryShape, WorkerShape
<1>1. next \in {"done", "again", "backoff", "failed", "fatal"}
  BY DEF AfterOf, AfterHubSpotAttempt, AfterOnlyAttempt, AfterAttempt
<1>2. next \in {"again", "backoff"} => w[u].attempt # MostAttempts
  BY DEF AfterOf, AfterHubSpotAttempt, AfterOnlyAttempt, AfterAttempt, MostAttempts
<1>3. next \in {"again", "backoff"} => w[u].attempt < MostAttempts
  BY <1>0, <1>2 DEF RetriesLeft
<1>4. CASE next = "done"
  BY <1>4, EndRetries, ToRequestRetries DEF EndAttempt, NextRequest
<1>5. CASE next = "again"
  BY <1>3, <1>5, AgainRetries DEF EndAttempt
<1>6. CASE next = "backoff"
  <2> DEFINE x == [w[u] EXCEPT !.pc = "backoff", !.probe = FALSE]
  <2>1. w' = [w EXCEPT ![u] = x]
    BY <1>6 DEF EndAttempt, Resume
  <2>2. x.check = w[u].check /\ x.attempt = w[u].attempt
    BY <1>0 DEF WorkerShape
  <2> HIDE DEF x
  <2> QED BY <1>3, <1>6, <2>1, <2>2 DEF Retries, RetriesLeft
<1>7. CASE next \in {"failed", "fatal"}
  BY <1>7, EndRetries DEF EndAttempt
<1> QED BY <1>1, <1>4, <1>5, <1>6, <1>7

LEMMA WorkRetries ==
  ASSUME MarkInv, NEW u \in Rows, RetriesLeft(w[u]),
         \/ CheckContext(u) \/ CheckBreaker(u) \/ CheckLimiter(u) \/ CheckAuth(u)
         \/ Send(u) \/ Answer(u) \/ Backoff(u) \/ Tick(u) \/ Deadline(u)
         \/ Resolve(u) \/ Mark(u)
  PROVE  Retries(u)
<1>1. w[u] \in WorkerShape
  BY DEF MarkInv, DeliveryShape
<1>2. CASE CheckContext(u) \/ CheckBreaker(u) \/ CheckLimiter(u) \/ CheckAuth(u)
  <2>1. /\ w[u].pc = "check" /\ w[u].check <= Len(Req(u).checks)
        /\ (\E probe : Pass(u, probe)) \/ (\E answer : Drop(u, answer))
    BY <1>2 DEF CheckContext, CheckBreaker, CheckLimiter, CheckAuth, Checking
  <2>2. ASSUME NEW probe, Pass(u, probe) PROVE Retries(u)
    <3> DEFINE x == [w[u] EXCEPT !.probe = probe, !.check = @ + 1,
                                 !.pc = IF LastCheck(u) THEN "sent" ELSE @]
    <3>1. w' = [w EXCEPT ![u] = x]
      BY <2>2 DEF Pass, Resume
    <3>2. x.check = w[u].check + 1 /\ x.attempt = w[u].attempt /\ x.pc # "backoff"
      BY <1>1, <2>1 DEF WorkerShape
    <3>3. Len(Req(u).checks) \in 0..4
      BY <2>1, ChecksAtRequest DEF Active
    <3>4. w[u].check + 1 \in 0..5
      <4> DEFINE l == Len(Req(u).checks)
      <4>1. w[u].check \in Nat
        BY <1>1 DEF WorkerShape
      <4>2. w[u].check <= l /\ l \in 0..4
        BY <2>1, <3>3
      <4> HIDE DEF l
      <4> QED BY <4>1, <4>2
    <3> HIDE DEF x
    <3> QED BY <3>1, <3>2, <3>4 DEF Retries, RetriesLeft
  <2>3. ASSUME NEW answer, Drop(u, answer) PROVE Retries(u)
    BY <2>3, AttemptRetries DEF Drop
  <2> QED BY <2>1, <2>2, <2>3
<1>3. ASSUME NEW place \in {"check", "sent"}, Resume(u, [w[u] EXCEPT !.pc = place]) PROVE Retries(u)
  <2>1. RetriesLeft([w[u] EXCEPT !.pc = place])
    BY <1>1 DEF WorkerShape, RetriesLeft
  <2> QED BY <1>3, <2>1 DEF Resume, Retries
<1>4. CASE Send(u)
  BY <1>3, <1>4 DEF Send
<1>5. CASE Answer(u)
  <2>1. \/ \E answer : AfterBadAnswer(u, answer)
        \/ AfterSearch(u) \/ AfterPoll(u) \/ (\E found : NextRequest(u, found))
    BY <1>5 DEF Answer, AfterGoodAnswer
  <2>2. \/ \E answer, found : EndAttempt(u, answer, found)
        \/ \E found : NextRequest(u, found)
        \/ \E s, found : ToRequest(u, s, found)
        \/ \E how : Settle(u, how)
    BY <2>1 DEF AfterBadAnswer, AfterSearch, AfterPoll
  <2> QED BY <2>2, AttemptRetries, EndRetries, ToRequestRetries DEF NextRequest
<1>6. CASE Backoff(u)
  <2>1. w[u].attempt < MostAttempts
    BY <1>6 DEF Backoff, RetriesLeft
  <2> QED BY <1>6, <2>1, AgainRetries, EndRetries DEF Backoff
<1>7. CASE Tick(u)
  BY <1>3, <1>7, EndRetries DEF Tick
<1>8. CASE Deadline(u)
  <2>1. RetriesLeft([w[u] EXCEPT !.late = TRUE])
    BY <1>1 DEF WorkerShape, RetriesLeft
  <2> QED BY <1>8, <2>1 DEF Deadline, Resume, Retries
<1>9. CASE Resolve(u)
  <2>1. (\E found : Finish(u, found)) \/ Settle(u, "rowErrors") \/ Resume(u, AtRequest(1))
    BY <1>9 DEF Resolve
  <2>2. CASE Resume(u, AtRequest(1))
    BY <2>2, FreshRetries DEF Resume, Retries, MarkInv
  <2> QED BY <2>1, <2>2, EndRetries
<1>10. CASE Mark(u)
  BY <1>10, FreshRetries DEF Mark, Retries, MarkInv
<1> QED BY <1>2, <1>4, <1>5, <1>6, <1>7, <1>8, <1>9, <1>10

(* The server takes the rows of the unit only.                             *)
LEMMA ServerTyped ==
  ASSUME DeliveryShape, ServerTypes, NEW u \in Rows, NEW effect, NEW taken \in SUBSET unit[u],
         Serve(u, effect, taken)
  PROVE  ServerTypes'
<1>1. unit[u] \subseteq Rows /\ BuildPayload(unit[u]) \subseteq Rows
  BY DEF DeliveryShape, BuildPayload
<1>2. applied' \subseteq Rows /\ rejected' \subseteq Rows
  <2>1. CASE effect \in {"post", "upsert", "update", "create", "archive"}
    BY <1>1, <2>1 DEF Serve, ServerTypes
  <2>2. CASE effect = "close"
    BY <1>1, <2>2 DEF Serve, ServerTypes
  <2>3. CASE effect \notin {"post", "upsert", "update", "create", "archive", "close"}
    <3>1. UNCHANGED serverVars
      BY <2>3 DEF Serve
    <3> QED BY <3>1 DEF ServerTypes, serverVars
  <2> QED BY <2>1, <2>2, <2>3
<1>3. records' = records \/ \E k \in 0..2 : records' = [records EXCEPT ![entity[u]] = k]
  <2>1. CASE effect = "create" \/ effect = "archive"
    BY <2>1 DEF Serve
  <2>2. CASE effect \notin {"create", "archive"}
    BY <2>2 DEF Serve, serverVars
  <2> QED BY <2>1, <2>2
<1> QED BY <1>2, <1>3 DEF ServerTypes

(* A step of a worker at work: what it does to the helpers, the server and   *)
(* the bounds.                                                             *)
LEMMA FaultTyped ==
  ASSUME DeliveryShape, BoundTypes, kind' = kind, Fault \/ NoFault PROVE faults' \in 0..Opt'.faults
BY InstanceFacts, InstanceStays DEF BoundTypes, Fault, NoFault

LEMMA CheckTypes ==
  ASSUME MarkInv, RestTypes, NEW u \in Rows,
         CheckContext(u) \/ CheckBreaker(u) \/ CheckLimiter(u) \/ CheckAuth(u)
  PROVE  HelperTypes' /\ ServerTypes' /\ BoundTypes'
<1>0. UNCHANGED checkFrame /\ kind' = kind /\ Capacity' = Capacity /\ Opt' = Opt
  BY InstanceStays DEF CheckContext, CheckBreaker, CheckLimiter, CheckAuth, checkFrame, configVars
<1>1. w[u].probe \in BOOLEAN /\ dropped \in BOOLEAN
  BY DEF MarkInv, DeliveryShape, WorkerShape, RestTypes, BoundTypes
<1>2. dropped' \in BOOLEAN
  BY <1>1 DEF CheckContext, CheckBreaker, CheckLimiter, CheckAuth, Drop
<1>3. faults' = faults \/ Fault \/ NoFault
  BY DEF CheckContext, CheckBreaker, CheckLimiter, CheckAuth
<1>4. BoundTypes'
  <2>1. faults' \in 0..Opt.faults
    BY <1>0, <1>3, FaultTyped DEF MarkInv, RestTypes, BoundTypes
  <2> QED BY <1>0, <1>2, <2>1 DEF RestTypes, BoundTypes, checkFrame
<1>5. ServerTypes'
  BY <1>0 DEF checkFrame, serverVars, RestTypes, ServerTypes
<1>6. breaker' \in Breaker
  BY BreakerTyped DEF CheckContext, CheckBreaker, CheckLimiter, CheckAuth, RestTypes, HelperTypes
<1>7. tokens' \in 0..Capacity
  <2>1. Capacity \in Nat
    BY InstanceFacts DEF MarkInv
  <2>2. tokens' = tokens \/ (tokens > 0 /\ tokens' = tokens - 1)
    BY DEF CheckContext, CheckBreaker, CheckLimiter, CheckAuth
  <2> QED BY <2>1, <2>2 DEF RestTypes, HelperTypes
<1>8. cachedToken' \in BOOLEAN
  <2>1. OAuth \in BOOLEAN
    <3>1. Opt \in Instances
      BY DeliveryAssumption DEF MarkInv, DeliveryShape, Opt
    <3> QED BY <3>1 DEF OAuth, Instances
  <2> QED BY <2>1 DEF CheckContext, CheckBreaker, CheckLimiter, CheckAuth, RestTypes, HelperTypes
<1>9. HelperTypes'
  BY <1>0, <1>6, <1>7, <1>8 DEF HelperTypes
<1> QED BY <1>4, <1>5, <1>9

LEMMA AnswerTypes ==
  ASSUME MarkInv, RestTypes, NEW u \in Rows, Answer(u)
  PROVE  HelperTypes' /\ ServerTypes' /\ BoundTypes'
<1>0. /\ UNCHANGED <<configVars, unit, calls, dropped, tokens, cachedToken>>
      /\ kind' = kind /\ Capacity' = Capacity /\ Opt' = Opt
  BY InstanceStays DEF Answer, configVars
<1>1. PICK answer \in Answers(u), landed \in BOOLEAN :
        /\ IF Good(answer) THEN AfterGoodAnswer(u) ELSE AfterBadAnswer(u, answer)
        /\ IF landed THEN \E taken \in SUBSET unit[u] : Serve(u, Req(u).effect, taken)
           ELSE UNCHANGED serverVars
        /\ Record(answer)
  BY DEF Answer
<1>2. HelperTypes'
  <2>1. breaker' \in Breaker
    BY <1>1, BreakerTyped DEF Record, RestTypes, HelperTypes
  <2> QED BY <1>0, <2>1 DEF RestTypes, HelperTypes
<1>3. ServerTypes'
  <2>1. CASE landed
    BY <1>1, <2>1, ServerTyped DEF MarkInv, RestTypes
  <2>2. CASE ~landed
    BY <1>1, <2>2 DEF serverVars, RestTypes, ServerTypes
  <2> QED BY <2>1, <2>2
<1>4. /\ Fault \/ NoFault
      /\ unsure' = unsure \/ unsure' = unsure \cup {u}
      /\ raced' = raced \/ raced' = raced \cup {u}
  <2>1. CASE AfterBadAnswer(u, answer)
    BY <2>1 DEF AfterBadAnswer
  <2>2. CASE AfterGoodAnswer(u) /\ Req(u).effect = "search"
    BY <2>2 DEF AfterGoodAnswer, AfterSearch
  <2>3. CASE AfterGoodAnswer(u) /\ Req(u).effect # "search"
    BY <2>3 DEF AfterGoodAnswer, AfterPoll
  <2> QED BY <1>1, <2>1, <2>2, <2>3
<1>5. faults' \in 0..Opt.faults
  BY <1>0, <1>4, FaultTyped DEF MarkInv, RestTypes
<1>6. unsure' \subseteq Rows /\ raced' \subseteq Rows
  BY <1>4 DEF RestTypes, BoundTypes
<1>7. BoundTypes'
  BY <1>0, <1>5, <1>6 DEF RestTypes, BoundTypes
<1> QED BY <1>2, <1>3, <1>7

(* Whatever leaves the helpers, the server and the bounds alone.            *)
LEMMA TypesStay ==
  ASSUME RestTypes, kind' = kind,
         UNCHANGED <<helperVars, serverVars, calls, ghosts>>, faults' \in 0..Opt'.faults
  PROVE  HelperTypes' /\ ServerTypes' /\ BoundTypes'
BY InstanceStays
   DEF helperVars, ghosts, serverVars, RestTypes, HelperTypes, ServerTypes, BoundTypes

LEMMA ActResults ==
  ASSUME ResultTypes, NEW u \in Rows, Goes(u) \/ Ends(u) PROVE ResultTypes'
<1>2. \/ UNCHANGED <<phase, fatal>>
      \/ phase' = "returned" /\ fatal' = TRUE
  BY DEF Goes, Ends, Counts, Abort
<1>3. marked' = marked
  BY DEF Goes, Ends, Counts
<1> QED BY <1>2, <1>3 DEF ResultTypes

LEMMA RetriesKept ==
  ASSUME MarkInv, RestTypes, kind' = kind, NEW u \in Rows, Retries(u)
  PROVE  \A v \in Rows : RetriesLeft(w[v])'
<1>1. PICK x : w' = [w EXCEPT ![u] = x] /\ RetriesLeft(x)
  BY DEF Retries
<1>2. MostAttempts' = MostAttempts
  BY InstanceStays
<1>3. \A v \in Rows : w'[v] = x \/ w'[v] = w[v]
  BY <1>1 DEF MarkInv, DeliveryShape
<1> QED BY <1>1, <1>2, <1>3 DEF RestTypes, RetriesLeft

(* A call of the state store, failed or not.                               *)
LEMMA StoreFaultTyped ==
  ASSUME DeliveryShape, BoundTypes, NEW rows, NEW failed \in StoreFailures(rows) \cup {{}},
         StoreFault(failed)
  PROVE  faults' \in 0..Opt.faults
<1>1. Opt.faults \in Nat /\ faults \in 0..Opt.faults
  BY InstanceFacts DEF BoundTypes
<1>2. faults' = faults \/ (faults' = faults + 1 /\ faults < Opt.faults)
  BY DEF StoreFault, StoreFailures
<1> QED BY <1>1, <1>2

LEMMA WorkTypes ==
  ASSUME MarkInv, RestTypes, NEW u \in Rows,
         \/ CheckContext(u) \/ CheckBreaker(u) \/ CheckLimiter(u) \/ CheckAuth(u)
         \/ Send(u) \/ Answer(u) \/ Backoff(u) \/ Tick(u) \/ Deadline(u)
         \/ Resolve(u) \/ Mark(u)
  PROVE  RestTypes'
<1>1. Retries(u)
  BY WorkRetries DEF RestTypes
<1>2. /\ UNCHANGED configVars /\ stored' = stored
      /\ missed' = missed \/ missed' = missed \cup {u} \/ missed' = missed \ {u}
  BY DEF CheckContext, CheckBreaker, CheckLimiter, CheckAuth, Send, Answer, Backoff, Tick, Deadline,
     Resolve, Mark, checkFrame
<1>3. HelperTypes' /\ ServerTypes' /\ BoundTypes'
  <2>1. CASE CheckContext(u) \/ CheckBreaker(u) \/ CheckLimiter(u) \/ CheckAuth(u)
    BY <2>1, CheckTypes
  <2>2. CASE Answer(u)
    BY <2>2, AnswerTypes
  <2>3. CASE Send(u) \/ Backoff(u) \/ Tick(u) \/ Deadline(u) \/ Resolve(u) \/ Mark(u)
    <3>1. UNCHANGED <<helperVars, serverVars, calls, ghosts>>
      BY <2>3 DEF Send, Backoff, Tick, Deadline, Resolve, Mark, checkFrame, helperVars, ghosts
    <3>2. kind' = kind /\ Opt' = Opt /\ BoundTypes
      BY <1>2, InstanceStays DEF configVars, RestTypes
    <3>3. faults' \in 0..Opt'.faults
      <4>1. CASE Send(u) \/ Backoff(u) \/ Tick(u) \/ Deadline(u) \/ Resolve(u)
        <5>1. Fault \/ NoFault
          BY <4>1 DEF Send, Backoff, Tick, Deadline, Resolve, NoFault
        <5> QED BY <3>2, <5>1, FaultTyped DEF MarkInv
      <4>2. CASE Mark(u)
        <5>1. PICK unmarked \in StoreFailures(unit[u]) : StoreFault(unmarked)
          BY <4>2 DEF Mark
        <5> QED BY <3>2, <5>1, StoreFaultTyped DEF MarkInv
      <4> QED BY <2>3, <4>1, <4>2
    <3> QED BY <3>1, <3>2, <3>3, TypesStay
  <2> QED BY <2>1, <2>2, <2>3
<1>4. ResultTypes'
  <2>1. CASE Deadline(u)
    BY <2>1 DEF Deadline, Resume, RestTypes, ResultTypes
  <2>2. CASE Mark(u)
    <3>1. unit[u] \subseteq Rows
      BY DEF MarkInv, DeliveryShape
    <3>2. marked' \subseteq marked \cup unit[u] /\ UNCHANGED <<phase, fatal>>
      BY <2>2 DEF Mark
    <3> QED BY <3>1, <3>2 DEF RestTypes, ResultTypes
  <2>3. CASE ~Deadline(u) /\ ~Mark(u)
    <3>1. Acts(u)
      BY <2>3, ChecksAct, AnswerActs, WaitsAct, ResolveActs
    <3> QED BY <3>1, ActResults DEF Acts, RestTypes
  <2> QED BY <2>1, <2>2, <2>3
<1>5. \A v \in Rows : RetriesLeft(w[v])'
  BY <1>1, <1>2, RetriesKept DEF configVars
<1> QED BY <1>2, <1>3, <1>4, <1>5 DEF RestTypes, configVars

(* Steps of Load itself.                                                   *)
loadFrame == <<configVars, stored, missed, helperVars, serverVars, calls, ghosts>>

LEMMA LoadStepTypes ==
  ASSUME MarkInv, RestTypes, UNCHANGED loadFrame,
         faults' \in 0..Opt.faults, ResultTypes',
         \A v \in Rows : w'[v] = w[v] \/ RetriesLeft(w'[v])
  PROVE  RestTypes'
<1>1. kind' = kind /\ Capacity' = Capacity /\ Opt' = Opt /\ MostAttempts' = MostAttempts
  BY InstanceStays DEF configVars, loadFrame
<1>2. HelperTypes' /\ ServerTypes' /\ BoundTypes'
  BY <1>1, TypesStay DEF loadFrame
<1>3. \A v \in Rows : RetriesLeft(w[v])'
  BY <1>1 DEF RestTypes, RetriesLeft
<1> QED BY <1>2, <1>3 DEF RestTypes, configVars, loadFrame

LEMMA StartTypes == ASSUME MarkInv, RestTypes, NEW u \in Rows, Start(u) PROVE RestTypes'
<1>0. /\ UNCHANGED loadFrame /\ marked' = marked
      /\ phase = "send" /\ ResultTypes /\ BoundTypes
  BY DEF Start, helperVars, loadFrame, RestTypes
<1>1. CASE ctxDone /\ "unit" \in Shape.ctx
  <2>1. Abort /\ NoFault /\ UNCHANGED w
    BY <1>1 DEF Start
  <2>2. ResultTypes' /\ faults' \in 0..Opt.faults
    BY <1>0, <2>1 DEF Abort, NoFault, ResultTypes, BoundTypes
  <2> QED BY <1>0, <2>1, <2>2, LoadStepTypes
<1>2. CASE ~(ctxDone /\ "unit" \in Shape.ctx)
  <2>1. PICK unread \in IF Shape.checked = "inTurn" THEN StoreFailures(unit[u]) ELSE {{}} :
          LET rows == IF Shape.checked = "inTurn" THEN ToSend(unit[u], unread) ELSE unit[u]
          IN /\ StoreFault(unread)
             /\ w' = [w EXCEPT ![u] = IF rows = {} THEN Done(u)
                                      ELSE IF kind = "hubspot" THEN [Idle EXCEPT !.pc = "resolve"]
                                      ELSE AtRequest(1)]
    BY <1>2 DEF Start
  <2>2. UNCHANGED <<phase, fatal>>
    BY <1>2 DEF Start
  <2>3. ResultTypes'
    BY <1>0, <2>2 DEF ResultTypes
  <2>4. faults' \in 0..Opt.faults
    BY <1>0, <2>1, StoreFaultTyped DEF MarkInv
  <2>5. PICK x \in {Done(u), AtRequest(1), [Idle EXCEPT !.pc = "resolve"]} : w' = [w EXCEPT ![u] = x]
    BY <2>1
  <2>6. RetriesLeft(x)
    BY <2>5, FreshRetries DEF MarkInv
  <2>7. \A v \in Rows : w'[v] = w[v] \/ RetriesLeft(w'[v])
    BY <2>5, <2>6 DEF MarkInv, DeliveryShape
  <2> QED BY <1>0, <2>3, <2>4, <2>7, LoadStepTypes
<1> QED BY <1>1, <1>2

LEMMA FilterTypes == ASSUME MarkInv, RestTypes, Filter PROVE RestTypes'
<1>0. /\ UNCHANGED loadFrame /\ marked' = marked
      /\ ResultTypes /\ BoundTypes
  BY DEF Filter, helperVars, loadFrame, RestTypes
<1>1. ResultTypes'
  BY <1>0 DEF Filter, ResultTypes
<1>2. CASE ctxDone /\ "pass" \in Shape.ctx
  <2>1. UNCHANGED <<w, faults>>
    BY <1>2 DEF Filter
  <2> QED BY <1>0, <1>1, <2>1, LoadStepTypes DEF BoundTypes
<1>3. CASE ~(ctxDone /\ "pass" \in Shape.ctx)
  <2>1. \/ NoFault /\ Queue(Units(1..n))
        \/ \E unread \in StoreFailures(1..n) : StoreFault(unread) /\ Queue(Units(ToSend(1..n, unread)))
    BY <1>3 DEF Filter
  <2>2. faults' \in 0..Opt.faults
    BY <1>0, <2>1, StoreFaultTyped DEF NoFault, BoundTypes, MarkInv
  <2>3. \A v \in Rows : w'[v] = Idle \/ w'[v] = [Idle EXCEPT !.pc = "queued"]
    BY <2>1 DEF Queue
  <2>4. \A v \in Rows : RetriesLeft(w'[v])
    BY <2>3, FreshRetries DEF MarkInv
  <2> QED BY <1>0, <1>1, <2>2, <2>4, LoadStepTypes
<1> QED BY <1>2, <1>3

LEMMA ReturnTypes == ASSUME MarkInv, RestTypes, Return PROVE RestTypes'
<1>1. /\ UNCHANGED loadFrame /\ UNCHANGED <<faults, marked, w>>
      /\ phase' = "returned" /\ fatal' \in BOOLEAN
  BY DEF Return, helperVars, loadFrame
<1>2. ResultTypes' /\ faults' \in 0..Opt.faults
  BY <1>1 DEF RestTypes, ResultTypes, BoundTypes
<1> QED BY <1>1, <1>2, LoadStepTypes

LEMMA CallTypes == ASSUME MarkInv, UnitInv, RestTypes, Call PROVE RestTypes'
<1>1. /\ UNCHANGED <<kind, entity, helperVars, records, faults, ghosts>>
      /\ calls < Opt.calls /\ calls' = calls + 1
      /\ fatal' = ctxDone /\ phase' \in {"returned", "filter"}
      /\ w' = [r \in Rows |-> Idle]
  BY DEF Call
<1>2. Opt.bare \subseteq Rows /\ Opt.deletes \subseteq Rows /\ Opt.calls \in Nat
  BY InstanceFacts DEF MarkInv
<1>3. /\ bare' \subseteq Rows /\ deletes' \subseteq Rows /\ marked' \subseteq Rows
      /\ missed' \subseteq Rows /\ applied' \subseteq Rows /\ rejected' \subseteq Rows
  <2>1. CASE UNCHANGED <<marked, missed, applied, rejected, bare, deletes>>
    BY <2>1 DEF RestTypes, ServerTypes, ResultTypes
  <2>2. CASE /\ marked' = {} /\ missed' = {} /\ applied' = {} /\ rejected' = {}
             /\ bare' \in SUBSET Opt.bare
             /\ deletes' \in (IF kind = "hubspot" THEN SUBSET Opt.deletes ELSE {{}})
    BY <1>2, <2>2
  <2> QED BY <2>1, <2>2 DEF Call
<1>4. stored' \subseteq Rows
  BY DEF Call, RestTypes
<1>5. Capacity' = Capacity /\ Opt' = Opt /\ MostAttempts' = MostAttempts
  BY <1>1, InstanceStays
<1>6. HelperTypes' /\ ServerTypes' /\ ResultTypes' /\ BoundTypes'
  BY <1>1, <1>2, <1>3, <1>5
     DEF helperVars, ghosts, RestTypes, HelperTypes, ServerTypes, ResultTypes, BoundTypes, UnitInv
<1>7. \A v \in Rows : RetriesLeft(w[v])'
  BY <1>1, <1>5, FreshRetries DEF MarkInv, RetriesLeft
<1> QED BY <1>1, <1>3, <1>4, <1>6, <1>7 DEF RestTypes

LEMMA OutsideTypes ==
  ASSUME MarkInv, RestTypes, Refill \/ Cooldown \/ TokenExpires \/ EndContext \/ UNCHANGED vars
  PROVE  RestTypes'
<1>1. UNCHANGED <<configVars, loadVars, serverVars, calls, faults, ghosts>>
  BY DEF Refill, Cooldown, TokenExpires, EndContext, envFrame, vars
<1>2. kind' = kind /\ Capacity' = Capacity /\ Opt' = Opt /\ MostAttempts' = MostAttempts
  BY <1>1, InstanceStays DEF configVars
<1>3. breaker' \in Breaker
  <2>1. [breaker EXCEPT !.cooled = TRUE] \in Breaker
    BY DEF RestTypes, HelperTypes, Breaker
  <2> QED BY <2>1 DEF Refill, Cooldown, TokenExpires, EndContext, vars, helperVars, RestTypes, HelperTypes
<1>4. tokens' \in 0..Capacity /\ cachedToken' \in BOOLEAN
  <2>1. Capacity \in Nat /\ tokens \in 0..Capacity /\ cachedToken \in BOOLEAN
    BY InstanceFacts DEF MarkInv, RestTypes, HelperTypes
  <2>2. /\ tokens' = tokens \/ (tokens < Capacity /\ tokens' = tokens + 1)
        /\ cachedToken' = cachedToken \/ cachedToken' = FALSE
    BY DEF Refill, Cooldown, TokenExpires, EndContext, vars, helperVars
  <2>3. tokens' \in 0..Capacity
    BY <2>1, <2>2
  <2>4. cachedToken' \in BOOLEAN
    BY <2>1, <2>2
  <2> QED BY <2>3, <2>4
<1>5. HelperTypes' /\ ServerTypes' /\ ResultTypes' /\ BoundTypes'
  BY <1>1, <1>2, <1>3, <1>4
     DEF loadVars, serverVars, ghosts, RestTypes, HelperTypes, ServerTypes, ResultTypes, BoundTypes
<1>6. \A v \in Rows : RetriesLeft(w[v])'
  BY <1>1, <1>2 DEF loadVars, RestTypes, RetriesLeft
<1> QED BY <1>1, <1>5, <1>6 DEF RestTypes, configVars, loadVars

LEMMA TypesInit == Init => RestTypes
<1> SUFFICES ASSUME Init PROVE RestTypes OBVIOUS
<1>1. MarkInv
  BY MarkInit
<1>2. Capacity \in Nat /\ Opt.calls \in Nat /\ Opt.faults \in Nat
  BY <1>1, InstanceFacts DEF MarkInv
<1>3. HelperTypes
  <2>1. breaker \in Breaker
    <3>1. 0 \in 0..Threshold
      BY HelpersAssumption
    <3> QED BY <3>1 DEF Init, NewCircuitBreaker, Breaker
  <2>2. tokens \in 0..Capacity
    BY <1>2 DEF Init
  <2> QED BY <2>1, <2>2 DEF Init, HelperTypes
<1>4. ServerTypes /\ ResultTypes /\ BoundTypes
  <2>1. records \in [Rows -> 0..2]
    BY DEF Init
  <2>2. calls \in 0..Opt.calls /\ faults \in 0..Opt.faults
    BY <1>2 DEF Init
  <2>3. /\ applied = {} /\ rejected = {} /\ marked = {} /\ unsure = {} /\ raced = {}
        /\ phase = "idle" /\ fatal = FALSE /\ dropped = FALSE
    BY DEF Init
  <2> QED BY <2>1, <2>2, <2>3 DEF ServerTypes, ResultTypes, BoundTypes
<1>5. \A v \in Rows : RetriesLeft(w[v])
  BY <1>1, FreshRetries DEF Init, MarkInv
<1>6. entity \in [Rows -> Rows]
  BY <1>1, InstanceFacts DEF Init, MarkInv
<1> QED BY <1>3, <1>4, <1>5, <1>6 DEF Init, RestTypes

LEMMA TypesNext == MarkInv /\ UnitInv /\ RestTypes /\ [Next]_vars => RestTypes'
<1> SUFFICES ASSUME MarkInv, UnitInv, RestTypes, [Next]_vars PROVE RestTypes' OBVIOUS
<1>1. ASSUME NEW u \in Rows, Work(u) \/ Deadline(u) PROVE RestTypes'
  BY <1>1, StartTypes, WorkTypes DEF Work
<1>2. CASE Call \/ Filter \/ Return
  BY <1>2, CallTypes, FilterTypes, ReturnTypes
<1>3. CASE Refill \/ Cooldown \/ TokenExpires \/ EndContext \/ UNCHANGED vars
  BY <1>3, OutsideTypes
<1> QED BY <1>1, <1>2, <1>3 DEF Next

(* Types of the API destinations: no request has more attempts than its     *)
(* retry loop allows, the breaker counts no more failures than its          *)
(* threshold and the limiter no more tokens than its bucket holds.          *)
THEOREM DeliveryTypeCorrect == Spec => []TypeOK
<1>1. Init => MarkInv /\ UnitInv /\ RestTypes
  BY MarkInit, UnitInit, TypesInit
<1>2. MarkInv /\ UnitInv /\ RestTypes /\ [Next]_vars => (MarkInv /\ UnitInv /\ RestTypes)'
  BY MarkStep, UnitNext, TypesNext
<1> QED BY <1>1, <1>2, TypesCombine, PTL DEF Spec
=============================================================================
