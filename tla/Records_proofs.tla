--------------------------- MODULE Records_proofs ---------------------------
(***************************************************************************)
(* What holds of the tables beside the moderation, whatever the rows,      *)
(* filters, pages, handlers, exports and notices: pages miss nothing, an   *)
(* appeal is the only active one of its user and clears what it was        *)
(* granted for, files and notices agree with their records, no count is    *)
(* lost, and an answer that the dashboard or the command puts together of  *)
(* several states of the tables still fits itself.  Each part has an       *)
(* invariant of its own, which the other parts leave alone.                *)
(***************************************************************************)
EXTENDS Records, FiniteSetTheorems, WellFoundedInduction, SequenceTheorems, TLAPS

-----------------------------------------------------------------------------
(* Sums over finite sets.  Induction over a finite set takes the predicate *)
(* as a set, from the well-founded order of its subsets.                   *)

\* Sums over finite sets: a table over the subsets of a set, in which each gives
\* away the element that CHOOSE names, as the fold of the community modules does.
Pick(s) == CHOOSE x \in s : TRUE
IsTable(g, F, D) == g = [s \in SUBSET D |-> IF s = {} THEN 0 ELSE F[Pick(s)] + g[s \ {Pick(s)}]]
Sum(F, D) == (CHOOSE g : IsTable(g, F, D))[D]

\* What a function cl puts into one class, and into some.
Class(R, cl, c) == {r \in R : cl[r] = c}
Classes(R, cl, C) == {r \in R : cl[r] \in C}

\* Induction over the subsets of a finite set, with a set for the predicate.
LEMMA SubsetInduction ==
  ASSUME NEW D, IsFiniteSet(D), NEW T,
         \A s \in SUBSET D : (\A x \in s : s \ {x} \in T) => s \in T
  PROVE  \A s \in SUBSET D : s \in T
  <1> DEFINE bad == {s \in SUBSET D : s \notin T}
  <1>1. IsWellFoundedOn(StrictSubsetOrdering(D), SUBSET D)
    BY FS_StrictSubsetOrderingWellFounded, FS_FiniteSubsetsOfFinite
  <1> SUFFICES ASSUME bad # {}
               PROVE  FALSE
    OBVIOUS
  <1>2. PICK s \in bad : \A t \in bad : <<t, s>> \notin StrictSubsetOrdering(D)
    BY <1>1, WFMin
  <1>3. ASSUME NEW x \in s PROVE s \ {x} \in T
    <2>1. s \ {x} \in SUBSET D /\ s \in SUBSET D /\ s \ {x} # s
      OBVIOUS
    <2>2. <<s \ {x}, s>> \in StrictSubsetOrdering(D)
      BY <2>1 DEF StrictSubsetOrdering
    <2>3. QED
      BY <1>2, <2>1, <2>2
  <1>4. QED
    BY <1>2, <1>3

\* The tables of two functions agree where the functions do.
LEMMA TablesAgree ==
  ASSUME NEW D, IsFiniteSet(D), NEW C, NEW F, NEW E, NEW g, NEW k,
         IsTable(g, F, D), IsTable(k, E, C),
         NEW S \in SUBSET (C \cap D), \A x \in S : F[x] = E[x]
  PROVE  g[S] = k[S]
  <1> DEFINE T == {s \in SUBSET S : g[s] = k[s]}
  <1>1. IsFiniteSet(S)
    BY FS_Subset
  <1>2. ASSUME NEW s \in SUBSET S, \A x \in s : s \ {x} \in T
        PROVE  s \in T
    <2>1. CASE s = {}
      BY <2>1 DEF IsTable
    <2>2. CASE s # {}
      <3>1. Pick(s) \in s
        BY <2>2 DEF Pick
      <3>2. s \ {Pick(s)} \in T
        BY <1>2, <3>1
      <3>3. g[s \ {Pick(s)}] = k[s \ {Pick(s)}] /\ F[Pick(s)] = E[Pick(s)]
        BY <3>1, <3>2
      <3>4. g[s] = F[Pick(s)] + g[s \ {Pick(s)}] /\ k[s] = E[Pick(s)] + k[s \ {Pick(s)}]
        BY <2>2 DEF IsTable
      <3>5. QED
        BY <3>3, <3>4
    <2>3. QED
      BY <2>1, <2>2
  <1> HIDE DEF T
  <1>3. \A s \in SUBSET S : s \in T
    BY <1>1, <1>2, SubsetInduction
  <1>4. QED
    BY <1>3 DEF T


\* A table holds those of the subsets.
LEMMA TableRestricts ==
  ASSUME NEW D, NEW F, NEW g, IsTable(g, F, D), NEW S \in SUBSET D
  PROVE  IsTable([s \in SUBSET S |-> g[s]], F, S)
  <1>1. \A s \in SUBSET S : s \ {Pick(s)} \in SUBSET S
    OBVIOUS
  <1>2. \A s \in SUBSET S : g[s] = IF s = {} THEN 0 ELSE F[Pick(s)] + g[s \ {Pick(s)}]
    BY DEF IsTable
  <1>3. QED
    BY <1>1, <1>2 DEF IsTable

\* A table holds the tables of the subsets, so the sum of a set that has one
\* takes out what Pick names.
LEMMA SumUnfolds ==
  ASSUME NEW D, IsFiniteSet(D), NEW F, NEW g, IsTable(g, F, D)
  PROVE  /\ D = {} => Sum(F, D) = 0
         /\ D # {} => Sum(F, D) = F[Pick(D)] + Sum(F, D \ {Pick(D)})
  <1>1. ASSUME NEW S \in SUBSET D PROVE Sum(F, S) = g[S]
    <2> DEFINE k == [s \in SUBSET S |-> g[s]]
    <2>1. IsTable(k, F, S)
      BY TableRestricts
    <2>2. IsTable(CHOOSE h : IsTable(h, F, S), F, S)
      BY <2>1
    <2>3. QED
      BY <2>2, TablesAgree, FS_Subset DEF Sum
  <1>2. D \ {Pick(D)} \in SUBSET D /\ D \in SUBSET D
    OBVIOUS
  <1>3. g[D] = IF D = {} THEN 0 ELSE F[Pick(D)] + g[D \ {Pick(D)}]
    BY DEF IsTable
  <1>4. QED
    BY <1>1, <1>2, <1>3

\* A finite set has a table.
LEMMA TableExists ==
  ASSUME NEW D, IsFiniteSet(D), NEW F
  PROVE  \E g : IsTable(g, F, D)
  <1> DEFINE T == {S \in SUBSET D : \E g : IsTable(g, F, S)}
  <1>1. ASSUME NEW S \in SUBSET D, \A x \in S : S \ {x} \in T
        PROVE  S \in T
    <2> DEFINE h == [s \in SUBSET S |-> IF s = {} THEN 0 ELSE F[Pick(s)] + Sum(F, s \ {Pick(s)})]
    <2>1. ASSUME NEW s \in SUBSET S, s # {}
          PROVE  h[s \ {Pick(s)}] = Sum(F, s \ {Pick(s)})
      <3> DEFINE t == s \ {Pick(s)}
      <3>1. Pick(s) \in s
        BY <2>1 DEF Pick
      <3>2. S \ {Pick(s)} \in T
        BY <1>1, <3>1
      <3>3. PICK g : IsTable(g, F, S \ {Pick(s)})
        BY <3>2
      <3>4. IsFiniteSet(t) /\ t \in SUBSET (S \ {Pick(s)}) /\ t \in SUBSET S
        BY FS_Subset
      <3> HIDE DEF t
      <3>4a. IsTable([u \in SUBSET t |-> g[u]], F, t)
        BY <3>3, <3>4, TableRestricts
      <3>5. PICK k : IsTable(k, F, t)
        BY <3>4a
      <3>6. /\ t = {} => Sum(F, t) = 0
            /\ t # {} => Sum(F, t) = F[Pick(t)] + Sum(F, t \ {Pick(t)})
        BY <3>4, <3>5, SumUnfolds
      <3>7. h[t] = Sum(F, t)
        BY <3>4, <3>6
      <3>8. QED
        BY <3>7 DEF t
    <2>2. IsTable(h, F, S)
      <3> HIDE DEF h
      <3>1. h = [s \in SUBSET S |-> IF s = {} THEN 0 ELSE F[Pick(s)] + h[s \ {Pick(s)}]]
        BY <2>1 DEF h
      <3>2. QED
        BY <3>1 DEF IsTable
    <2>3. QED
      BY <2>2
  <1> HIDE DEF T
  <1>2. \A S \in SUBSET D : S \in T
    BY <1>1, SubsetInduction
  <1>3. QED
    BY <1>2 DEF T

\* Sums by their tables, without one for every lemma below.
LEMMA SumTable ==
  ASSUME NEW D, IsFiniteSet(D), NEW F
  PROVE  /\ Sum(F, {}) = 0
         /\ D # {} => Sum(F, D) = F[Pick(D)] + Sum(F, D \ {Pick(D)})
         /\ \A g : IsTable(g, F, D) => g[D] = Sum(F, D)
  <1>1. D # {} => Sum(F, D) = F[Pick(D)] + Sum(F, D \ {Pick(D)})
    BY TableExists, SumUnfolds
  <1>2. Sum(F, {}) = 0
    BY TableExists, SumUnfolds, FS_EmptySet
  <1>3. IsTable(CHOOSE h : IsTable(h, F, D), F, D)
    BY TableExists
  <1>4. \A g : IsTable(g, F, D) => g[D] = Sum(F, D)
    BY <1>3, TablesAgree DEF Sum
  <1>5. QED
    BY <1>1, <1>2, <1>4

\* A sum of numbers is a number.
LEMMA SumType ==
  ASSUME NEW D, IsFiniteSet(D), NEW F, \A x \in D : F[x] \in Nat
  PROVE  Sum(F, D) \in Nat
  <1> DEFINE T == {s \in SUBSET D : Sum(F, s) \in Nat}
  <1>1. ASSUME NEW s \in SUBSET D, \A x \in s : s \ {x} \in T
        PROVE  s \in T
    <2>1. CASE s = {}
      <3>1. Sum(F, {}) = 0
        BY SumTable, FS_EmptySet
      <3>2. QED
        BY <2>1, <3>1
    <2>2. CASE s # {}
      <3>1. Pick(s) \in s /\ Sum(F, s) = F[Pick(s)] + Sum(F, s \ {Pick(s)})
        BY <2>2, SumTable, FS_Subset DEF Pick
      <3>2. QED
        BY <1>1, <3>1
    <2>3. QED
      BY <2>1, <2>2
  <1> HIDE DEF T
  <1>2. \A s \in SUBSET D : s \in T
    BY <1>1, SubsetInduction
  <1>3. QED
    BY <1>2 DEF T

\* Any summand may be taken out of a sum first.
LEMMA SumTakesOut ==
  ASSUME NEW D, IsFiniteSet(D), NEW F, \A x \in D : F[x] \in Nat, NEW y \in D
  PROVE  Sum(F, D) = F[y] + Sum(F, D \ {y})
  <1> DEFINE T == {s \in SUBSET D : \A x \in s : Sum(F, s) = F[x] + Sum(F, s \ {x})}
  <1>0. \A s \in SUBSET D : Sum(F, s) \in Nat
    BY SumType, FS_Subset
  <1>1. ASSUME NEW s \in SUBSET D, \A x \in s : s \ {x} \in T
        PROVE  s \in T
    <2> DEFINE p == Pick(s)
    <2>1. s # {} => p \in s /\ Sum(F, s) = F[p] + Sum(F, s \ {p})
      BY SumTable, FS_Subset DEF Pick
    <2> HIDE DEF p
    <2>2. ASSUME NEW x \in s, x # p
          PROVE  Sum(F, s) = F[x] + Sum(F, s \ {x})
      <3>1. p \in s /\ Sum(F, s) = F[p] + Sum(F, s \ {p})
        BY <2>1
      <3>2. Sum(F, s \ {p}) = F[x] + Sum(F, (s \ {p}) \ {x})
        BY <1>1, <2>2, <3>1
      <3>3. Sum(F, s \ {x}) = F[p] + Sum(F, (s \ {x}) \ {p})
        BY <1>1, <2>2, <3>1
      <3>4. (s \ {p}) \ {x} = (s \ {x}) \ {p} /\ (s \ {p}) \ {x} \in SUBSET D
        OBVIOUS
      <3>5. Sum(F, (s \ {p}) \ {x}) \in Nat /\ F[x] \in Nat /\ F[p] \in Nat
        BY <1>0, <3>1, <3>4
      <3> DEFINE i == F[x]
                 j == F[p]
                 k == Sum(F, (s \ {p}) \ {x})
      <3>6. i \in Nat /\ j \in Nat /\ k \in Nat /\ Sum(F, s) = j + (i + k) /\ Sum(F, s \ {x}) = j + k
        BY <3>1, <3>2, <3>3, <3>4, <3>5
      <3> HIDE DEF i, j, k
      <3>7. Sum(F, s) = i + Sum(F, s \ {x})
        BY <3>6
      <3>8. QED
        BY <3>7 DEF i
    <2>3. QED
      BY <2>1, <2>2
  <1> HIDE DEF T
  <1>2. \A s \in SUBSET D : s \in T
    BY <1>1, SubsetInduction
  <1>3. QED
    BY <1>2 DEF T

\* Functions that agree have the same sum.
LEMMA SumAgrees ==
  ASSUME NEW D, IsFiniteSet(D), NEW F, NEW E, \A x \in D : F[x] = E[x]
  PROVE  Sum(F, D) = Sum(E, D)
  <1>1. PICK g : IsTable(g, F, D)
    BY TableExists
  <1>2. PICK k : IsTable(k, E, D)
    BY TableExists
  <1>3. D \in SUBSET (D \cap D)
    OBVIOUS
  <1>4. g[D] = k[D]
    BY <1>1, <1>2, <1>3, TablesAgree
  <1>5. Sum(F, D) = g[D]
    BY <1>1, SumTable
  <1>6. Sum(E, D) = k[D]
    BY <1>2, SumTable
  <1>7. QED
    BY <1>4, <1>5, <1>6

\* A sum over two sets without common elements.
LEMMA SumSplits ==
  ASSUME NEW D, IsFiniteSet(D), NEW F, \A x \in D : F[x] \in Nat, NEW C \in SUBSET D
  PROVE  Sum(F, D) = Sum(F, C) + Sum(F, D \ C)
  <1> DEFINE T == {s \in SUBSET C : Sum(F, D) = Sum(F, s) + Sum(F, D \ s)}
  <1>0. \A s \in SUBSET D : Sum(F, s) \in Nat /\ IsFiniteSet(s)
    BY SumType, FS_Subset
  <1>1. ASSUME NEW s \in SUBSET C, \A x \in s : s \ {x} \in T
        PROVE  s \in T
    <2>1. CASE s = {}
      <3>1. Sum(F, {}) = 0 /\ D \ {} = D
        BY SumTable, FS_EmptySet
      <3>2. QED
        BY <1>0, <2>1, <3>1
    <2>2. CASE s # {}
      <3>1. PICK x : x \in s
        BY <2>2
      <3>2. Sum(F, D) = Sum(F, s \ {x}) + Sum(F, D \ (s \ {x}))
        BY <1>1, <3>1
      <3>3. Sum(F, s) = F[x] + Sum(F, s \ {x})
        BY <1>0, <3>1, SumTakesOut
      <3>4. Sum(F, D \ (s \ {x})) = F[x] + Sum(F, (D \ (s \ {x})) \ {x})
        <4>1. x \in D \ (s \ {x}) /\ D \ (s \ {x}) \in SUBSET D
          BY <3>1
        <4>2. QED
          BY <1>0, <4>1, SumTakesOut
      <3>5. (D \ (s \ {x})) \ {x} = D \ s
        BY <3>1
      <3>6. F[x] \in Nat /\ Sum(F, s \ {x}) \in Nat /\ Sum(F, D \ s) \in Nat
        BY <1>0, <3>1
      <3>7. Sum(F, D) = Sum(F, s) + Sum(F, D \ s)
        BY <3>2, <3>3, <3>4, <3>5, <3>6
      <3>8. QED
        BY <3>7
    <2>3. QED
      BY <2>1, <2>2
  <1> HIDE DEF T
  <1>2. \A s \in SUBSET C : s \in T
    BY <1>1, SubsetInduction, FS_Subset
  <1>3. QED
    BY <1>2 DEF T

\* Two sets without common elements are counted together.
LEMMA CountsOfParts ==
  ASSUME NEW A, IsFiniteSet(A), NEW B, IsFiniteSet(B), A \cap B = {}
  PROVE  /\ IsFiniteSet(A \cup B)
         /\ Cardinality(A \cup B) = Cardinality(A) + Cardinality(B)
         /\ Cardinality(A) \in Nat /\ Cardinality(B) \in Nat
  <1>1. Cardinality(A) \in Nat /\ Cardinality(B) \in Nat
    BY FS_CardinalityType
  <1>2. /\ IsFiniteSet(A \cup B)
        /\ Cardinality(A \cup B) = Cardinality(A) + Cardinality(B) - Cardinality(A \cap B)
    BY FS_Union
  <1>3. Cardinality(A \cap B) = 0
    BY FS_EmptySet
  <1>4. QED
    BY <1>1, <1>2, <1>3

\* What a function tells apart, counted class by class, is everything.
LEMMA SumOfClasses ==
  ASSUME NEW R, IsFiniteSet(R), NEW cl, NEW C, IsFiniteSet(C), NEW F,
         \A c \in C : F[c] = Cardinality(Class(R, cl, c))
  PROVE  Sum(F, C) = Cardinality(Classes(R, cl, C))
  <1> USE DEF Class, Classes
  <1> DEFINE T == {s \in SUBSET C : Sum(F, s) = Cardinality({r \in R : cl[r] \in s})}
  <1>1. ASSUME NEW s \in SUBSET C, \A x \in s : s \ {x} \in T
        PROVE  s \in T
    <2>1. CASE s = {}
      <3>1. Sum(F, {}) = 0 /\ Cardinality({}) = 0 /\ {r \in R : cl[r] \in {}} = {}
        BY SumTable, FS_EmptySet
      <3>2. QED
        BY <2>1, <3>1
    <2>2. CASE s # {}
      <3>1. PICK x : x \in s
        BY <2>2
      <3> DEFINE one == {r \in R : cl[r] = x}
                 rest == {r \in R : cl[r] \in s \ {x}}
                 all == {r \in R : cl[r] \in s}
      <3>2. one \cup rest = all /\ one \cap rest = {}
        BY <3>1
      <3>3. IsFiniteSet(one) /\ IsFiniteSet(rest) /\ IsFiniteSet(all)
        BY FS_Subset
      <3>4. Sum(F, s \ {x}) = Cardinality(rest) /\ F[x] = Cardinality(one)
        BY <1>1, <3>1
      <3>5. Sum(F, s) = F[x] + Sum(F, s \ {x})
        <4>1. ASSUME NEW c \in s PROVE F[c] \in Nat
          <5>1. IsFiniteSet({r \in R : cl[r] = c})
            BY FS_Subset
          <5>2. QED
            BY <5>1, FS_CardinalityType
        <4>2. QED
          BY <3>1, <4>1, FS_Subset, SumTakesOut
      <3> HIDE DEF one, rest, all
      <3>6. Cardinality(all) = Cardinality(one) + Cardinality(rest)
        BY <3>2, <3>3, CountsOfParts
      <3>7. QED
        BY <3>4, <3>5, <3>6 DEF all
    <2>3. QED
      BY <2>1, <2>2
  <1> HIDE DEF T
  <1>2. \A s \in SUBSET C : s \in T
    BY <1>1, SubsetInduction
  <1>3. QED
    BY <1>2 DEF T

\* What a function makes of a finite set is finite.
LEMMA ImageIsFinite ==
  ASSUME NEW R, IsFiniteSet(R), NEW cl
  PROVE  IsFiniteSet({cl[r] : r \in R})
  <1> DEFINE f == [r \in R |-> cl[r]]
             S == {cl[r] : r \in R}
  <1>1. f \in Surjection(R, S)
    BY DEF Surjection
  <1>2. QED
    BY <1>1, FS_Surjection

-----------------------------------------------------------------------------

USE LogAssumption

-----------------------------------------------------------------------------
(* Pages of violations.                                                    *)

\* How many rows stand before r in the listing of a filter.
Earlier(table, filter, r) == {s \in table : s.entry \in filter /\ Before(s, r)}
Rank(table, filter, r) == Cardinality(Earlier(table, filter, r))

\* Rows owed and not yet seen stand behind every page that was shown, and the
\* count is of the rows there are when it is used.
Ahead ==
    walk # NoWalk =>
        /\ walk.owed \subseteq Matching(walk.filter)
        /\ ~walk.raced =>
              /\ \A r \in walk.owed \ walk.seen :
                    Rank(rows, walk.filter, r) >= (IF walk.pc = "turn" THEN walk.page ELSE walk.page - 1) * PerPage
              /\ walk.pc = "rows" => walk.total = Cardinality(Matching(walk.filter))

PagesInv == LogTypeOK /\ IsFiniteSet(rows) /\ Ahead /\ PagesMissNothing

-----------------------------------------------------------------------------
(* Appeals.                                                                *)

\* Handlers and the table fit each other.
AppealTypes ==
    /\ appeals \in Seq(Appeal!AppealRow)
    /\ desk \in [Handlers -> {Appeal!Idle} \cup [pc : {"insert"}, user : Users]
                                \cup [pc : {"fetch", "clear"}, appeal : DOMAIN appeals]]

\* An appeal that is active and was not made so by a resolution.
Opened(i) == appeals[i].status = "pending" /\ ~appeals[i].reopened

\* Between its check and its insert a handler is the only one for its user, and
\* the user has opened no appeal, unless two of them overlapped.
InsertsAlone ==
    \A h \in Handlers : desk[h].pc = "insert" =>
        \/ desk[h].user \in overlapped
        \/ /\ \A i \in DOMAIN appeals : Opened(i) => appeals[i].user # desk[h].user
           /\ \A g \in Handlers \ {h} : desk[g].pc = "insert" => desk[g].user # desk[h].user

AppealInv == AppealTypes /\ InsertsAlone /\ Appeal!AppealsSettle

-----------------------------------------------------------------------------
(* Exports.                                                                *)

\* A record is of an export that is done; a clean-up deletes files of records
\* that had expired when it read the clock, and at its end no others.
SweepInv ==
    /\ clock \in Nat /\ job \in [Jobs -> Export!Steps] /\ files \subseteq Jobs
    /\ history \subseteq [file : Jobs, expires : Nat]
    /\ sweep \in {Export!Rest} \cup [pc : {"files"}, at : Nat, todo : SUBSET Jobs]
    /\ exportsBroken \in BOOLEAN
    /\ \A r \in history : job[r.file] = "done"
    /\ \A r, s \in history : r.file = s.file => r = s
    /\ \A x \in files : job[x] \in {"written", "done"}
    /\ \A x \in Jobs : job[x] = "written" => x \in files
    /\ sweep.pc = "files" =>
          /\ sweep.at <= clock
          /\ \A x \in sweep.todo : \E r \in history : r.file = x /\ r.expires < sweep.at
          /\ \A r \in history : r.expires < sweep.at =>
                r.file \in sweep.todo \/ r.file \notin files \/ exportsBroken

ExportInv == SweepInv /\ Export!FilesAreListed

-----------------------------------------------------------------------------
(* Notices.                                                                *)

\* Whoever tries the webhook has stored its notice.
NoticeInv ==
    /\ send = [n \in Sends |-> send[n]]
    /\ \A n \in Sends : send[n].pc = "webhook" => n \in notices
    /\ Notice!NoticesAreStored

\* What stands behind the pages before this one and is not on this one, stands
\* behind this one too.
LEMMA NextOffset ==
  ASSUME NEW n \in Nat, NEW page \in Nat \ {0}, NEW per \in Nat \ {0},
         n >= (page - 1) * per, n \div per # page - 1
  PROVE  n >= page * per
  <1> DEFINE q == n \div per
  <1>1. q \in Nat /\ per * q <= n /\ n < per * q + per
    OBVIOUS
  <1>2. CASE q <= page - 2
    <2>1. per * q <= per * (page - 2)
      BY <1>1, <1>2
    <2>2. QED
      BY <1>1, <2>1
  <1>3. CASE q >= page
    <2>1. per * q >= per * page
      BY <1>1, <1>3
    <2>2. QED
      BY <1>1, <2>1
  <1>4. QED
    BY <1>1, <1>2, <1>3

\* A filter's rows and those before one of them are finitely many, and no row is
\* before itself.
LEMMA RankBelow ==
  ASSUME LogTypeOK, IsFiniteSet(rows), NEW filter, NEW r \in Matching(filter)
  PROVE  /\ Rank(rows, filter, r) \in Nat /\ Cardinality(Matching(filter)) \in Nat
         /\ Rank(rows, filter, r) < Cardinality(Matching(filter))
  <1> DEFINE before == Earlier(rows, filter, r)
  <1>1. Matching(filter) \subseteq rows /\ before \subseteq Matching(filter)
    BY DEF Matching, Earlier
  <1>2. IsFiniteSet(Matching(filter)) /\ IsFiniteSet(before)
    BY <1>1, FS_Subset
  <1>3. r \in rows /\ r.at \in Nat /\ r.id \in Nat
    BY DEF Matching, LogTypeOK, Row
  <1>4. r \notin before
    BY <1>3 DEF Before, Earlier
  <1>5. before # Matching(filter)
    BY <1>4
  <1> HIDE DEF before
  <1>6. Cardinality(before) \in Nat /\ Cardinality(Matching(filter)) \in Nat
    BY <1>2, FS_CardinalityType
  <1>7. Cardinality(before) <= Cardinality(Matching(filter))
    BY <1>1, <1>2, FS_Subset
  <1>8. Cardinality(before) # Cardinality(Matching(filter))
    BY <1>1, <1>2, <1>5, FS_Subset
  <1>9. Cardinality(before) < Cardinality(Matching(filter))
    BY <1>6, <1>7, <1>8
  <1>10. QED
    BY <1>6, <1>9 DEF before, Rank

\* Rows that are added never take a row forward.
LEMMA RankGrows ==
  ASSUME NEW old, NEW new, IsFiniteSet(new), old \subseteq new, NEW filter, NEW r
  PROVE  /\ Rank(old, filter, r) \in Nat /\ Rank(new, filter, r) \in Nat
         /\ Rank(old, filter, r) <= Rank(new, filter, r)
  <1>1. Earlier(old, filter, r) \subseteq Earlier(new, filter, r) /\ Earlier(new, filter, r) \subseteq new
    BY DEF Earlier
  <1>2. IsFiniteSet(Earlier(new, filter, r)) /\ IsFiniteSet(Earlier(old, filter, r))
    BY <1>1, FS_Subset
  <1>3. QED
    BY <1>1, <1>2, FS_Subset, FS_CardinalityType DEF Rank

\* What the pages can meet in a step: a row recorded, a move of the reader, or
\* the clock of whichever part of the program is at work.
LogStep == LogNext \/ (clock' \in {clock, clock + 1} /\ UNCHANGED <<rows, walk>>)

LEMMA RecordKeepsPages ==
  ASSUME PagesInv, NEW entry \in Entries, Record(entry)
  PROVE  PagesInv'
  <1> USE DEF PagesInv
  <1> DEFINE new == [id |-> Cardinality(rows) + 1, entry |-> entry, at |-> clock]
  <1>1. Cardinality(rows) \in Nat
    BY FS_CardinalityType
  <1>2. new \in Row /\ rows' = rows \cup {new}
    BY <1>1 DEF Record, LogTypeOK, Row
  <1>3. IsFiniteSet(rows') /\ rows \subseteq rows' /\ rows' \subseteq Row
    BY <1>2, FS_AddElement DEF LogTypeOK
  <1>4. walk = NoWalk => walk' = NoWalk
    BY DEF Record, NoWalk
  <1>5. walk \in Walk => /\ walk' \in Walk /\ walk'.pc = walk.pc /\ walk'.filter = walk.filter
                         /\ walk'.page = walk.page /\ walk'.total = walk.total
                         /\ walk'.owed = walk.owed /\ walk'.seen = walk.seen
                         /\ (walk.raced \/ walk.pc = "rows" => walk'.raced)
    BY DEF Record, Walk
  <1>6. LogTypeOK'
    BY <1>3, <1>4, <1>5 DEF LogTypeOK, Record
  <1>7. CASE walk = NoWalk
    BY <1>3, <1>4, <1>6, <1>7 DEF Ahead, PagesMissNothing, NoWalk
  <1>8. CASE walk # NoWalk
    <2>1. walk \in Walk /\ walk' # NoWalk
      BY <1>8, <1>5 DEF LogTypeOK, Walk, NoWalk
    <2>2. walk'.owed \subseteq {r \in rows' : r.entry \in walk'.filter}
      BY <1>3, <1>5, <1>8, <2>1 DEF Ahead, Matching
    <2>3. ASSUME ~walk'.raced, NEW r \in walk'.owed \ walk'.seen
          PROVE  Rank(rows', walk'.filter, r)
                    >= (IF walk'.pc = "turn" THEN walk'.page ELSE walk'.page - 1) * PerPage
      <3>1. /\ Rank(rows, walk.filter, r) \in Nat /\ Rank(rows', walk.filter, r) \in Nat
            /\ Rank(rows, walk.filter, r) <= Rank(rows', walk.filter, r)
        BY <1>3, RankGrows
      <3>2. Rank(rows, walk.filter, r) >= (IF walk.pc = "turn" THEN walk.page ELSE walk.page - 1) * PerPage
        BY <1>5, <1>8, <2>1, <2>3 DEF Ahead, Walk
      <3>3. (IF walk.pc = "turn" THEN walk.page ELSE walk.page - 1) * PerPage \in Int
        BY <2>1 DEF Walk
      <3>4. /\ (IF walk'.pc = "turn" THEN walk'.page ELSE walk'.page - 1) * PerPage
               = (IF walk.pc = "turn" THEN walk.page ELSE walk.page - 1) * PerPage
            /\ walk'.filter = walk.filter
        BY <1>5, <2>1
      <3>5. QED
        BY <3>1, <3>2, <3>3, <3>4
    <2>4. ~walk'.raced => walk'.pc # "rows"
      BY <1>5, <2>1
    <2>5. Ahead'
      BY <2>2, <2>3, <2>4 DEF Ahead, Matching
    <2>6. PagesMissNothing'
      BY <1>5, <2>1 DEF PagesMissNothing, LastPage
    <2>7. QED
      BY <1>3, <1>6, <2>5, <2>6
  <1>9. QED
    BY <1>7, <1>8

LEMMA OpenKeepsPages ==
  ASSUME PagesInv, NEW filter \in Filters, OpenPage(filter)
  PROVE  PagesInv'
  <1> USE DEF PagesInv
  <1>1. /\ walk' = [pc |-> "count", filter |-> filter, page |-> 1, total |-> 0,
                    seen |-> {}, owed |-> Matching(filter), raced |-> FALSE]
        /\ rows' = rows /\ clock' = clock
    BY DEF OpenPage
  <1>2. Matching(filter) \subseteq rows
    BY DEF Matching
  <1>3. walk' \in Walk
    BY <1>1, <1>2 DEF Walk, LogTypeOK
  <1>4. \A r : Rank(rows, filter, r) \in Nat
    BY RankGrows
  <1>5. Ahead'
    BY <1>1, <1>4 DEF Ahead, Matching
  <1>6. QED
    BY <1>1, <1>3, <1>5 DEF LogTypeOK, PagesMissNothing

LEMMA CountKeepsPages ==
  ASSUME PagesInv, CountRows
  PROVE  PagesInv'
  <1> USE DEF PagesInv
  <1>0. walk.pc = "count" /\ rows' = rows /\ clock' = clock
    BY DEF CountRows
  <1>1. walk # NoWalk /\ walk \in Walk
    BY <1>0 DEF LogTypeOK, NoWalk
  <1>2. Cardinality(Matching(walk.filter)) \in Nat
    <2>1. Matching(walk.filter) \subseteq rows
      BY DEF Matching
    <2>2. QED
      BY <2>1, FS_Subset, FS_CardinalityType
  <1>3. /\ walk' \in Walk /\ walk'.pc = "rows" /\ walk'.total = Cardinality(Matching(walk.filter))
        /\ walk'.filter = walk.filter /\ walk'.page = walk.page /\ walk'.seen = walk.seen
        /\ walk'.owed = walk.owed /\ walk'.raced = walk.raced
    BY <1>1, <1>2 DEF CountRows, Walk
  <1>4. Ahead'
    BY <1>0, <1>1, <1>3 DEF Ahead, Matching
  <1>5. QED
    BY <1>0, <1>3, <1>4 DEF LogTypeOK, PagesMissNothing

LEMMA FetchKeepsPages ==
  ASSUME PagesInv, FetchRows
  PROVE  PagesInv'
  <1> USE DEF PagesInv
  <1>0. walk.pc = "rows" /\ rows' = rows /\ clock' = clock
    BY DEF FetchRows
  <1>1. walk # NoWalk /\ walk \in Walk
    BY <1>0 DEF LogTypeOK, NoWalk
  <1>2. Page(walk.filter, walk.page) \subseteq Row
    BY DEF Page, Matching, LogTypeOK
  <1>3. /\ walk' \in Walk /\ walk'.pc = "turn" /\ walk'.total = walk.total
        /\ walk'.filter = walk.filter /\ walk'.page = walk.page
        /\ walk'.seen = walk.seen \cup Page(walk.filter, walk.page)
        /\ walk'.owed = walk.owed /\ walk'.raced = walk.raced
    BY <1>1, <1>2 DEF FetchRows, Walk
  <1>4. ASSUME ~walk.raced, NEW r \in walk'.owed \ walk'.seen
        PROVE  Rank(rows, walk.filter, r) >= walk.page * PerPage
    <2>1. /\ r \in Matching(walk.filter) /\ r \notin Page(walk.filter, walk.page)
          /\ r \in walk.owed \ walk.seen
      BY <1>1, <1>3, <1>4 DEF Ahead
    <2>2. {s \in Matching(walk.filter) : Before(s, r)} = Earlier(rows, walk.filter, r)
      BY DEF Matching, Earlier
    <2>3. Rank(rows, walk.filter, r) \div PerPage # walk.page - 1
      BY <2>1, <2>2 DEF Page, Rank
    <2>4. Rank(rows, walk.filter, r) >= (walk.page - 1) * PerPage
      BY <1>0, <1>1, <1>4, <2>1 DEF Ahead
    <2>5. Rank(rows, walk.filter, r) \in Nat /\ walk.page \in Nat \ {0}
      BY <1>1, <2>1, RankBelow DEF Walk
    <2>6. QED
      BY <2>3, <2>4, <2>5, NextOffset
  <1>5. Ahead'
    BY <1>0, <1>1, <1>3, <1>4 DEF Ahead, Matching
  <1>6. PagesMissNothing'
    <2> SUFFICES ASSUME walk.page * PerPage >= walk.total, ~walk.raced, NEW r \in walk'.owed \ walk'.seen
                 PROVE  FALSE
      BY <1>3 DEF PagesMissNothing, LastPage
    <2>1. r \in Matching(walk.filter) /\ walk.total = Cardinality(Matching(walk.filter))
      BY <1>0, <1>1, <1>3 DEF Ahead
    <2>2. /\ Rank(rows, walk.filter, r) \in Nat /\ walk.total \in Nat
          /\ Rank(rows, walk.filter, r) < walk.total
      BY <2>1, RankBelow
    <2>3. walk.page * PerPage \in Nat
      BY <1>1 DEF Walk
    <2>4. QED
      BY <1>4, <2>2, <2>3
  <1>7. QED
    BY <1>0, <1>3, <1>5, <1>6 DEF LogTypeOK

LEMMA TurnKeepsPages ==
  ASSUME PagesInv, NextPage \/ ClosePage
  PROVE  PagesInv'
  <1> USE DEF PagesInv
  <1>0. walk.pc = "turn" /\ rows' = rows /\ clock' = clock
    BY DEF NextPage, ClosePage
  <1>1. walk # NoWalk /\ walk \in Walk
    BY <1>0 DEF LogTypeOK, NoWalk
  <1>2. CASE NextPage
    <2>0. walk.page + 1 \in Nat \ {0} /\ walk' = [walk EXCEPT !.pc = "count", !.page = walk.page + 1]
      BY <1>1, <1>2 DEF NextPage, Walk
    <2>1. /\ walk' \in Walk /\ walk'.pc = "count" /\ walk'.page = walk.page + 1
          /\ walk'.filter = walk.filter /\ walk'.seen = walk.seen
          /\ walk'.owed = walk.owed /\ walk'.raced = walk.raced
      BY <1>1, <2>0 DEF Walk
    <2>2. walk'.page - 1 = walk.page
      BY <1>1, <2>1 DEF Walk
    <2>3. Ahead'
      BY <1>0, <1>1, <2>1, <2>2 DEF Ahead, Matching
    <2>4. QED
      BY <1>0, <2>1, <2>3 DEF LogTypeOK, PagesMissNothing
  <1>3. CASE ClosePage
    BY <1>0, <1>3 DEF ClosePage, Ahead, LogTypeOK, PagesMissNothing, NoWalk
  <1>4. QED
    BY <1>2, <1>3

LEMMA PagesStep ==
  ASSUME PagesInv, [LogStep]_logVars
  PROVE  PagesInv'
  <1> DEFINE Still == clock' \in {clock, clock + 1} /\ UNCHANGED <<rows, walk>>
  <1>1. CASE Still
    BY <1>1 DEF PagesInv, LogTypeOK, Ahead, Matching, PagesMissNothing, LastPage
  <1>2. Tick \/ UNCHANGED logVars => Still
    BY DEF Tick, logVars
  <1>3. QED
    BY <1>1, <1>2, RecordKeepsPages, OpenKeepsPages, CountKeepsPages, FetchKeepsPages, TurnKeepsPages
       DEF LogStep, LogNext

\* What puts an answer together reads the tables and writes none.
Answering ==
    \/ GetTopOffenders \/ GetHealth \/ (\E name \in Periods : GetMetrics(name) \/ HandleDashboard(name))
    \/ AnswerStep

LEMMA AnswersReadOnly ==
  Answering => UNCHANGED <<logVars, metricVars, warned>>
  BY DEF Answering, GetTopOffenders, GetHealth, GetMetrics, HandleDashboard, Measure, AnswerStep, SelectList,
         SelectChart, CountModerated, CountSeen, ReadCounters, ReadHours, ReadRows, SelectSeries, SelectBars,
         StartPrevious, CountActions, CloseAnswer, Read

\* Every part of the program leaves the violations alone, or records them and
\* turns the pages as module ViolationLog has it.
LEMMA RecordsStepIsLogStep == ASSUME [RecordsNext]_recordVars PROVE [LogStep]_logVars
  <1> USE DEF LogStep, logVars
  <1>1. CASE Pages
    BY <1>1 DEF Pages
  <1>2. CASE Tables \/ Collector
    <2>1. Meanwhile => LogNext
      BY DEF Meanwhile, LogNext
    <2>2. Tables \/ Collector => Meanwhile \/ UNCHANGED logVars
      BY AnswersReadOnly DEF Answering, Tables, Collector, RecordMessage, Count, WarningsChange, MetricsStep
    <2>3. QED
      BY <1>2, <2>1, <2>2
  <1>3. CASE scene = "appeals" /\ UNCHANGED logVars
    BY <1>3
  <1>4. CASE Export!Next /\ UNCHANGED <<rows, walk>>
    BY <1>4 DEF Export!Next, Export!Gather, Export!WriteFile, Export!RecordExport, Export!RemoveFile,
                Export!SelectExpired, Export!DeleteRecords, Export!Tick
  <1>5. CASE Notice!Next /\ UNCHANGED <<rows, walk>>
    BY <1>5 DEF Notice!Next, Notice!GetPreferences, Notice!SendInApp, Notice!SendDiscordWebhook,
                Notice!MarkAsRead, Notice!MarkAsUnread, Notice!UpdatePreferences, Notice!Tick
  <1>6. CASE UNCHANGED recordVars
    BY <1>6 DEF recordVars, reportVars
  <1>7. QED
    BY <1>1, <1>2, <1>3, <1>4, <1>5, <1>6 DEF RecordsNext

\* At first there are no rows and no reader.
LEMMA PagesBegin == RecordsInit => PagesInv
  BY FS_EmptySet DEF RecordsInit, ReportsInit, LogInit, PagesInv, LogTypeOK, Ahead, PagesMissNothing, NoWalk

\* Whatever rows come in while the pages are turned and whatever the length of
\* a page, the last page completes what was there at the first, unless a row
\* came in between the two statements of one page.
THEOREM PagesMissNothingEver == RecordsSpec => []PagesMissNothing
  <1>1. RecordsInit => PagesInv
    BY PagesBegin
  <1>2. PagesInv /\ [RecordsNext]_recordVars => PagesInv'
    BY RecordsStepIsLogStep, PagesStep
  <1>3. PagesInv => PagesMissNothing
    BY DEF PagesInv
  <1>4. QED
    BY <1>1, <1>2, <1>3, PTL DEF RecordsSpec

-----------------------------------------------------------------------------
(* Appeals are single and settle.                                          *)

appealState == <<appeals, desk, overlapped>>

\* A step of a handler goes on with that handler alone.
LEMMA DeskAfter ==
  ASSUME AppealTypes, NEW h \in Handlers, NEW step,
         Appeal!Goto(h, step)
  PROVE  desk'[h] = step /\ \A g \in Handlers \ {h} : desk'[g] = desk[g]
  BY DEF AppealTypes, Appeal!Goto

\* The handler that is about to insert has checked: it is alone, or overlapped.
LEMMA CreateKeepsAppeals ==
  ASSUME AppealInv, NEW h \in Handlers, NEW u \in Users, Appeal!CreateAppeal(h, u)
  PROVE  AppealInv'
  <1> USE DEF AppealInv
  <1>1. /\ desk[h] = Appeal!Idle /\ ~Appeal!HasActiveAppeal(u)
        /\ desk'[h] = [pc |-> "insert", user |-> u]
        /\ \A g \in Handlers \ {h} : desk'[g] = desk[g]
        /\ appeals' = appeals
    BY DeskAfter DEF Appeal!CreateAppeal
  <1>2. overlapped \subseteq overlapped'
    BY DEF Appeal!CreateAppeal
  <1>3. AppealTypes'
    BY <1>1 DEF AppealTypes, Appeal!CreateAppeal, Appeal!Goto
  <1>4. (\E g \in Handlers \ {h} : desk[g].pc = "insert" /\ desk[g].user = u) => u \in overlapped'
    <2> SUFFICES ASSUME NEW g \in Handlers \ {h}, desk[g].pc = "insert", desk[g].user = u
                 PROVE  u \in overlapped'
      OBVIOUS
    <2>1. desk[g] = [pc |-> "insert", user |-> u]
      BY DEF AppealTypes, Appeal!Idle
    <2>2. QED
      BY <2>1 DEF Appeal!CreateAppeal
  <1>5. InsertsAlone'
    <2> SUFFICES ASSUME NEW k \in Handlers, desk'[k].pc = "insert", desk'[k].user \notin overlapped'
                 PROVE  /\ \A i \in DOMAIN appeals : Opened(i) => appeals[i].user # desk'[k].user
                        /\ \A g \in Handlers \ {k} : desk'[g].pc = "insert" => desk'[g].user # desk'[k].user
      BY <1>1 DEF InsertsAlone, Opened
    <2>1. CASE k = h
      BY <1>1, <1>4, <2>1 DEF Appeal!HasActiveAppeal, Opened
    <2>2. CASE k # h
      BY <1>1, <1>2, <1>4, <2>2 DEF InsertsAlone, Opened
    <2>3. QED
      BY <2>1, <2>2
  <1>6. Appeal!AppealsSettle'
    BY <1>1, <1>2 DEF Appeal!AppealsSettle, Appeal!PendingAppeals, Appeal!Idle
  <1>7. QED
    BY <1>3, <1>5, <1>6

\* An insert adds the one active appeal of its user, unless calls overlapped.
LEMMA InsertKeepsAppeals ==
  ASSUME AppealInv, NEW h \in Handlers, Appeal!InsertAppeal(h)
  PROVE  AppealInv'
  <1> USE DEF AppealInv
  <1> DEFINE u == desk[h].user
             new == [user |-> u, status |-> "pending", reopened |-> FALSE, cleared |-> FALSE, failed |-> FALSE]
             n == Len(appeals)
  <1>1. /\ desk[h].pc = "insert" /\ desk'[h] = Appeal!Idle
        /\ \A g \in Handlers \ {h} : desk'[g] = desk[g]
        /\ overlapped' = overlapped
    BY DeskAfter DEF Appeal!InsertAppeal, Appeal!Fail
  <1>2. u \in Users /\ desk[h] = [pc |-> "insert", user |-> u]
    BY <1>1 DEF AppealTypes, Appeal!Idle
  <1>3. CASE UNCHANGED appeals
    <2>1. AppealTypes'
      BY <1>3 DEF AppealTypes, Appeal!InsertAppeal, Appeal!Fail, Appeal!Goto
    <2>2. InsertsAlone'
      BY <1>1, <1>3 DEF InsertsAlone, Opened, Appeal!Idle
    <2>3. Appeal!AppealsSettle'
      BY <1>1, <1>3 DEF Appeal!AppealsSettle, Appeal!PendingAppeals, Appeal!Idle
    <2>4. QED
      BY <2>1, <2>2, <2>3
  <1>4. CASE appeals' = Append(appeals, new)
    <2>1. new \in Appeal!AppealRow
      BY <1>2 DEF Appeal!Statuses, Appeal!AppealRow
    <2>2. /\ appeals' \in Seq(Appeal!AppealRow)
          /\ n \in Nat /\ DOMAIN appeals = 1..n /\ DOMAIN appeals' = 1..(n + 1)
          /\ appeals'[n + 1] = new /\ \A i \in 1..n : appeals'[i] = appeals[i]
      BY <1>4, <2>1 DEF AppealTypes
    <2>3. DOMAIN appeals \subseteq DOMAIN appeals' /\ DOMAIN appeals' = DOMAIN appeals \cup {n + 1}
      BY <2>2
    <2> HIDE DEF n, new
    <2>4. AppealTypes'
      BY <2>2, <2>3 DEF AppealTypes, Appeal!InsertAppeal, Appeal!Fail, Appeal!Goto
    <2>5. new.user = u /\ new.status = "pending" /\ new.reopened = FALSE
      BY DEF new
    <2>6. InsertsAlone'
      <3> SUFFICES ASSUME NEW k \in Handlers, desk'[k].pc = "insert", desk'[k].user \notin overlapped
                   PROVE  /\ \A i \in DOMAIN appeals' : Opened(i)' => appeals'[i].user # desk'[k].user
                          /\ \A g \in Handlers \ {k} : desk'[g].pc = "insert" => desk'[g].user # desk'[k].user
        BY <1>1 DEF InsertsAlone, Opened
      <3>1. k # h /\ desk[k] = desk'[k]
        BY <1>1 DEF Appeal!Idle
      <3>2. desk[k].user # u
        BY <1>1, <3>1 DEF InsertsAlone
      <3>3. QED
        BY <1>1, <2>2, <2>3, <2>5, <3>1, <3>2 DEF InsertsAlone, Opened, Appeal!Idle
    <2>7. u \in overlapped \/ \A i \in DOMAIN appeals : Opened(i) => appeals[i].user # u
      BY <1>1 DEF InsertsAlone
    <2>8. Appeal!AppealsSettle'
      <3>1. ASSUME NEW i \in DOMAIN appeals', NEW j \in DOMAIN appeals', i # j,
                   appeals'[i].status = "pending", appeals'[j].status = "pending", appeals'[i].user = appeals'[j].user
            PROVE  appeals'[i].reopened \/ appeals'[j].reopened \/ appeals'[i].user \in overlapped
        BY <2>2, <2>3, <2>5, <2>7, <3>1 DEF Opened, Appeal!AppealsSettle, Appeal!PendingAppeals
      <3>2. ASSUME NEW i \in DOMAIN appeals', appeals'[i].status = "approved"
            PROVE  \/ appeals'[i].cleared \/ appeals'[i].failed
                   \/ \E g \in Handlers : desk'[g].pc \in {"fetch", "clear"} /\ desk'[g].appeal = i
        <4>1. i \in DOMAIN appeals /\ appeals[i] = appeals'[i]
          BY <2>2, <2>3, <2>5, <3>2
        <4>2. QED
          BY <1>1, <3>2, <4>1 DEF Appeal!AppealsSettle
      <3>3. QED
        BY <1>1, <3>1, <3>2 DEF Appeal!AppealsSettle, Appeal!PendingAppeals
    <2>9. QED
      BY <2>4, <2>6, <2>8
  <1>5. QED
    BY <1>3, <1>4 DEF Appeal!InsertAppeal

\* The rows of the table are records.
LEMMA AppealAt ==
  ASSUME AppealTypes, NEW i \in DOMAIN appeals
  PROVE  /\ appeals[i] \in Appeal!AppealRow
         /\ appeals = [k \in DOMAIN appeals |-> appeals[k]]
  <1>1. DOMAIN appeals = 1..Len(appeals)
    BY DEF AppealTypes
  <1>2. appeals = [k \in DOMAIN appeals |-> appeals[k]]
    BY <1>1, SeqDef DEF AppealTypes
  <1>3. QED
    BY <1>1, <1>2, ElementOfSeq DEF AppealTypes

\* A statement on one appeal leaves the others alone.
LEMMA AppealAfter ==
  ASSUME AppealTypes, NEW i \in DOMAIN appeals,
         NEW new \in Appeal!AppealRow,
         NEW after, after = [appeals EXCEPT ![i] = new]
  PROVE  /\ after \in Seq(Appeal!AppealRow)
         /\ DOMAIN after = DOMAIN appeals /\ after[i] = new
         /\ \A j \in DOMAIN appeals \ {i} : after[j] = appeals[j]
  <1> DEFINE Rows == Appeal!AppealRow
  <1>1. appeals \in Seq(Rows) /\ DOMAIN appeals = 1..Len(appeals)
    BY DEF AppealTypes
  <1> HIDE DEF Rows
  <1>2. after \in Seq(Rows) /\ DOMAIN after = DOMAIN appeals
    BY <1>1, ExceptSeq DEF Rows
  <1>3. QED
    BY <1>2 DEF Rows

\* A resolution leaves no appeal as it was opened, and goes on if it approves.
LEMMA ResolveKeepsAppeals ==
  ASSUME AppealInv, NEW h \in Handlers, NEW i \in DOMAIN appeals, NEW status \in Appeal!Statuses,
         Appeal!ResolveAppeal(h, i, status)
  PROVE  AppealInv'
  <1> USE DEF AppealInv
  <1>1. /\ desk[h] = Appeal!Idle
        /\ desk'[h] = (IF status = "approved" THEN [pc |-> "fetch", appeal |-> i] ELSE Appeal!Idle)
        /\ \A g \in Handlers \ {h} : desk'[g] = desk[g]
        /\ overlapped' = overlapped
    BY DeskAfter DEF Appeal!ResolveAppeal
  <1>2. /\ appeals' \in Seq(Appeal!AppealRow)
        /\ DOMAIN appeals' = DOMAIN appeals
        /\ appeals'[i].status = status /\ appeals'[i].user = appeals[i].user
        /\ status = "pending" => appeals'[i].reopened
        /\ \A j \in DOMAIN appeals \ {i} : appeals'[j] = appeals[j]
    <2> DEFINE new == Appeal!Resolved(appeals[i], status)
    <2>1. appeals[i] \in Appeal!AppealRow
      BY AppealAt
    <2>2. new \in Appeal!AppealRow
      BY <2>1 DEF Appeal!Resolved, Appeal!AppealRow
    <2>3. new.status = status /\ new.user = appeals[i].user /\ (status = "pending" => new.reopened)
      BY <2>1 DEF Appeal!Resolved, Appeal!AppealRow
    <2>4. appeals' = [appeals EXCEPT ![i] = new]
      BY AppealAt DEF Appeal!ResolveAppeal
    <2> HIDE DEF new
    <2>5. QED
      BY <2>2, <2>3, <2>4, AppealAfter
  <1>3. AppealTypes'
    BY <1>2 DEF AppealTypes, Appeal!ResolveAppeal, Appeal!Goto
  <1>4. InsertsAlone'
    BY <1>1, <1>2 DEF InsertsAlone, Opened, Appeal!Idle
  <1>5. Appeal!AppealsSettle'
    <2>1. \A j, k \in DOMAIN appeals' :
             j # k /\ appeals'[j].status = "pending" /\ appeals'[k].status = "pending"
               /\ appeals'[j].user = appeals'[k].user =>
             appeals'[j].reopened \/ appeals'[k].reopened \/ appeals'[j].user \in overlapped
      BY <1>2 DEF Appeal!AppealsSettle, Appeal!PendingAppeals
    <2>2. ASSUME NEW j \in DOMAIN appeals', appeals'[j].status = "approved"
          PROVE  \/ appeals'[j].cleared \/ appeals'[j].failed
                 \/ \E g \in Handlers : desk'[g].pc \in {"fetch", "clear"} /\ desk'[g].appeal = j
      <3>1. CASE j = i
        BY <1>1, <1>2, <2>2, <3>1
      <3>2. CASE j # i
        BY <1>1, <1>2, <2>2, <3>2 DEF Appeal!AppealsSettle, Appeal!Idle
      <3>3. QED
        BY <3>1, <3>2
    <2>3. QED
      BY <1>1, <2>1, <2>2 DEF Appeal!AppealsSettle, Appeal!PendingAppeals
  <1>6. QED
    BY <1>3, <1>4, <1>5

\* The handler that approved clears, or fails, which is noted.
LEMMA ClearKeepsAppeals ==
  ASSUME AppealInv, NEW h \in Handlers, Appeal!GetAppeal(h) \/ Appeal!ClearWarnings(h)
  PROVE  AppealInv'
  <1> USE DEF AppealInv
  <1>1. desk[h].pc \in {"fetch", "clear"}
    BY DEF Appeal!GetAppeal, Appeal!ClearWarnings
  <1>2. desk[h] \in [pc : {"fetch", "clear"}, appeal : DOMAIN appeals]
    BY <1>1 DEF AppealTypes, Appeal!Idle
  <1> DEFINE i == desk[h].appeal
  <1>3. /\ overlapped' = overlapped
        /\ \A g \in Handlers \ {h} : desk'[g] = desk[g]
        /\ \/ desk'[h] = [pc |-> "clear", appeal |-> i] /\ appeals' = appeals
           \/ desk'[h] = Appeal!Idle
              /\ \/ appeals' = [appeals EXCEPT ![i].failed = TRUE]
                 \/ appeals' = [appeals EXCEPT ![i].cleared = TRUE]
    BY <1>2, DeskAfter DEF Appeal!GetAppeal, Appeal!ClearWarnings, Appeal!Fail
  <1>4. /\ appeals' \in Seq(Appeal!AppealRow)
        /\ DOMAIN appeals' = DOMAIN appeals
        /\ \A j \in DOMAIN appeals : /\ appeals'[j].status = appeals[j].status
                                     /\ appeals'[j].user = appeals[j].user
                                     /\ appeals'[j].reopened = appeals[j].reopened
                                     /\ appeals[j].cleared => appeals'[j].cleared
                                     /\ appeals[j].failed => appeals'[j].failed
        /\ desk'[h] = Appeal!Idle => appeals'[i].failed \/ appeals'[i].cleared
    <2>1. /\ i \in DOMAIN appeals
          /\ appeals[i] \in Appeal!AppealRow
          /\ appeals = [k \in DOMAIN appeals |-> appeals[k]]
      BY <1>2, AppealAt
    <2>2. ASSUME NEW new \in {[appeals[i] EXCEPT !.cleared = TRUE], [appeals[i] EXCEPT !.failed = TRUE]}
          PROVE  /\ new \in Appeal!AppealRow /\ (new.failed \/ new.cleared)
                 /\ new.status = appeals[i].status /\ new.user = appeals[i].user
                 /\ new.reopened = appeals[i].reopened
                 /\ (appeals[i].cleared => new.cleared) /\ (appeals[i].failed => new.failed)
      BY <2>1 DEF Appeal!AppealRow
    <2>3. CASE desk'[h] = Appeal!Idle
      <3>1. PICK new \in {[appeals[i] EXCEPT !.cleared = TRUE], [appeals[i] EXCEPT !.failed = TRUE]} :
               appeals' = [appeals EXCEPT ![i] = new]
        BY <1>3, <2>1, <2>3 DEF Appeal!Idle
      <3>2. /\ appeals' \in Seq(Appeal!AppealRow) /\ DOMAIN appeals' = DOMAIN appeals /\ appeals'[i] = new
            /\ \A j \in DOMAIN appeals \ {i} : appeals'[j] = appeals[j]
        BY <2>1, <2>2, <3>1, AppealAfter
      <3>3. QED
        BY <2>2, <3>2
    <2>4. CASE appeals' = appeals /\ desk'[h] # Appeal!Idle
      BY <2>4 DEF AppealTypes
    <2>5. QED
      BY <1>3, <2>3, <2>4 DEF Appeal!Idle
  <1>5. AppealTypes'
    <2>1. desk' = [desk EXCEPT ![h] = desk'[h]]
      BY <1>3 DEF AppealTypes, Appeal!GetAppeal, Appeal!ClearWarnings, Appeal!Fail, Appeal!Goto
    <2>2. desk'[h] \in {Appeal!Idle} \cup [pc : {"fetch", "clear"}, appeal : DOMAIN appeals]
      BY <1>2, <1>3
    <2>3. QED
      BY <1>4, <2>1, <2>2 DEF AppealTypes
  <1>6. InsertsAlone'
    <2>1. \A j \in DOMAIN appeals : Opened(j)' <=> Opened(j)
      BY <1>4 DEF Opened
    <2>2. desk'[h].pc # "insert"
      BY <1>3 DEF Appeal!Idle
    <2>3. QED
      BY <1>3, <1>4, <2>1, <2>2 DEF InsertsAlone
  <1>7. Appeal!AppealsSettle'
    <2>1. \A j, k \in DOMAIN appeals' :
             j # k /\ appeals'[j].status = "pending" /\ appeals'[k].status = "pending"
               /\ appeals'[j].user = appeals'[k].user =>
             appeals'[j].reopened \/ appeals'[k].reopened \/ appeals'[j].user \in overlapped
      BY <1>4 DEF Appeal!AppealsSettle, Appeal!PendingAppeals
    <2>2. ASSUME NEW j \in DOMAIN appeals', appeals'[j].status = "approved"
          PROVE  \/ appeals'[j].cleared \/ appeals'[j].failed
                 \/ \E g \in Handlers : desk'[g].pc \in {"fetch", "clear"} /\ desk'[g].appeal = j
      <3>1. \/ appeals[j].cleared \/ appeals[j].failed
            \/ \E g \in Handlers : desk[g].pc \in {"fetch", "clear"} /\ desk[g].appeal = j
        BY <1>4, <2>2 DEF Appeal!AppealsSettle
      <3>2. CASE j = i
        BY <1>3, <1>4, <3>2
      <3>3. CASE j # i
        BY <1>3, <1>4, <3>1, <3>3
      <3>4. QED
        BY <3>2, <3>3
    <2>3. QED
      BY <1>3, <2>1, <2>2 DEF Appeal!AppealsSettle, Appeal!PendingAppeals
  <1>8. QED
    BY <1>5, <1>6, <1>7

\* The other parts leave the appeals alone.
LEMMA AppealsStep ==
  ASSUME AppealInv, [RecordsNext]_recordVars
  PROVE  AppealInv'
  <1>1. CASE Appeal!Next
    <2>1. CASE \E u \in Users : Appeal!Warn(u)
      BY <2>1 DEF AppealInv, AppealTypes, InsertsAlone, Opened, Appeal!AppealsSettle,
                  Appeal!PendingAppeals, Appeal!Warn
    <2>2. QED
      BY <1>1, <2>1, CreateKeepsAppeals, InsertKeepsAppeals, ResolveKeepsAppeals, ClearKeepsAppeals
         DEF Appeal!Next
  <1>2. CASE UNCHANGED appealState
    BY <1>2 DEF appealState, AppealInv, AppealTypes, InsertsAlone, Opened,
                Appeal!AppealsSettle, Appeal!PendingAppeals
  <1>3. [RecordsNext]_recordVars => Appeal!Next \/ UNCHANGED appealState
    BY DEF RecordsNext, recordVars, appealVars, appealState
  <1>4. QED
    BY <1>1, <1>2, <1>3

\* At first there is no appeal and every handler is idle.
LEMMA AppealsBegin == RecordsInit => AppealInv
  <1>1. <<>> \in Seq(Appeal!AppealRow) /\ DOMAIN <<>> = {}
    BY EmptySeq
  <1>2. QED
    BY <1>1 DEF RecordsInit, Appeal!Init, AppealInv, AppealTypes, InsertsAlone, Appeal!AppealsSettle,
                Appeal!PendingAppeals, Appeal!Idle

\* However calls overlap and statements fail: a user has one active appeal
\* unless two of its calls ran at once or a resolution made one active again,
\* and what is approved is cleared.
THEOREM AppealsSettleEver == RecordsSpec => []AppealsSettle
  <1>1. RecordsInit => AppealInv
    BY AppealsBegin
  <1>2. AppealInv /\ [RecordsNext]_recordVars => AppealInv'
    BY AppealsStep
  <1>3. AppealInv => AppealsSettle
    BY DEF AppealInv, AppealsSettle
  <1>4. QED
    BY <1>1, <1>2, <1>3, PTL DEF RecordsSpec

-----------------------------------------------------------------------------
(* Files and notices agree with their records.                             *)

exportState == <<job, files, history, sweep, exportsBroken>>

\* An export's file, and then its record.
LEMMA JobKeepsExports ==
  ASSUME ExportInv, NEW x \in Jobs,
         Export!Gather(x) \/ Export!WriteFile(x) \/ Export!RecordExport(x)
  PROVE  ExportInv'
  <1> USE DEF ExportInv
  <1>1. /\ sweep' = sweep /\ clock' = clock /\ job' \in [Jobs -> Export!Steps]
        /\ \A y \in Jobs \ {x} : job'[y] = job[y]
    BY DEF SweepInv, Export!Gather, Export!WriteFile, Export!RecordExport, Export!Goto, Export!Steps
  <1>2. CASE Export!Gather(x)
    <2>1. /\ files' = files /\ history' = history /\ exportsBroken' = exportsBroken
          /\ job[x] = "new" /\ job'[x] \in {"gathered", "done"}
      BY <1>2 DEF SweepInv, Export!Gather, Export!Goto
    <2>2. QED
      BY <1>1, <2>1 DEF SweepInv, Export!FilesAreListed
  <1>3. CASE Export!WriteFile(x)
    <2>1. /\ history' = history /\ job[x] = "gathered"
          /\ \/ job'[x] = "written" /\ files' = files \cup {x} /\ exportsBroken' = exportsBroken
             \/ job'[x] = "done" /\ files' = files /\ exportsBroken' = exportsBroken
             \/ job'[x] = "done" /\ files' = files \cup {x} /\ exportsBroken' = TRUE
      BY <1>3 DEF SweepInv, Export!WriteFile, Export!Goto
    <2>2. CASE job'[x] = "written" /\ files' = files \cup {x} /\ exportsBroken' = exportsBroken
      BY <1>1, <2>1, <2>2 DEF SweepInv, Export!FilesAreListed
    <2>3. CASE job'[x] = "done" /\ files' = files /\ exportsBroken' = exportsBroken
      BY <1>1, <2>1, <2>3 DEF SweepInv, Export!FilesAreListed
    <2>4. CASE job'[x] = "done" /\ files' = files \cup {x} /\ exportsBroken' = TRUE
      <3>1. \A r \in history : r.file \in Jobs \ {x}
        BY <2>1 DEF SweepInv
      <3>2. /\ \A r \in history : job'[r.file] = "done"
            /\ \A y \in files' : job'[y] \in {"written", "done"}
            /\ \A y \in Jobs : job'[y] = "written" => y \in files'
            /\ files' \subseteq Jobs
        BY <1>1, <2>1, <2>4, <3>1 DEF SweepInv
      <3>3. SweepInv'
        BY <1>1, <2>1, <2>4, <3>2 DEF SweepInv
      <3>4. QED
        BY <1>1, <2>1, <2>4, <3>3 DEF Export!FilesAreListed
    <2>5. QED
      BY <2>1, <2>2, <2>3, <2>4
  <1>4. CASE Export!RecordExport(x)
    <2> DEFINE new == [file |-> x, expires |-> clock + Expiry]
    <2>1. /\ files' = files /\ job[x] = "written" /\ job'[x] = "done"
          /\ \/ history' = history \cup {new} /\ exportsBroken' = exportsBroken
             \/ history' = history /\ exportsBroken' = TRUE
      BY <1>4 DEF SweepInv, Export!RecordExport, Export!Goto
    <2>2. new \in [file : Jobs, expires : Nat] /\ new.file = x /\ new.expires >= clock
      BY RecordsAssumption DEF SweepInv, Export!ConstantsFit
    <2> HIDE DEF new
    <2>3. \A r \in history : r.file # x
      BY <2>1 DEF SweepInv
    <2>4. sweep.pc = "files" => sweep.at \in Nat
      BY DEF SweepInv, Export!Rest
    <2>5. sweep.pc = "files" => ~(new.expires < sweep.at)
      BY <2>2, <2>4 DEF SweepInv
    <2>6. SweepInv'
      <3>1. /\ clock' \in Nat /\ job' \in [Jobs -> Export!Steps] /\ files' \subseteq Jobs
            /\ history' \subseteq [file : Jobs, expires : Nat]
            /\ sweep' \in {Export!Rest} \cup [pc : {"files"}, at : Nat, todo : SUBSET Jobs]
            /\ exportsBroken' \in BOOLEAN
        BY <1>1, <2>1, <2>2 DEF SweepInv
      <3>2. \A r \in history : job[r.file] = "done" /\ r.file \in Jobs
        BY DEF SweepInv
      <3>3. \A r \in history' : job'[r.file] = "done"
        BY <1>1, <2>1, <2>2, <2>3, <3>2
      <3>4. \A r, s \in history' : r.file = s.file => r = s
        BY <2>1, <2>2, <2>3 DEF SweepInv
      <3>5. /\ \A y \in files' : job'[y] \in {"written", "done"}
            /\ \A y \in Jobs : job'[y] = "written" => y \in files'
        BY <1>1, <2>1 DEF SweepInv
      <3>6. ASSUME sweep.pc = "files"
            PROVE  /\ sweep.at <= clock
                   /\ \A y \in sweep.todo : \E r \in history' : r.file = y /\ r.expires < sweep.at
                   /\ \A r \in history' : r.expires < sweep.at =>
                         r.file \in sweep.todo \/ r.file \notin files \/ exportsBroken'
        BY <2>1, <2>5, <3>6 DEF SweepInv
      <3>7. QED
        BY <1>1, <2>1, <3>1, <3>3, <3>4, <3>5, <3>6 DEF SweepInv
    <2>7. Export!FilesAreListed'
      BY <1>1, <2>1, <2>2 DEF SweepInv, Export!FilesAreListed
    <2>8. QED
      BY <2>6, <2>7
  <1>5. QED
    BY <1>2, <1>3, <1>4

\* The clean-up takes the files of expired records first and the records then.
LEMMA SweepKeepsExports ==
  ASSUME ExportInv,
         Export!SelectExpired \/ (\E x \in Jobs : Export!RemoveFile(x)) \/ Export!DeleteRecords
  PROVE  ExportInv'
  <1> USE DEF ExportInv
  <1>1. job' = job /\ clock' = clock
    BY DEF Export!SelectExpired, Export!RemoveFile, Export!DeleteRecords
  <1>2. CASE Export!SelectExpired
    <2>1. /\ sweep' = [pc |-> "files", at |-> clock, todo |-> {r.file : r \in Export!Expired(clock)}]
          /\ files' = files /\ history' = history /\ exportsBroken' = exportsBroken
      BY <1>2 DEF Export!SelectExpired
    <2>2. {r.file : r \in Export!Expired(clock)} \subseteq Jobs
      BY DEF SweepInv, Export!Expired
    <2>3. /\ sweep' \in [pc : {"files"}, at : Nat, todo : SUBSET Jobs] /\ sweep'.at = clock
          /\ \A y : y \in sweep'.todo <=> \E r \in history : r.file = y /\ r.expires < clock
      BY <2>1, <2>2 DEF SweepInv, Export!Expired
    <2>4. SweepInv'
      BY <1>1, <2>1, <2>3 DEF SweepInv
    <2>5. QED
      BY <1>1, <2>1, <2>4 DEF Export!FilesAreListed
  <1>3. ASSUME NEW x \in Jobs, Export!RemoveFile(x) PROVE ExportInv'
    <2>1. sweep \in [pc : {"files"}, at : Nat, todo : SUBSET Jobs] /\ sweep.pc = "files" /\ x \in sweep.todo
      BY <1>3 DEF SweepInv, Export!RemoveFile, Export!Rest
    <2>2. /\ sweep' \in [pc : {"files"}, at : Nat, todo : SUBSET Jobs]
          /\ sweep'.at = sweep.at /\ sweep'.todo = sweep.todo \ {x} /\ history' = history
          /\ \/ files' = files \ {x} /\ exportsBroken' = exportsBroken
             \/ files' = files /\ exportsBroken' = TRUE
      BY <1>3, <2>1 DEF Export!RemoveFile
    <2>3. PICK expired \in history : expired.file = x /\ expired.expires < sweep.at
      BY <2>1 DEF SweepInv
    <2>4. expired.expires \in Nat /\ sweep.at <= clock /\ clock \in Nat /\ sweep.at \in Nat
      BY <2>1 DEF SweepInv
    <2>5. job[x] = "done" /\ ~(expired.expires >= clock)
      BY <2>3, <2>4 DEF SweepInv
    <2>6. SweepInv'
      <3>1. /\ clock' \in Nat /\ job' \in [Jobs -> Export!Steps] /\ files' \subseteq Jobs
            /\ history' \subseteq [file : Jobs, expires : Nat] /\ exportsBroken' \in BOOLEAN
        BY <1>1, <2>2 DEF SweepInv
      <3>2. /\ \A r \in history' : job'[r.file] = "done"
            /\ \A r, s \in history' : r.file = s.file => r = s
        BY <1>1, <2>2 DEF SweepInv
      <3>3. /\ \A y \in files' : job'[y] \in {"written", "done"}
            /\ \A y \in Jobs : job'[y] = "written" => y \in files'
        BY <1>1, <2>2, <2>5 DEF SweepInv
      <3>4. /\ sweep'.at <= clock
            /\ \A y \in sweep'.todo : \E r \in history : r.file = y /\ r.expires < sweep.at
        BY <2>1, <2>2 DEF SweepInv
      <3>5. \A r \in history : r.expires < sweep.at =>
               r.file \in sweep'.todo \/ r.file \notin files' \/ exportsBroken'
        BY <2>1, <2>2 DEF SweepInv
      <3>6. QED
        BY <1>1, <2>2, <3>1, <3>2, <3>3, <3>4, <3>5 DEF SweepInv
    <2>7. \A r \in history : r.expires >= clock => r.file # x
      BY <2>3, <2>5 DEF SweepInv
    <2>8. Export!FilesAreListed'
      BY <1>1, <2>2, <2>7 DEF Export!FilesAreListed
    <2>9. QED
      BY <2>6, <2>8
  <1>4. CASE Export!DeleteRecords
    <2>1. /\ sweep \in [pc : {"files"}, at : Nat, todo : SUBSET Jobs] /\ sweep.pc = "files" /\ sweep.todo = {}
          /\ sweep' = Export!Rest /\ files' = files /\ exportsBroken' = exportsBroken
          /\ history' \in {history, history \ Export!Expired(sweep.at)}
      BY <1>4 DEF SweepInv, Export!DeleteRecords, Export!Rest
    <2>2. SweepInv'
      BY <1>1, <2>1 DEF SweepInv, Export!Rest
    <2>3. \A r \in history : r \in history' \/ r.expires < sweep.at
      BY <2>1 DEF Export!Expired
    <2>4. \A r \in history \ history' : r.file \notin files \/ exportsBroken
      BY <2>1, <2>3 DEF SweepInv
    <2>5. Export!FilesAreListed'
      BY <1>1, <2>1, <2>4 DEF Export!FilesAreListed
    <2>6. QED
      BY <2>2, <2>5
  <1>5. QED
    BY <1>2, <1>3, <1>4

\* The clock of any part of the program lets records expire.
LEMMA ClockKeepsExports ==
  ASSUME ExportInv, UNCHANGED exportState, clock' \in {clock, clock + 1}
  PROVE  ExportInv'
  <1>1. clock \in Nat /\ clock' \in Nat /\ clock <= clock'
    BY DEF ExportInv, SweepInv
  <1>2. \A r \in history : r.expires \in Nat
    BY DEF ExportInv, SweepInv
  <1>3. sweep.pc = "files" => sweep.at \in Nat
    BY DEF ExportInv, SweepInv, Export!Rest
  <1>4. SweepInv'
    BY <1>1, <1>3 DEF ExportInv, SweepInv, exportState
  <1>5. Export!FilesAreListed'
    BY <1>1, <1>2 DEF ExportInv, Export!FilesAreListed, exportState
  <1>6. QED
    BY <1>4, <1>5 DEF ExportInv

\* The other parts leave the exports alone, but for the clock.
LEMMA ExportsStep ==
  ASSUME ExportInv, [RecordsNext]_recordVars
  PROVE  ExportInv'
  <1>1. CASE Export!Next
    <2>1. CASE Export!Tick
      BY <2>1, ClockKeepsExports DEF Export!Tick, exportState
    <2>2. QED
      BY <1>1, <2>1, JobKeepsExports, SweepKeepsExports DEF Export!Next
  <1>2. CASE UNCHANGED exportState /\ [LogStep]_logVars
    <2>1. clock' \in {clock, clock + 1}
      BY <1>2 DEF LogStep, LogNext, logVars, Record, OpenPage, CountRows, FetchRows, NextPage, ClosePage, Tick
    <2>2. QED
      BY <1>2, <2>1, ClockKeepsExports
  <1>3. [RecordsNext]_recordVars => Export!Next \/ UNCHANGED exportState
    BY DEF RecordsNext, recordVars, exportVars, exportState
  <1>4. QED
    BY <1>1, <1>2, <1>3, RecordsStepIsLogStep

noticeState == <<send, notices, read, delivered>>

\* Only what is stored is tried on the webhook or marked.
LEMMA NoticesStep ==
  ASSUME NoticeInv, [RecordsNext]_recordVars
  PROVE  NoticeInv'
  <1> USE DEF NoticeInv, Notice!NoticesAreStored
  <1>1. ASSUME NEW n \in Sends, NEW event \in Events, NEW priority \in Notice!Priorities,
               Notice!GetPreferences(n, event, priority)
        PROVE  NoticeInv'
    BY <1>1 DEF Notice!GetPreferences, Notice!Goto, Notice!Done
  <1>2. ASSUME NEW n \in Sends, Notice!SendInApp(n)
        PROVE  NoticeInv'
    BY <1>2 DEF Notice!SendInApp, Notice!Goto, Notice!Done
  <1>3. ASSUME NEW n \in Sends, Notice!SendDiscordWebhook(n)
        PROVE  NoticeInv'
    <2>1. n \in notices /\ delivered' \subseteq delivered \cup {n}
      BY <1>3 DEF Notice!SendDiscordWebhook
    <2>2. QED
      BY <1>3, <2>1 DEF Notice!SendDiscordWebhook, Notice!Goto
  <1>4. ASSUME NEW n \in Sends, Notice!MarkAsRead(n) \/ Notice!MarkAsUnread(n)
        PROVE  NoticeInv'
    BY <1>4 DEF Notice!MarkAsRead, Notice!MarkAsUnread
  <1>5. CASE UNCHANGED noticeState
    BY <1>5 DEF noticeState
  <1>6. (\E new : Notice!UpdatePreferences(new)) \/ Notice!Tick => UNCHANGED noticeState
    BY DEF Notice!UpdatePreferences, Notice!Tick, noticeState
  <1>7. [RecordsNext]_recordVars => Notice!Next \/ UNCHANGED noticeState
    BY DEF RecordsNext, recordVars, noticeVars, noticeState
  <1>8. QED
    BY <1>1, <1>2, <1>3, <1>4, <1>5, <1>6, <1>7 DEF Notice!Next

\* At first there is nothing in any of the stores.
LEMMA StoresBegin == RecordsInit => ExportInv /\ NoticeInv
  <1>1. RecordsInit => SweepInv
    <2> SUFFICES ASSUME RecordsInit PROVE SweepInv
      OBVIOUS
    <2>1. clock = 0 /\ job = [x \in Jobs |-> "new"] /\ files = {} /\ history = {}
      BY DEF RecordsInit, Export!Init
    <2>2. sweep = Export!Rest /\ sweep.pc # "files" /\ exportsBroken \in BOOLEAN
      BY DEF RecordsInit, Export!Init, Export!Rest
    <2>3. job \in [Jobs -> Export!Steps] /\ \A x \in Jobs : job[x] # "written"
      BY <2>1 DEF Export!Steps
    <2>4. QED
      BY <2>1, <2>2, <2>3 DEF SweepInv
  <1>2. RecordsInit => Export!FilesAreListed
    BY DEF RecordsInit, Export!Init, Export!FilesAreListed
  <1>3. RecordsInit => NoticeInv
    BY DEF RecordsInit, Notice!Init, NoticeInv, Notice!New, Notice!NoticesAreStored
  <1>4. QED
    BY <1>1, <1>2, <1>3 DEF ExportInv

\* Whatever fails between two stores and however the clean-up runs beside the
\* exports: a record that has not expired has its file, a file is listed or
\* something failed, and what the webhook got or was read is stored.
THEOREM StoresAgreeEver == RecordsSpec => []StoresAgree
  <1>1. RecordsInit => ExportInv /\ NoticeInv
    BY StoresBegin
  <1>2. ExportInv /\ NoticeInv /\ [RecordsNext]_recordVars => ExportInv' /\ NoticeInv'
    BY ExportsStep, NoticesStep
  <1>3. ExportInv /\ NoticeInv => StoresAgree
    BY DEF ExportInv, NoticeInv, StoresAgree
  <1>4. QED
    BY <1>1, <1>2, <1>3, PTL DEF RecordsSpec

-----------------------------------------------------------------------------
(* Metrics: counters in memory, on their way and in the table.             *)

\* The sum of a set is that of its picked element and of the others.
LEMMA SumPicks ==
  ASSUME NEW D, IsFiniteSet(D), D # {}, NEW F, \A x \in D : F[x] \in Nat
  PROVE  Sum(F, D) = Sum(F, D \ {Pick(D)}) + F[Pick(D)]
  <1>1. Pick(D) \in D
    BY DEF Pick
  <1>2. Sum(F, D) = F[Pick(D)] + Sum(F, D \ {Pick(D)})
    BY SumTable
  <1>3. Sum(F, D \ {Pick(D)}) \in Nat
    BY SumType, FS_Subset
  <1>4. QED
    BY <1>1, <1>2, <1>3

\* A summand that grows, or a new one.
LEMMA SumGrows ==
  ASSUME NEW D, IsFiniteSet(D), NEW F, \A x \in D : F[x] \in Nat, NEW y, NEW n \in Nat,
         NEW E, \A x \in D \ {y} : E[x] = F[x], E[y] = IF y \in D THEN F[y] + n ELSE n
  PROVE  Sum(E, D \cup {y}) = Sum(F, D) + n
  <1>1. IsFiniteSet(D \cup {y}) /\ IsFiniteSet(D \ {y}) /\ (D \cup {y}) \ {y} = D \ {y}
    BY FS_AddElement, FS_RemoveElement
  <1>2. \A x \in D \cup {y} : E[x] \in Nat
    OBVIOUS
  <1>3. Sum(E, D \cup {y}) = E[y] + Sum(E, D \ {y})
    BY <1>1, <1>2, SumTakesOut
  <1>4. Sum(E, D \ {y}) = Sum(F, D \ {y})
    BY <1>1, SumAgrees
  <1>5. Sum(F, D \ {y}) \in Nat
    BY <1>1, SumType
  <1>6. CASE y \in D
    <2>1. Sum(F, D) = F[y] + Sum(F, D \ {y})
      BY <1>6, SumTakesOut
    <2>2. QED
      BY <1>3, <1>4, <1>5, <1>6, <2>1
  <1>7. CASE y \notin D
    <2>1. Sum(F, D \ {y}) = Sum(F, D)
      <3>1. D \ {y} = D
        BY <1>7
      <3>2. QED
        BY <3>1
    <2>2. QED
      BY <1>3, <1>4, <1>5, <1>7, <2>1
  <1>8. QED
    BY <1>6, <1>7

\* The sums of the counters of some rows of the hourly table.
Messages(table, hours) == Sum([h \in hours |-> table[h].messages], hours)
OfType(table, hours, t) == Sum([h \in hours |-> table[h].type[t]], hours)
OfSeverity(table, hours, s) == Sum([h \in hours |-> table[h].severity[s]], hours)

\* The counters of some hours added up are the sums of each counter.
LEMMA TotalIsSums ==
  ASSUME NEW hours, IsFiniteSet(hours), NEW table, \A h \in hours : table[h] \in Counts
  PROVE  PlusAll(table, hours) =
            [messages |-> Messages(table, hours),
             type |-> [t \in Types |-> OfType(table, hours, t)],
             severity |-> [s \in Severities |-> OfSeverity(table, hours, s)]]
  <1> DEFINE M == [h \in hours |-> table[h].messages]
             Y(t) == [h \in hours |-> table[h].type[t]]
             V(s) == [h \in hours |-> table[h].severity[s]]
             G(S) == [messages |-> Sum(M, S), type |-> [t \in Types |-> Sum(Y(t), S)],
                      severity |-> [s \in Severities |-> Sum(V(s), S)]]
             Equation(g) == g = [S \in SUBSET hours |-> IF S = {} THEN Zero
                                                       ELSE Plus(g[S \ {Pick(S)}], table[Pick(S)])]
             T(g) == {S \in SUBSET hours : g[S] = G(S)}
  <1>1. G({}) = Zero
    BY SumTable, FS_EmptySet DEF Zero
  <1>2. ASSUME NEW S \in SUBSET hours, S # {}
        PROVE  G(S) = Plus(G(S \ {Pick(S)}), table[Pick(S)])
    <2>1. Pick(S) \in S /\ IsFiniteSet(S) /\ S # {}
      BY <1>2, FS_Subset DEF Pick
    <2>3. /\ \A h \in hours : M[h] \in Nat
          /\ \A t \in Types : \A h \in hours : Y(t)[h] \in Nat
          /\ \A s \in Severities : \A h \in hours : V(s)[h] \in Nat
      BY DEF Counts
    <2>4. /\ Sum(M, S) = Sum(M, S \ {Pick(S)}) + table[Pick(S)].messages
          /\ \A t \in Types : Sum(Y(t), S) = Sum(Y(t), S \ {Pick(S)}) + table[Pick(S)].type[t]
          /\ \A s \in Severities : Sum(V(s), S) = Sum(V(s), S \ {Pick(S)}) + table[Pick(S)].severity[s]
      <3>1. Sum(M, S) = Sum(M, S \ {Pick(S)}) + table[Pick(S)].messages
        <4>1. M[Pick(S)] = table[Pick(S)].messages
          BY <2>1
        <4> HIDE DEF M
        <4>2. QED
          BY <2>1, <2>3, <4>1, SumPicks
      <3>2. ASSUME NEW t \in Types
            PROVE  Sum(Y(t), S) = Sum(Y(t), S \ {Pick(S)}) + table[Pick(S)].type[t]
        <4>1. Y(t)[Pick(S)] = table[Pick(S)].type[t]
          BY <2>1
        <4> HIDE DEF Y
        <4>2. QED
          BY <2>1, <2>3, <4>1, SumPicks
      <3>3. ASSUME NEW s \in Severities
            PROVE  Sum(V(s), S) = Sum(V(s), S \ {Pick(S)}) + table[Pick(S)].severity[s]
        <4>1. V(s)[Pick(S)] = table[Pick(S)].severity[s]
          BY <2>1
        <4> HIDE DEF V
        <4>2. QED
          BY <2>1, <2>3, <4>1, SumPicks
      <3>4. QED
        BY <3>1, <3>2, <3>3
    <2>5. QED
      BY <2>4 DEF Plus
  <1>3. \E g : Equation(g)
    <2> DEFINE g == [S \in SUBSET hours |-> G(S)]
    <2>1. \A S \in SUBSET hours : S \ {Pick(S)} \in SUBSET hours
      OBVIOUS
    <2> HIDE DEF G
    <2>2. \A S \in SUBSET hours : g[S] = IF S = {} THEN Zero ELSE Plus(g[S \ {Pick(S)}], table[Pick(S)])
      BY <1>1, <1>2, <2>1
    <2>3. Equation(g)
      BY <2>2
    <2>4. QED
      BY <2>3
  <1> DEFINE iter == CHOOSE g : Equation(g)
  <1>4. Equation(iter)
    BY <1>3
  <1>5. PlusAll(table, hours) = iter[hours]
    BY DEF PlusAll, FoldSet, MapThenFoldSet, Pick
  <1> HIDE DEF iter, G
  <1>6. ASSUME NEW S \in SUBSET hours, \A h \in S : S \ {h} \in T(iter)
        PROVE  S \in T(iter)
    <2>1. CASE S = {}
      BY <1>1, <1>4, <2>1
    <2>2. CASE S # {}
      <3>1. Pick(S) \in S
        BY <2>2 DEF Pick
      <3>2. iter[S \ {Pick(S)}] = G(S \ {Pick(S)})
        BY <1>6, <3>1
      <3>3. QED
        BY <1>2, <1>4, <2>2, <3>2
    <2>3. QED
      BY <2>1, <2>2
  <1> HIDE DEF T
  <1>7. \A S \in SUBSET hours : S \in T(iter)
    BY <1>6, SubsetInduction
  <1>8. QED
    BY <1>5, <1>7 DEF T, G, Messages, OfType, OfSeverity

\* Every violation that is counted has a type and a severity.
Balanced(c) == Violations(c) = c.severity["high"] + c.severity["medium"] + c.severity["low"]

\* What the collector has received is kept, in a table of finitely many hours.
CountersInv ==
    MetricsTypeOK /\ clock \in Nat /\ IsFiniteSet(DOMAIN hourly) /\ Balanced(counters) /\ CountsAreKept

\* Counters are numbers, and adding them up is adding up each of them.
LEMMA PlusAdds ==
  /\ Zero \in Counts
  /\ \A a, b \in Counts : Plus(a, b) \in Counts /\ Plus(a, b) = Plus(b, a)
  /\ \A a \in Counts : Plus(a, Zero) = a
  /\ \A a, b, c \in Counts : Plus(Plus(a, b), c) = Plus(a, Plus(b, c))
  <1>1. Zero \in Counts
    BY DEF Zero, Counts
  <1>2. \A a, b \in Counts : Plus(a, b) \in Counts /\ Plus(a, b) = Plus(b, a)
    BY DEF Plus, Counts
  <1>3. \A a \in Counts : Plus(a, Zero) = a
    BY DEF Plus, Counts, Zero
  <1>4. \A a, b, c \in Counts : Plus(Plus(a, b), c) = Plus(a, Plus(b, c))
    BY DEF Plus, Counts
  <1>5. QED
    BY <1>1, <1>2, <1>3, <1>4

\* Where a count moves between the four places does not matter.
LEMMA PlusShifts ==
  ASSUME NEW c \in Counts, NEW f \in Counts, NEW l \in Counts, NEW t \in Counts, NEW w \in Counts
  PROVE  Plus(Plus(Plus(c, f), Plus(l, t)), w) = Plus(Plus(Plus(c, w), f), Plus(l, t))
  BY DEF Plus, Counts

LEMMA PlusMoves ==
  ASSUME NEW c \in Counts, NEW f \in Counts, NEW l \in Counts, NEW t \in Counts, NEW w \in Counts
  PROVE  /\ Plus(Plus(c, Plus(f, w)), Plus(l, t)) = Plus(Plus(c, f), Plus(Plus(l, w), t))
         /\ Plus(Plus(c, Plus(f, w)), Plus(l, t)) = Plus(Plus(c, f), Plus(l, Plus(t, w)))
  <1> DEFINE a == Plus(c, f)
             b == Plus(l, t)
  <1>1. a \in Counts /\ b \in Counts
    BY PlusAdds
  <1>2. Plus(c, Plus(f, w)) = Plus(a, w)
    BY PlusAdds
  <1>3. Plus(w, b) = Plus(Plus(l, w), t) /\ Plus(w, b) = Plus(l, Plus(t, w))
    <2>1. Plus(w, b) = Plus(Plus(w, l), t) /\ Plus(w, l) = Plus(l, w) /\ Plus(w, t) = Plus(t, w)
      BY PlusAdds
    <2>2. Plus(Plus(l, w), t) = Plus(l, Plus(w, t))
      BY PlusAdds
    <2>3. QED
      BY <2>1, <2>2
  <1> HIDE DEF a, b
  <1>4. Plus(Plus(a, w), b) = Plus(a, Plus(w, b))
    BY <1>1, PlusAdds
  <1>5. QED
    BY <1>2, <1>3, <1>4 DEF a, b

\* A total is one of counters.
LEMMA TotalType ==
  ASSUME NEW hours, IsFiniteSet(hours), NEW table, \A h \in hours : table[h] \in Counts
  PROVE  PlusAll(table, hours) \in Counts
  <1>1. Messages(table, hours) \in Nat
    <2>1. \A h \in hours : [k \in hours |-> table[k].messages][h] \in Nat
      BY DEF Counts
    <2>2. QED
      BY <2>1, SumType DEF Messages
  <1>2. ASSUME NEW t \in Types PROVE OfType(table, hours, t) \in Nat
    <2>1. \A h \in hours : [k \in hours |-> table[k].type[t]][h] \in Nat
      BY DEF Counts
    <2>2. QED
      BY <2>1, SumType DEF OfType
  <1>3. ASSUME NEW s \in Severities PROVE OfSeverity(table, hours, s) \in Nat
    <2>1. \A h \in hours : [k \in hours |-> table[k].severity[s]][h] \in Nat
      BY DEF Counts
    <2>2. QED
      BY <2>1, SumType DEF OfSeverity
  <1>4. QED
    BY <1>1, <1>2, <1>3, TotalIsSums DEF Counts

\* No hours, no counts.
LEMMA TotalOfNone ==
  ASSUME NEW table
  PROVE  PlusAll(table, {}) = Zero
  <1>1. \A F : Sum(F, {}) = 0
    BY SumTable, FS_EmptySet
  <1>2. /\ Messages(table, {}) = 0
        /\ \A t \in Types : OfType(table, {}, t) = 0
        /\ \A s \in Severities : OfSeverity(table, {}, s) = 0
    BY <1>1 DEF Messages, OfType, OfSeverity
  <1>3. QED
    BY <1>2, TotalIsSums, FS_EmptySet DEF Zero

\* An upsert adds what it writes to the total.
LEMMA UpsertAdds ==
  ASSUME NEW hours, IsFiniteSet(hours), NEW table, \A h \in hours : table[h] \in Counts,
         NEW hour, NEW some \in Counts, NEW new,
         \A h \in hours \ {hour} : new[h] = table[h],
         new[hour] = IF hour \in hours THEN Plus(table[hour], some) ELSE some
  PROVE  PlusAll(new, hours \cup {hour}) = Plus(PlusAll(table, hours), some)
  <1> DEFINE more == hours \cup {hour}
  <1>1. IsFiniteSet(more) /\ \A h \in more : new[h] \in Counts
    <2>1. Plus(table[hour], some) \in Counts \/ hour \notin hours
      BY PlusAdds
    <2>2. QED
      BY <2>1, FS_AddElement
  <1>3. Messages(new, more) = Messages(table, hours) + some.messages
    <2> DEFINE F == [h \in hours |-> table[h].messages]
               E == [h \in more |-> new[h].messages]
               n == some.messages
    <2>1. /\ \A h \in hours : F[h] \in Nat
          /\ n \in Nat
          /\ \A h \in hours \ {hour} : E[h] = F[h]
          /\ E[hour] = IF hour \in hours THEN F[hour] + n ELSE n
      BY DEF Counts, Plus
    <2> HIDE DEF E, F, n, more
    <2>2. Sum(E, hours \cup {hour}) = Sum(F, hours) + n
      BY <2>1, SumGrows
    <2>3. QED
      BY <2>2 DEF E, F, n, more, Messages
  <1>4. ASSUME NEW t \in Types
        PROVE  OfType(new, more, t) = OfType(table, hours, t) + some.type[t]
    <2> DEFINE F == [h \in hours |-> table[h].type[t]]
               E == [h \in more |-> new[h].type[t]]
               n == some.type[t]
    <2>1. /\ \A h \in hours : F[h] \in Nat
          /\ n \in Nat
          /\ \A h \in hours \ {hour} : E[h] = F[h]
          /\ E[hour] = IF hour \in hours THEN F[hour] + n ELSE n
      BY DEF Counts, Plus
    <2> HIDE DEF E, F, n, more
    <2>2. Sum(E, hours \cup {hour}) = Sum(F, hours) + n
      BY <2>1, SumGrows
    <2>3. QED
      BY <2>2 DEF E, F, n, more, OfType, OfSeverity
  <1>5. ASSUME NEW s \in Severities
        PROVE  OfSeverity(new, more, s) = OfSeverity(table, hours, s) + some.severity[s]
    <2> DEFINE F == [h \in hours |-> table[h].severity[s]]
               E == [h \in more |-> new[h].severity[s]]
               n == some.severity[s]
    <2>1. /\ \A h \in hours : F[h] \in Nat
          /\ n \in Nat
          /\ \A h \in hours \ {hour} : E[h] = F[h]
          /\ E[hour] = IF hour \in hours THEN F[hour] + n ELSE n
      BY DEF Counts, Plus
    <2> HIDE DEF E, F, n, more
    <2>2. Sum(E, hours \cup {hour}) = Sum(F, hours) + n
      BY <2>1, SumGrows
    <2>3. QED
      BY <2>2 DEF E, F, n, more, OfType, OfSeverity
  <1> HIDE DEF more
  <1>6. /\ PlusAll(new, more) = [messages |-> Messages(new, more),
                              type |-> [t \in Types |-> OfType(new, more, t)],
                              severity |-> [s \in Severities |-> OfSeverity(new, more, s)]]
        /\ PlusAll(table, hours) = [messages |-> Messages(table, hours),
                                 type |-> [t \in Types |-> OfType(table, hours, t)],
                                 severity |-> [s \in Severities |-> OfSeverity(table, hours, s)]]
    BY <1>1, TotalIsSums
  <1>7. PlusAll(new, more) = Plus(PlusAll(table, hours), some)
    BY <1>3, <1>4, <1>5, <1>6 DEF Plus
  <1>8. QED
    BY <1>7 DEF more

\* Where every caller holds nothing, nothing is on its way.
LEMMA NothingTaken ==
  ASSUME NEW keys, IsFiniteSet(keys)
  PROVE  PlusAll([k \in keys |-> Zero], keys) = Zero
  <1> DEFINE table == [k \in keys |-> Zero]
             T == {S \in SUBSET keys : PlusAll(table, S) = Zero}
  <1>1. \A k \in keys : table[k] = Zero
    OBVIOUS
  <1> HIDE DEF table
  <1>2. ASSUME NEW S \in SUBSET keys, \A x \in S : S \ {x} \in T
        PROVE  S \in T
    <2>1. CASE S = {}
      BY <2>1, TotalOfNone
    <2>2. CASE S # {}
      <3>1. PICK x : x \in S
        BY <2>2
      <3>2. IsFiniteSet(S \ {x}) /\ (S \ {x}) \cup {x} = S /\ x \in keys
        BY <3>1, FS_Subset
      <3>3. /\ \A k \in S \ {x} : table[k] \in Counts
            /\ Zero \in Counts /\ x \notin S \ {x} /\ table[x] = Zero
        BY <1>1, <3>2, PlusAdds
      <3>4. PlusAll(table, (S \ {x}) \cup {x}) = Plus(PlusAll(table, S \ {x}), Zero)
        BY <3>2, <3>3, UpsertAdds
      <3>5. PlusAll(table, S \ {x}) = Zero
        BY <1>2, <3>1
      <3>6. QED
        BY <3>2, <3>4, <3>5, PlusAdds
    <2>3. QED
      BY <2>1, <2>2
  <1> HIDE DEF T
  <1>3. \A S \in SUBSET keys : S \in T
    BY <1>2, SubsetInduction
  <1>4. QED
    BY <1>3 DEF T, table

\* What was taken out by one caller adds to what is on its way.
LEMMA TakenAdds ==
  ASSUME MetricsTypeOK, NEW f \in Flushers, NEW some \in Counts,
         NEW other, other \in [Flushers -> [hour : Nat, counts : Counts]],
         \A g \in Flushers \ {f} : other[g] = flushing[g],
         flushing[f].counts = Zero, other[f].counts = some
  PROVE  PlusAll([g \in Flushers |-> other[g].counts], Flushers) = Plus(InFlight, some)
  <1> DEFINE before == [g \in Flushers |-> flushing[g].counts]
             after == [g \in Flushers |-> other[g].counts]
  <1>1. IsFiniteSet(Flushers) /\ Flushers \cup {f} = Flushers
    BY MetricsAssumption
  <1>2. /\ \A g \in Flushers : before[g] \in Counts
        /\ \A g \in Flushers \ {f} : after[g] = before[g]
        /\ before[f] = Zero /\ after[f] = some
    BY DEF MetricsTypeOK
  <1>3. InFlight = PlusAll(before, Flushers)
    BY DEF InFlight
  <1> HIDE DEF before, after
  <1>4. Plus(before[f], some) = some
    BY <1>2, PlusAdds
  <1>5. PlusAll(after, Flushers \cup {f}) = Plus(PlusAll(before, Flushers), some)
    <2>1. after[f] = IF f \in Flushers THEN Plus(before[f], some) ELSE some
      BY <1>2, <1>4
    <2>2. IsFiniteSet(Flushers) /\ \A g \in Flushers : before[g] \in Counts
      BY <1>1, <1>2
    <2>3. \A g \in Flushers \ {f} : after[g] = before[g]
      BY <1>2
    <2>4. QED
      BY <2>1, <2>2, <2>3, UpsertAdds
  <1>6. QED
    BY <1>1, <1>3, <1>5 DEF after

\* What is on its way has the form of counters.
LEMMA InFlightType ==
  ASSUME MetricsTypeOK
  PROVE  InFlight \in Counts
  <1>1. \A g \in Flushers : [k \in Flushers |-> flushing[k].counts][g] \in Counts
    BY DEF MetricsTypeOK
  <1>2. QED
    BY <1>1, MetricsAssumption, TotalType DEF InFlight

\* What is counted, taken out, written or lost stays one whole.
LEMMA MetricsKeepCounts ==
  ASSUME CountersInv, MetricsNext, clock' = clock
  PROVE  CountersInv'
  <1> DEFINE table == Total(DOMAIN hourly)
             moving == InFlight
  <1>0. /\ {counters, received, lost, moving, table} \subseteq Counts
        /\ flushing \in [Flushers -> [hour : Nat, counts : Counts]]
        /\ IsFiniteSet(DOMAIN hourly) /\ flushes \in Nat /\ clock \in Nat
        /\ \A h \in DOMAIN hourly : h \in Nat /\ hourly[h] \in Counts
        /\ received = Plus(Plus(counters, moving), Plus(lost, table)) /\ Balanced(counters)
    BY TotalType, InFlightType DEF CountersInv, CountsAreKept, MetricsTypeOK, Total
  <1> SUFFICES /\ {counters', received', lost'} \subseteq Counts
               /\ flushing' \in [Flushers -> [hour : Nat, counts : Counts]]
               /\ IsFiniteSet(DOMAIN hourly') /\ flushes' \in Nat
               /\ \A h \in DOMAIN hourly' : h \in Nat /\ hourly'[h] \in Counts
               /\ received' = Plus(Plus(counters', moving'), Plus(lost', table')) /\ Balanced(counters)'
    BY <1>0 DEF CountersInv, CountsAreKept, MetricsTypeOK
  <1>a. hourly' = hourly => table' = table
    BY DEF Total
  <1>b. flushing' = flushing => moving' = moving
    BY DEF InFlight
  <1>c. NoFlush \in [hour : Nat, counts : Counts] /\ NoFlush.counts = Zero
    BY PlusAdds DEF NoFlush
  <1>d. Empty(counters) => counters = Zero
    <2> SUFFICES ASSUME Empty(counters) PROVE counters = Zero
      OBVIOUS
    <2>1. counters.messages = 0 /\ counters.type["regex"] = 0 /\ counters.type["ai"] = 0
      BY <1>0 DEF Empty, Violations, Counts, Types
    <2>2. counters.severity["high"] = 0 /\ counters.severity["medium"] = 0 /\ counters.severity["low"] = 0
      <3>1. /\ counters.severity["high"] \in Nat /\ counters.severity["medium"] \in Nat
            /\ counters.severity["low"] \in Nat
        BY <1>0 DEF Counts, Severities
      <3>2. 0 = counters.severity["high"] + counters.severity["medium"] + counters.severity["low"]
        BY <1>0, <2>1 DEF Balanced, Violations
      <3>3. QED
        BY <3>1, <3>2
    <2>3. counters.type = [t \in Types |-> 0] /\ counters.severity = [s \in Severities |-> 0]
      BY <1>0, <2>1, <2>2 DEF Counts, Types, Severities
    <2>4. QED
      BY <1>0, <2>1, <2>3 DEF Counts, Zero
  <1>e. Balanced(Zero)
    BY DEF Balanced, Zero, Violations, Types, Severities
  <1> HIDE DEF table, moving
  <1>1. ASSUME NEW what \in Counts, Balanced(what), Count(what)
        PROVE  /\ {counters', received', lost'} \subseteq Counts /\ Balanced(counters)'
               /\ UNCHANGED <<hourly, flushing, flushes>>
               /\ received' = Plus(Plus(counters', moving'), Plus(lost', table'))
    <2>1. /\ counters' = Plus(counters, what) /\ received' = Plus(received, what)
          /\ hourly' = hourly /\ flushing' = flushing /\ flushes' = flushes /\ lost' = lost
      BY <1>1 DEF Count
    <2>2. Plus(counters, what) \in Counts /\ Plus(received, what) \in Counts
      BY <1>0, PlusAdds
    <2>3. Plus(received, what) = Plus(Plus(Plus(counters, what), moving), Plus(lost, table))
      BY <1>0, PlusShifts
    <2>4. Balanced(Plus(counters, what))
      BY <1>0, <1>1 DEF Balanced, Plus, Violations, Counts, Types, Severities
    <2>5. QED
      BY <1>0, <1>a, <1>b, <2>1, <2>2, <2>3, <2>4
  <1>2. ASSUME NEW f \in Flushers, TakeCounters(f)
        PROVE  /\ {counters', received', lost'} \subseteq Counts
               /\ flushing' \in [Flushers -> [hour : Nat, counts : Counts]]
               /\ flushes' \in Nat /\ hourly' = hourly /\ Balanced(counters)'
               /\ received' = Plus(Plus(counters', moving'), Plus(lost', table'))
    <2> DEFINE taken == [hour |-> clock \div Hour, counts |-> counters]
    <2>1. /\ counters' = Zero /\ flushes' = flushes + 1
          /\ hourly' = hourly /\ received' = received /\ lost' = lost /\ flushing[f] = NoFlush
          /\ flushing' = [flushing EXCEPT ![f] = IF Empty(counters) THEN NoFlush ELSE taken]
      BY <1>2 DEF TakeCounters
    <2>2. taken \in [hour : Nat, counts : Counts] /\ taken.counts = counters
      BY <1>0, MetricsAssumption
    <2> HIDE DEF taken
    <2>3. /\ flushing' \in [Flushers -> [hour : Nat, counts : Counts]]
          /\ \A g \in Flushers \ {f} : flushing'[g] = flushing[g]
          /\ flushing[f].counts = Zero /\ flushing'[f].counts = counters
      BY <1>0, <1>c, <1>d, <2>1, <2>2
    <2>4. moving' = Plus(moving, counters)
      BY <1>0, <2>3, TakenAdds DEF CountersInv, moving, InFlight
    <2>5. Plus(Plus(Zero, Plus(moving, counters)), Plus(lost, table)) = received
      <3>1. Plus(Zero, Plus(moving, counters)) = Plus(counters, moving)
        BY <1>0, PlusAdds
      <3>2. QED
        BY <1>0, <3>1
    <2>6. QED
      <3>1. received' = Plus(Plus(counters', moving'), Plus(lost', table'))
        BY <1>a, <2>1, <2>4, <2>5
      <3>2. Balanced(counters)'
        BY <1>e, <2>1 DEF Balanced
      <3>3. counters' \in Counts /\ received' \in Counts /\ lost' \in Counts /\ flushes' \in Nat
        <4>1. Zero \in Counts
          BY PlusAdds
        <4>2. counters' = Zero /\ received' = received /\ lost' = lost /\ flushes' = flushes + 1
          BY <2>1
        <4>3. received \in Counts /\ lost \in Counts /\ flushes \in Nat
          BY <1>0
        <4>4. flushes + 1 \in Nat
          BY <4>3
        <4>5. QED
          BY <4>1, <4>2, <4>3, <4>4
      <3>4. QED
        BY <2>1, <2>3, <3>1, <3>2, <3>3
  <1>3. ASSUME NEW f \in Flushers, FlushCounters(f)
        PROVE  /\ {counters', received', lost'} \subseteq Counts
               /\ flushing' \in [Flushers -> [hour : Nat, counts : Counts]]
               /\ IsFiniteSet(DOMAIN hourly') /\ flushes' \in Nat /\ Balanced(counters)'
               /\ \A h \in DOMAIN hourly' : h \in Nat /\ hourly'[h] \in Counts
               /\ received' = Plus(Plus(counters', moving'), Plus(lost', table'))
    <2> DEFINE some == flushing[f].counts
               hour == flushing[f].hour
    <2>1. /\ flushing' = [flushing EXCEPT ![f] = NoFlush] /\ UNCHANGED <<counters, flushes, received>>
          /\ some \in Counts /\ hour \in Nat
      BY <1>0, <1>3 DEF FlushCounters
    <2>2. /\ flushing' \in [Flushers -> [hour : Nat, counts : Counts]]
          /\ \A g \in Flushers \ {f} : flushing[g] = flushing'[g]
          /\ flushing'[f].counts = Zero
      BY <1>0, <1>c, <2>1
    <2>3. moving' \in Counts /\ moving = Plus(moving', some)
      <3>1. MetricsTypeOK' => moving' \in Counts
        <4>1. (\A g \in Flushers : [k \in Flushers |-> flushing'[k].counts][g] \in Counts)
                 => PlusAll([k \in Flushers |-> flushing'[k].counts], Flushers) \in Counts
          BY MetricsAssumption, TotalType
        <4>2. QED
          BY <2>2, <4>1 DEF moving, InFlight
      <3> DEFINE after == [g \in Flushers |-> flushing'[g].counts]
                 before == [g \in Flushers |-> flushing[g].counts]
      <3>2. /\ \A g \in Flushers : after[g] \in Counts
            /\ \A g \in Flushers \ {f} : before[g] = after[g]
            /\ after[f] = Zero /\ before[f] = some
        BY <1>0, <2>2
      <3>3. moving' = PlusAll(after, Flushers) /\ moving = PlusAll(before, Flushers)
        BY DEF moving, InFlight
      <3> HIDE DEF after, before, some
      <3>4. IsFiniteSet(Flushers) /\ Flushers \cup {f} = Flushers
        BY MetricsAssumption
      <3>5. Plus(after[f], some) = some
        BY <2>1, <3>2, PlusAdds
      <3>6. PlusAll(before, Flushers \cup {f}) = Plus(PlusAll(after, Flushers), some)
        BY <2>1, <3>2, <3>4, <3>5, UpsertAdds
      <3>7. PlusAll(after, Flushers) \in Counts
        BY <3>2, <3>4, TotalType
      <3>8. QED
        BY <3>3, <3>4, <3>6, <3>7
    <2>a. counters \in Counts /\ lost \in Counts /\ table \in Counts /\ some \in Counts /\ moving' \in Counts
      BY <1>0, <2>1, <2>3
    <2> HIDE DEF some, hour
    <2>4. CASE lost' = Plus(lost, some) /\ UNCHANGED hourly
      <3>1. Plus(lost, some) \in Counts
        BY <1>0, <2>1, PlusAdds
      <3>2. Plus(Plus(counters, Plus(moving', some)), Plus(lost, table))
               = Plus(Plus(counters, moving'), Plus(Plus(lost, some), table))
        BY <2>a, PlusMoves
      <3>3. QED
        BY <1>0, <1>a, <2>1, <2>2, <2>3, <2>4, <3>1, <3>2
    <2>5. CASE UpsertHour(hour, some) /\ UNCHANGED lost
      <3> DEFINE hours == DOMAIN hourly
      <3>1. /\ DOMAIN hourly' = hours \cup {hour}
            /\ \A h \in hours \ {hour} : hourly'[h] = hourly[h]
            /\ hourly'[hour] = IF hour \in hours THEN Plus(hourly[hour], some) ELSE some
        BY <2>5 DEF UpsertHour
      <3>2. PlusAll(hourly', hours \cup {hour}) = Plus(PlusAll(hourly, hours), some)
        BY <1>0, <2>1, <3>1, UpsertAdds
      <3>3. table' = Plus(table, some)
        BY <3>1, <3>2 DEF table, Total
      <3>4. Plus(Plus(counters, Plus(moving', some)), Plus(lost, table))
               = Plus(Plus(counters, moving'), Plus(lost, Plus(table, some)))
        BY <2>a, PlusMoves
      <3>5. IsFiniteSet(DOMAIN hourly')
        BY <1>0, <3>1, FS_AddElement
      <3>6. \A h \in DOMAIN hourly' : h \in Nat /\ hourly'[h] \in Counts
        <4>1. Plus(hourly[hour], some) \in Counts \/ hour \notin hours
          BY <1>0, <2>1, PlusAdds
        <4>2. QED
          BY <1>0, <2>1, <3>1, <4>1
      <3>7. QED
        BY <1>0, <2>1, <2>2, <2>3, <2>5, <3>3, <3>4, <3>5, <3>6
    <2>6. QED
      BY <1>3, <2>4, <2>5 DEF FlushCounters, some, hour
  <1>4. RecordMessage \/ (\E kind \in Kinds : RecordViolation(kind[1], kind[2]))
           => \E what \in Counts : Balanced(what) /\ Count(what)
    <2>1. [Zero EXCEPT !.messages = 1] \in Counts /\ Balanced([Zero EXCEPT !.messages = 1])
      BY DEF Zero, Counts, Balanced, Violations, Types, Severities
    <2>2. ASSUME NEW kind \in Kinds
          PROVE  LET what == [Zero EXCEPT !.type[kind[1]] = 1, !.severity[kind[2]] = 1]
                 IN  what \in Counts /\ Balanced(what)
      <3>1. kind[1] \in Types /\ kind[2] \in Severities
        BY MetricsAssumption
      <3> DEFINE what == [Zero EXCEPT !.type[kind[1]] = 1, !.severity[kind[2]] = 1]
      <3>2. what \in Counts
        BY <3>1 DEF Zero, Counts
      <3>3. /\ what.type = [t \in Types |-> IF t = kind[1] THEN 1 ELSE 0]
            /\ what.severity = [s \in Severities |-> IF s = kind[2] THEN 1 ELSE 0]
        BY <3>1 DEF Zero
      <3> HIDE DEF what
      <3>4. what.type["regex"] + what.type["ai"] = 1
        BY <3>1, <3>3 DEF Types
      <3>5. what.severity["high"] + what.severity["medium"] + what.severity["low"] = 1
        BY <3>1, <3>3 DEF Severities
      <3>6. QED
        BY <3>2, <3>4, <3>5 DEF Balanced, Violations, what
    <2>3. QED
      BY <2>1, <2>2 DEF RecordMessage, RecordViolation
  <1>5. QED
    BY <1>0, <1>1, <1>2, <1>3, <1>4 DEF MetricsNext

\* Beside the collector only the clock moves.
LEMMA CountersStep ==
  ASSUME CountersInv, [RecordsNext]_recordVars
  PROVE  CountersInv'
  <1>1. clock' = clock \/ clock' = clock + 1
    BY RecordsStepIsLogStep DEF LogStep, LogNext, logVars, Record, OpenPage, CountRows, FetchRows, NextPage,
                                ClosePage, Tick
  <1>2. CASE UNCHANGED metricVars
    <2>1. MetricsTypeOK' /\ IsFiniteSet(DOMAIN hourly')
      BY <1>2 DEF CountersInv, MetricsTypeOK, metricVars
    <2>2. CountsAreKept' /\ Balanced(counters)'
      BY <1>2 DEF CountersInv, CountsAreKept, InFlight, Total, metricVars
    <2>3. QED
      BY <1>1, <2>1, <2>2 DEF CountersInv
  <1>3. CASE MetricsNext /\ clock' = clock
    BY <1>3, MetricsKeepCounts
  <1>4. [RecordsNext]_recordVars => UNCHANGED metricVars \/ (MetricsNext /\ clock' = clock)
    <2>1. Pages \/ Tables \/ Collector => UNCHANGED metricVars \/ (MetricsNext /\ clock' = clock)
      BY AnswersReadOnly DEF Answering, Pages, Tables, Collector, MetricsNext, MetricsStep, logVars, WarningsChange
    <2>2. QED
      BY <2>1 DEF RecordsNext, recordVars, reportVars
  <1>5. QED
    BY <1>2, <1>3, <1>4

\* At first everything is zero.
LEMMA CountersBegin == ASSUME RecordsInit PROVE CountersInv
  <1>1. /\ counters = Zero /\ hourly = <<>> /\ flushing = [f \in Flushers |-> NoFlush] /\ flushes = 0
        /\ received = Zero /\ lost = Zero /\ clock = 0
    BY DEF RecordsInit, ReportsInit, MetricsInit, LogInit
  <1>2. DOMAIN hourly = {} /\ IsFiniteSet({})
    BY <1>1, EmptySeq, FS_EmptySet
  <1>3. Total(DOMAIN hourly) = Zero
    BY <1>2, TotalOfNone DEF Total
  <1>4. InFlight = Zero
    <2>1. [f \in Flushers |-> flushing[f].counts] = [f \in Flushers |-> Zero]
      BY <1>1 DEF NoFlush
    <2>2. QED
      BY <2>1, NothingTaken, MetricsAssumption DEF InFlight
  <1>5. Plus(Plus(Zero, Zero), Plus(Zero, Zero)) = Zero
    BY PlusAdds
  <1>6. CountsAreKept
    BY <1>1, <1>3, <1>4, <1>5 DEF CountsAreKept
  <1>7. MetricsTypeOK
    BY <1>1, <1>2, PlusAdds DEF MetricsTypeOK, NoFlush
  <1>8. QED
    BY <1>1, <1>2, <1>6, <1>7 DEF CountersInv, Balanced, Zero, Violations, Types, Severities

\* However flushes and counting overlap: what was received is in memory, on its
\* way, in the table or lost by a failed statement, and once.
THEOREM CountsAreKeptEver == RecordsSpec => []CountsAreKept
  <1>1. RecordsInit => CountersInv
    BY CountersBegin
  <1>2. CountersInv /\ [RecordsNext]_recordVars => CountersInv'
    BY CountersStep
  <1>3. CountersInv => CountsAreKept
    BY DEF CountersInv
  <1>4. QED
    BY <1>1, <1>2, <1>3, PTL DEF RecordsSpec

-----------------------------------------------------------------------------
(* Answers, put together of several states of the tables.                  *)

\* What every answer takes for granted of the tables: all is finite.
ReportInv ==
    /\ LogTypeOK /\ IsFiniteSet(rows)
    /\ MetricsTypeOK /\ IsFiniteSet(DOMAIN hourly)
    /\ IsFiniteSet(warned)

\* The statements an answer of a kind may have left.
LeftOf(kind) ==
    CASE kind = "offenders" ->
            {<<"list", "chart", "moderated", "seen">>, <<"chart", "moderated", "seen">>,
             <<"moderated", "seen">>, <<"seen">>, <<>>}
      [] kind = "health" ->
            {<<"counters", "hours", "rows", "previous", "hours", "rows", "actions">>,
             <<"hours", "rows", "previous", "hours", "rows", "actions">>,
             <<"rows", "previous", "hours", "rows", "actions">>,
             <<"previous", "hours", "rows", "actions">>,
             <<"hours", "rows", "actions">>, <<"rows", "actions">>, <<"actions">>, <<>>}
      [] kind = "metrics" ->
            {<<"counters", "hours", "rows", "series", "bars">>, <<"hours", "rows", "series", "bars">>,
             <<"rows", "series", "bars">>, <<"series", "bars">>, <<"bars">>, <<>>}
      [] kind = "dashboard" ->
            {<<"counters", "hours", "rows">>, <<"hours", "rows">>, <<"rows">>, <<>>}

\* Which statement comes when.
LEMMA OffendersLeft ==
  ASSUME NEW s \in LeftOf("offenders"), s # <<>>
  PROVE  /\ s \in Seq(StatementNames) /\ Tail(s) \in LeftOf("offenders")
         /\ Head(s) \in {"list", "chart", "moderated", "seen"}
         /\ Head(s) = "list" => s = <<"list", "chart", "moderated", "seen">> /\ Tail(s) = <<"chart", "moderated", "seen">>
         /\ Head(s) = "chart" => s = <<"chart", "moderated", "seen">> /\ Tail(s) = <<"moderated", "seen">>
         /\ Head(s) = "moderated" => s = <<"moderated", "seen">> /\ Tail(s) = <<"seen">>
         /\ Head(s) = "seen" => s = <<"seen">> /\ Tail(s) = <<>>
  <1>1. CASE s = <<"list", "chart", "moderated", "seen">>
    BY <1>1 DEF LeftOf, StatementNames
  <1>2. CASE s = <<"chart", "moderated", "seen">>
    BY <1>2 DEF LeftOf, StatementNames
  <1>3. CASE s = <<"moderated", "seen">>
    BY <1>3 DEF LeftOf, StatementNames
  <1>4. CASE s = <<"seen">>
    BY <1>4 DEF LeftOf, StatementNames
  <1>5. QED
    BY <1>1, <1>2, <1>3, <1>4 DEF LeftOf

LEMMA HealthLeft ==
  ASSUME NEW s \in LeftOf("health"), s # <<>>
  PROVE  /\ s \in Seq(StatementNames) /\ Tail(s) \in LeftOf("health")
         /\ Head(s) \in {"counters", "hours", "rows", "previous", "actions"}
         /\ Head(s) = "hours" => Tail(Tail(s)) \in LeftOf("health")
  <1>1. CASE s = <<"counters", "hours", "rows", "previous", "hours", "rows", "actions">>
    BY <1>1 DEF LeftOf, StatementNames
  <1>2. CASE s = <<"hours", "rows", "previous", "hours", "rows", "actions">>
    BY <1>2 DEF LeftOf, StatementNames
  <1>3. CASE s = <<"rows", "previous", "hours", "rows", "actions">>
    BY <1>3 DEF LeftOf, StatementNames
  <1>4. CASE s = <<"previous", "hours", "rows", "actions">>
    BY <1>4 DEF LeftOf, StatementNames
  <1>5. CASE s = <<"hours", "rows", "actions">>
    BY <1>5 DEF LeftOf, StatementNames
  <1>6. CASE s = <<"rows", "actions">>
    BY <1>6 DEF LeftOf, StatementNames
  <1>7. CASE s = <<"actions">>
    BY <1>7 DEF LeftOf, StatementNames
  <1>8. QED
    BY <1>1, <1>2, <1>3, <1>4, <1>5, <1>6, <1>7 DEF LeftOf

LEMMA MetricsLeft ==
  ASSUME NEW s \in LeftOf("metrics"), s # <<>>
  PROVE  /\ s \in Seq(StatementNames) /\ Tail(s) \in LeftOf("metrics")
         /\ Head(s) \in {"counters", "hours", "rows", "series", "bars"}
         /\ Head(s) = "counters" => s = <<"counters", "hours", "rows", "series", "bars">> /\ Tail(s) = <<"hours", "rows", "series", "bars">>
         /\ Head(s) = "hours" => s = <<"hours", "rows", "series", "bars">> /\ Tail(s) = <<"rows", "series", "bars">>
         /\ Head(s) = "rows" => s = <<"rows", "series", "bars">> /\ Tail(s) = <<"series", "bars">>
         /\ Head(s) = "series" => s = <<"series", "bars">> /\ Tail(s) = <<"bars">>
         /\ Head(s) = "bars" => s = <<"bars">> /\ Tail(s) = <<>>
         /\ Head(s) = "hours" => Tail(Tail(s)) = <<"series", "bars">>
         /\ Head(s) = "series" => Tail(Tail(s)) = <<>>
         /\ Head(s) \in {"hours", "series"} => Tail(Tail(s)) \in LeftOf("metrics")
  <1>1. CASE s = <<"counters", "hours", "rows", "series", "bars">>
    BY <1>1 DEF LeftOf, StatementNames
  <1>2. CASE s = <<"hours", "rows", "series", "bars">>
    BY <1>2 DEF LeftOf, StatementNames
  <1>3. CASE s = <<"rows", "series", "bars">>
    BY <1>3 DEF LeftOf, StatementNames
  <1>4. CASE s = <<"series", "bars">>
    BY <1>4 DEF LeftOf, StatementNames
  <1>5. CASE s = <<"bars">>
    BY <1>5 DEF LeftOf, StatementNames
  <1>6. QED
    BY <1>1, <1>2, <1>3, <1>4, <1>5 DEF LeftOf

LEMMA DashboardLeft ==
  ASSUME NEW s \in LeftOf("dashboard"), s # <<>>
  PROVE  /\ s \in Seq(StatementNames) /\ Tail(s) \in LeftOf("dashboard")
         /\ Head(s) \in {"counters", "hours", "rows"}
         /\ Head(s) = "counters" => s = <<"counters", "hours", "rows">> /\ Tail(s) = <<"hours", "rows">>
         /\ Head(s) = "hours" => /\ s = <<"hours", "rows">> /\ Tail(s) = <<"rows">>
                               /\ Tail(Tail(s)) = <<>> /\ Tail(Tail(s)) \in LeftOf("dashboard")
         /\ Head(s) = "rows" => s = <<"rows">> /\ Tail(s) = <<>>
  <1>1. CASE s = <<"counters", "hours", "rows">>
    BY <1>1 DEF LeftOf, StatementNames
  <1>2. CASE s = <<"hours", "rows">>
    BY <1>2 DEF LeftOf, StatementNames
  <1>3. CASE s = <<"rows">>
    BY <1>3 DEF LeftOf, StatementNames
  <1>4. QED
    BY <1>1, <1>2, <1>3 DEF LeftOf

\* Rows of a period are finitely many, and so is what is selected from them.
LEMMA PartsAreFinite ==
  ASSUME ReportInv, NEW some \in SUBSET rows
  PROVE  /\ IsFiniteSet(some) /\ Cardinality(some) \in Nat
         /\ \A part \in SUBSET some : IsFiniteSet(part) /\ Cardinality(part) \in Nat
                                      /\ Cardinality(part) <= Cardinality(some)
  BY FS_Subset, FS_CardinalityType DEF ReportInv

\* Offenders are finitely many, and their counts are of their rows.
LEMMA UsersCount ==
  ASSUME ReportInv
  PROVE  /\ Offenders \in SUBSET Users /\ IsFiniteSet(Offenders)
         /\ \A u \in Users : IsFiniteSet(Of(u)) /\ CountOf(u) \in Nat
         /\ \A u \in Offenders : CountOf(u) \in Nat \ {0}
  <1> DEFINE Posters == [r \in rows |-> UserOf(r)]
  <1>1. Offenders \in SUBSET Users
    BY DEF Offenders
  <1>2. Offenders = {Posters[r] : r \in rows}
    BY DEF Offenders, Of, UserOf, Users, ReportInv, LogTypeOK, Row
  <1> HIDE DEF Posters
  <1>3. IsFiniteSet(Offenders)
    BY <1>2, ImageIsFinite DEF ReportInv
  <1>4. ASSUME NEW u \in Users
        PROVE  IsFiniteSet(Of(u)) /\ CountOf(u) \in Nat
    <2>1. Of(u) \in SUBSET rows
      BY DEF Of
    <2>2. QED
      BY <2>1, PartsAreFinite DEF CountOf
  <1>5. ASSUME NEW u \in Offenders
        PROVE  CountOf(u) # 0
    <2>1. IsFiniteSet(Of(u)) /\ Of(u) # {}
      BY <1>1, <1>4 DEF Offenders
    <2>2. QED
      BY <2>1, FS_EmptySet DEF CountOf
  <1>6. QED
    BY <1>1, <1>3, <1>4, <1>5

\* Each violation has a type and a severity of a snapshot.
LEMMA CountedInType ==
  ASSUME ReportInv, NEW some \in SUBSET rows
  PROVE  CountedIn(some) \in Counts /\ CountedIn(some).messages = 0
  <1>1. /\ \A t \in Types : {r \in some : TypeOf(r) = t} \in SUBSET some
        /\ \A s \in Severities : {r \in some : SeverityOf(r) = s} \in SUBSET some
    OBVIOUS
  <1>2. \A part \in SUBSET some : Cardinality(part) \in Nat
    BY PartsAreFinite
  <1>3. QED
    BY <1>1, <1>2 DEF CountedIn, Counts

\* Any hours of the table add up to counters.
LEMMA TotalOfHours ==
  ASSUME ReportInv, NEW hours \in SUBSET (DOMAIN hourly)
  PROVE  Total(hours) \in Counts
  <1>1. IsFiniteSet(hours) /\ \A h \in hours : hourly[h] \in Counts
    BY FS_Subset DEF ReportInv, MetricsTypeOK
  <1>2. QED
    BY <1>1, TotalType DEF Total

\* Adding counters adds their violations.
LEMMA ViolationsAdd ==
  \A a, b \in Counts : Violations(Plus(a, b)) = Violations(a) + Violations(b) /\ Violations(a) \in Nat
  BY DEF Violations, Plus, Counts, Types

\* A period has a length.
LEMMA LengthType ==
  ASSUME NEW name
  PROVE  /\ Length(name, Hour) \in Nat /\ Length(name, Day) \in Nat
         /\ Length(name, 0) # 0 => Length(name, Hour) = Length(name, Day)
  BY MetricsAssumption, ReportsAssumption DEF Length

\* What an answer is while it is put together.
AnswerTypes ==
    \/ answer = NoAnswer
    \/ answer \in Offending /\ answer.todo \in LeftOf("offenders")
    \/ /\ answer \in Measuring /\ answer.todo \in LeftOf(answer.kind)
       /\ answer.kind # "health" => answer.to = "snapshot"

\* The statements about offenders are those of an answer about them.
LEMMA OffendingTypes ==
  ASSUME ReportInv, answer \in Offending, answer.todo \in LeftOf("offenders"), AnswerStep
  PROVE  answer' = NoAnswer \/ (answer' \in Offending /\ answer'.todo \in LeftOf("offenders"))
  <1>1. answer.todo # <<>> => Tail(answer.todo) \in LeftOf("offenders") /\ Tail(answer.todo) \in Seq(StatementNames)
    <2>1. \A s \in LeftOf("offenders") : s # <<>> => s \in Seq(StatementNames)
      BY OffendersLeft
    <2>2. <<>> \in Seq(StatementNames)
      OBVIOUS
    <2>3. QED
      BY <2>1, <2>2, OffendersLeft
  <1>2. CASE SelectList
    <2>1. ASSUME NEW top \in TopOf(Offenders, TopUsers, CountOf)
          PROVE  {[user |-> u, count |-> CountOf(u)] : u \in top} \in SUBSET [user : Users, count : Nat]
      BY UsersCount DEF TopOf
    <2>2. \/ \E list \in SUBSET [user : Users, count : Nat] : answer' = [answer EXCEPT !.todo = Rest, !.list = list]
          \/ answer' = [answer EXCEPT !.todo = Rest, !.failed = TRUE]
      BY <1>2, <2>1 DEF SelectList, Read
    <2>3. QED
      BY <1>1, <1>2, <2>2 DEF SelectList, At, Rest, Offending
  <1>3. CASE SelectChart
    <2>1. Distribution \in SUBSET (Nat \X Nat)
      <3>1. \A n : IsFiniteSet({u \in Offenders : CountOf(u) = n})
        BY UsersCount, FS_Subset
      <3>2. \A n : Cardinality({u \in Offenders : CountOf(u) = n}) \in Nat
        BY <3>1, FS_CardinalityType
      <3>3. \A u \in Offenders : CountOf(u) \in Nat
        BY UsersCount
      <3>4. ASSUME NEW p \in Distribution PROVE p \in Nat \X Nat
        <4>1. PICK u \in Offenders : p = <<CountOf(u), Cardinality({v \in Offenders : CountOf(v) = CountOf(u)})>>
          BY DEF Distribution
        <4>2. QED
          BY <3>2, <3>3, <4>1
      <3>5. QED
        BY <3>4
    <2>2. QED
      BY <1>1, <1>3, <2>1 DEF SelectChart, At, Read, Rest, Offending
  <1>4. CASE CountModerated
    <2>1. Cardinality(Offenders) \in Nat
      BY UsersCount, FS_CardinalityType
    <2>2. QED
      BY <1>1, <1>4, <2>1 DEF CountModerated, At, Read, Rest, Offending
  <1>5. CASE CountSeen
    <2>1. TotalUsersSeen \in Nat
      <3> DEFINE m == Cardinality(Offenders)
                 n == Cardinality(warned)
      <3>1. m \in Nat /\ n \in Nat
        BY UsersCount, FS_CardinalityType DEF ReportInv
      <3>2. TotalUsersSeen = CHOOSE k \in {m, n} : \A l \in {m, n} : k <= l
        BY DEF TotalUsersSeen
      <3> HIDE DEF m, n
      <3>3. \E k \in {m, n} : \A l \in {m, n} : k <= l
        BY <3>1
      <3>4. TotalUsersSeen \in {m, n}
        BY <3>2, <3>3
      <3>5. QED
        BY <3>1, <3>4
    <2>2. QED
      BY <1>1, <1>5, <2>1 DEF CountSeen, At, Read, Rest, Offending
  <1>6. CASE CloseAnswer
    BY <1>6 DEF CloseAnswer, Read
  <1>7. ~(ReadCounters \/ ReadHours \/ ReadRows \/ SelectSeries \/ SelectBars \/ StartPrevious \/ CountActions)
    <2>1. answer.todo # <<>> => Head(answer.todo) \in {"list", "chart", "moderated", "seen"}
      BY OffendersLeft
    <2>2. QED
      BY <2>1 DEF At, ReadCounters, ReadHours, ReadRows, SelectSeries, SelectBars, StartPrevious, CountActions
  <1>8. QED
    BY <1>2, <1>3, <1>4, <1>5, <1>6, <1>7 DEF AnswerStep

\* What a measuring answer has left after a statement.
LEMMA MeasuringLeft ==
  ASSUME answer \in Measuring, answer.todo \in LeftOf(answer.kind), answer.todo # <<>>
  PROVE  /\ Tail(answer.todo) \in Seq(StatementNames) /\ Tail(answer.todo) \in LeftOf(answer.kind)
         /\ Head(answer.todo) \in {"hours", "series"} =>
               /\ Tail(Tail(answer.todo)) \in Seq(StatementNames)
               /\ Tail(Tail(answer.todo)) \in LeftOf(answer.kind)
         /\ Head(answer.todo) \notin {"list", "chart", "moderated", "seen"}
         /\ Head(answer.todo) = "previous" => answer.kind = "health"
         /\ Head(answer.todo) = "series" => answer.kind = "metrics"
  <1>1. <<>> \in Seq(StatementNames)
    OBVIOUS
  <1>2. CASE answer.kind = "health"
    <2>1. \A s \in LeftOf("health") : s \in Seq(StatementNames)
      BY <1>1, HealthLeft
    <2>2. Head(answer.todo) # "series"
      BY <1>2, HealthLeft
    <2>3. QED
      BY <1>2, <2>1, <2>2, HealthLeft
  <1>3. CASE answer.kind = "metrics"
    <2>1. \A s \in LeftOf("metrics") : s \in Seq(StatementNames)
      BY <1>1, MetricsLeft
    <2>2. QED
      BY <1>3, <2>1, MetricsLeft
  <1>4. CASE answer.kind = "dashboard"
    <2>1. \A s \in LeftOf("dashboard") : s \in Seq(StatementNames)
      BY <1>1, DashboardLeft
    <2>2. QED
      BY <1>4, <2>1, DashboardLeft
  <1>5. QED
    BY <1>2, <1>3, <1>4 DEF Measuring

\* The statements of a measuring answer keep its counters counters.
LEMMA MeasuringTypes ==
  ASSUME ReportInv, answer \in Measuring, answer.todo \in LeftOf(answer.kind),
         answer.kind # "health" => answer.to = "snapshot", AnswerStep
  PROVE  AnswerTypes'
  <1> DEFINE Fine(a) == a \in Measuring /\ a.todo \in LeftOf(a.kind) /\ (a.kind # "health" => a.to = "snapshot")
  <1>1. SUFFICES answer' = NoAnswer \/ Fine(answer')
    BY DEF AnswerTypes
  <1>2. clock \in Nat /\ counters \in Counts /\ answer.snapshot \in Counts /\ answer.before \in Counts
    BY DEF ReportInv, LogTypeOK, MetricsTypeOK, Measuring
  <1>3. Total(DOMAIN hourly) \in Counts /\ Total(HoursSince(answer.cutoff)) \in Counts
        /\ Total(DOMAIN hourly \ HoursSince(answer.cutoff)) \in Counts
    BY TotalOfHours DEF HoursSince
  <1>4. \A c \in Counts : c.messages \in Nat
    BY DEF Counts
  <1>5. answer.to \in {"snapshot", "before"} /\ answer[answer.to] \in Counts
    BY DEF Measuring
  <1>7. CASE ReadCounters
    <2>1. Plus(answer.snapshot, counters) \in Counts
      BY <1>2, PlusAdds
    <2> DEFINE owed == counters.messages + Total(DOMAIN hourly).messages
    <2>1a. owed \in Nat
      BY <1>2, <1>3, <1>4
    <2>2. clock - Length(answer.period, Hour) \in Int
      BY <1>2, LengthType
    <2>3. Rest \in LeftOf(answer.kind) /\ Rest \in Seq(StatementNames)
      BY <1>7, MeasuringLeft DEF ReadCounters, At, Rest
    <2>4. answer' = [answer EXCEPT !.todo = Rest, !.snapshot = Plus(answer.snapshot, counters),
                           !.cutoff = clock - Length(answer.period, Hour),
                           !.owed = owed,
                           !.flushed = \E f \in Flushers : flushing[f] # NoFlush]
      BY <1>7 DEF ReadCounters, Read, Measuring
    <2> HIDE DEF owed
    <2>5. QED
      BY <2>1, <2>1a, <2>2, <2>3, <2>4 DEF Measuring
  <1>8. CASE ReadHours
    <2>1. /\ Rest \in LeftOf(answer.kind) /\ Rest \in Seq(StatementNames)
          /\ Tail(Rest) \in LeftOf(answer.kind) /\ Tail(Rest) \in Seq(StatementNames)
      BY <1>8, MeasuringLeft DEF ReadHours, At, Rest
    <2>2. /\ Plus(answer[answer.to], Total(HoursSince(answer.cutoff))) \in Counts /\ Zero \in Counts
          /\ Total(DOMAIN hourly \ HoursSince(answer.cutoff)).messages \in Nat
          /\ Total(DOMAIN hourly).messages \in Nat
      BY <1>3, <1>4, <1>5, PlusAdds
    <2>3. \/ answer' = [answer EXCEPT !.todo = Tail(Rest),
                              ![answer.to] = Plus(answer[answer.to], Total(HoursSince(answer.cutoff))),
                              !.left = Total(DOMAIN hourly \ HoursSince(answer.cutoff)).messages]
          \/ answer' = [answer EXCEPT !.todo = Rest, !.left = Total(DOMAIN hourly).messages]
          \/ answer' = [answer EXCEPT !.todo = Tail(Rest), ![answer.to] = Zero, !.failed = TRUE]
          \/ answer' = NoAnswer
      BY <1>8 DEF ReadHours, Read
    <2>4. CASE answer' = [answer EXCEPT !.todo = Rest, !.left = Total(DOMAIN hourly).messages]
      BY <2>1, <2>2, <2>4 DEF Measuring
    <2>5. ASSUME NEW c \in Counts, NEW left \in Nat,
                 answer' = [answer EXCEPT !.todo = Tail(Rest), ![answer.to] = c, !.left = left]
          PROVE  Fine(answer')
      <3>1. CASE answer.to = "snapshot"
        BY <2>1, <2>5, <3>1 DEF Measuring
      <3>2. CASE answer.to = "before"
        BY <2>1, <2>5, <3>2 DEF Measuring
      <3>3. QED
        BY <1>5, <3>1, <3>2
    <2>6. CASE answer' = [answer EXCEPT !.todo = Tail(Rest), ![answer.to] = Zero, !.failed = TRUE]
      <3>1. CASE answer.to = "snapshot"
        BY <2>1, <2>2, <2>6, <3>1 DEF Measuring
      <3>2. CASE answer.to = "before"
        BY <2>1, <2>2, <2>6, <3>2 DEF Measuring
      <3>3. QED
        BY <1>5, <3>1, <3>2
    <2> HIDE DEF Fine
    <2>7. QED
      BY <2>2, <2>3, <2>4, <2>5, <2>6
  <1>9. CASE ReadRows
    <2> DEFINE some == Since(answer.cutoff)
    <2>1. Rest \in LeftOf(answer.kind) /\ Rest \in Seq(StatementNames)
      BY <1>9, MeasuringLeft DEF ReadRows, At, Rest
    <2>2. some \in SUBSET rows /\ some \in SUBSET Row
      BY DEF Since, ReportInv, LogTypeOK
    <2>3. Plus(answer[answer.to], CountedIn(some)) \in Counts
      BY <1>5, <2>2, CountedInType, PlusAdds
    <2>4. \/ answer' = [answer EXCEPT !.todo = Rest, ![answer.to] = Plus(answer[answer.to], CountedIn(some)),
                              !.counted = IF answer.to = "snapshot" THEN some ELSE answer.counted]
          \/ answer' = [answer EXCEPT !.todo = Rest, !.failed = TRUE]
      BY <1>9 DEF ReadRows, Read
    <2>5. CASE answer' = [answer EXCEPT !.todo = Rest, !.failed = TRUE]
      BY <2>1, <2>5 DEF Measuring
    <2>6. ASSUME NEW c \in Counts, NEW counted \in SUBSET Row,
                 answer' = [answer EXCEPT !.todo = Rest, ![answer.to] = c, !.counted = counted]
          PROVE  Fine(answer')
      <3>1. CASE answer.to = "snapshot"
        BY <2>1, <2>6, <3>1 DEF Measuring
      <3>2. CASE answer.to = "before"
        BY <2>1, <2>6, <3>2 DEF Measuring
      <3>3. QED
        BY <1>5, <3>1, <3>2
    <2>7. (IF answer.to = "snapshot" THEN some ELSE answer.counted) \in SUBSET Row
      BY <2>2 DEF Measuring
    <2> HIDE DEF Fine, some
    <2>8. QED
      BY <2>3, <2>4, <2>5, <2>6, <2>7
  <1>10. clock - Length(answer.period, Day) \in Int
    BY <1>2, LengthType
  <1>11. CASE SelectSeries
    <2>1. /\ Rest \in LeftOf(answer.kind) /\ Rest \in Seq(StatementNames)
          /\ Tail(Rest) \in LeftOf(answer.kind) /\ Tail(Rest) \in Seq(StatementNames)
      BY <1>11, MeasuringLeft DEF SelectSeries, At, Rest
    <2> DEFINE since == clock - Length(answer.period, Day)
               kept == {h \in DOMAIN hourly : h * Hour >= since}
               bars == {<<h, Violations(hourly[h])>> : h \in kept}
    <2>2. bars \in SUBSET (Nat \X Nat)
      <3>1. \A h \in kept : h \in Nat /\ hourly[h] \in Counts
        BY DEF ReportInv, MetricsTypeOK
      <3>2. \A c \in Counts : Violations(c) \in Nat
        BY ViolationsAdd
      <3> HIDE DEF kept
      <3>3. QED
        BY <3>1, <3>2
    <2>3. \/ answer' = [answer EXCEPT !.todo = Tail(Rest), !.since = since, !.series = bars]
          \/ answer' = [answer EXCEPT !.todo = Rest, !.since = since, !.failed = (kept # {})]
      BY <1>11 DEF SelectSeries, Read
    <2>4. since \in Int /\ (kept # {}) \in BOOLEAN
      BY <1>10
    <2> DEFINE none == kept # {}
    <2> HIDE DEF since, kept, bars
    <2>5. CASE answer' = [answer EXCEPT !.todo = Tail(Rest), !.since = since, !.series = bars]
      BY <2>1, <2>2, <2>4, <2>5 DEF Measuring
    <2>6. CASE answer' = [answer EXCEPT !.todo = Rest, !.since = since, !.failed = none]
      <3> HIDE DEF none
      <3>1. none \in BOOLEAN
        BY DEF none
      <3>2. QED
        BY <2>1, <2>4, <2>6, <3>1 DEF Measuring
    <2>7. QED
      BY <2>3, <2>5, <2>6
  <1>12. CASE SelectBars
    <2>1. Rest \in LeftOf(answer.kind) /\ Rest \in Seq(StatementNames)
      BY <1>12, MeasuringLeft DEF SelectBars, At, Rest
    <2> DEFINE since == clock - Length(answer.period, Day)
               bars == Bars(Since(since))
    <2>2. bars \in SUBSET (Nat \X Nat)
      <3>1. Since(since) \in SUBSET rows
        BY DEF Since
      <3>2. \A h : Cardinality({r \in Since(since) : r.at \div Hour = h}) \in Nat
        BY <3>1, PartsAreFinite
      <3>3. \A r \in Since(since) : r.at \div Hour \in Nat
        BY <3>1, MetricsAssumption DEF ReportInv, LogTypeOK, Row
      <3>4. ASSUME NEW p \in bars PROVE p \in Nat \X Nat
        <4>1. PICK r \in Since(since) :
                 p = <<r.at \div Hour, Cardinality({s \in Since(since) : s.at \div Hour = r.at \div Hour})>>
          BY DEF Bars
        <4>2. QED
          BY <3>2, <3>3, <4>1
      <3>5. QED
        BY <3>4
    <2>3. \/ answer' = [answer EXCEPT !.todo = Rest, !.since = since, !.series = bars]
          \/ answer' = [answer EXCEPT !.todo = Rest, !.failed = TRUE]
      BY <1>12 DEF SelectBars, Read
    <2>4. since \in Int
      BY <1>10
    <2> HIDE DEF since, bars
    <2>5. CASE answer' = [answer EXCEPT !.todo = Rest, !.since = since, !.series = bars]
      BY <2>1, <2>2, <2>4, <2>5 DEF Measuring
    <2>6. CASE answer' = [answer EXCEPT !.todo = Rest, !.failed = TRUE]
      BY <2>1, <2>6 DEF Measuring
    <2>7. QED
      BY <2>3, <2>5, <2>6
  <1>13. CASE StartPrevious
    <2>1. /\ Rest \in LeftOf(answer.kind) /\ Rest \in Seq(StatementNames) /\ answer.kind = "health"
      BY <1>13, MeasuringLeft DEF StartPrevious, At, Rest
    <2>2. clock - 2 * Day \in Int
      BY <1>2, ReportsAssumption
    <2>3. answer' = [answer EXCEPT !.todo = Rest, !.to = "before", !.cutoff = clock - 2 * Day]
      BY <1>13 DEF StartPrevious, Read
    <2>4. QED
      BY <2>1, <2>2, <2>3 DEF Measuring
  <1>14. CASE CountActions
    <2>1. Rest \in LeftOf(answer.kind) /\ Rest \in Seq(StatementNames)
      BY <1>14, MeasuringLeft DEF CountActions, At, Rest
    <2> DEFINE some == Since(clock - Day)
               acted == [a \in Actions |-> Cardinality({r \in some : r.entry.action = a})]
               total == Cardinality(some)
    <2>2. some \in SUBSET rows
      BY DEF Since
    <2>3. acted \in [Actions -> Nat] /\ total \in Nat
      BY <2>2, PartsAreFinite
    <2>4. \/ answer' = [answer EXCEPT !.todo = Rest, !.total = total, !.acted = acted]
          \/ answer' = [answer EXCEPT !.todo = Rest, !.failed = TRUE]
      BY <1>14 DEF CountActions, Read
    <2> HIDE DEF some, acted, total
    <2>5. CASE answer' = [answer EXCEPT !.todo = Rest, !.total = total, !.acted = acted]
      BY <2>1, <2>3, <2>5 DEF Measuring
    <2>6. CASE answer' = [answer EXCEPT !.todo = Rest, !.failed = TRUE]
      BY <2>1, <2>6 DEF Measuring
    <2>7. QED
      BY <2>4, <2>5, <2>6
  <1>15. CASE CloseAnswer
    BY <1>15 DEF CloseAnswer, Read
  <1>16. ~(SelectList \/ SelectChart \/ CountModerated \/ CountSeen)
    BY MeasuringLeft DEF At, SelectList, SelectChart, CountModerated, CountSeen
  <1>17. QED
    BY <1>7, <1>8, <1>9, <1>11, <1>12, <1>13, <1>14, <1>15, <1>16 DEF AnswerStep


-----------------------------------------------------------------------------
(* What may happen while an answer is put together.                        *)

Measures == {"health", "metrics", "dashboard"}

\* The tables, and the answer that is made of them.
TablesInv == PagesInv /\ CountersInv /\ IsFiniteSet(warned) /\ AnswerTypes

LEMMA TablesFit == TablesInv => ReportInv
  BY DEF TablesInv, PagesInv, CountersInv, ReportInv

\* At first the tables are empty, and nothing was asked.
LEMMA TablesBegin == ASSUME RecordsInit PROVE TablesInv
  <1>1. warned = {} /\ answer = NoAnswer
    BY DEF RecordsInit, ReportsInit
  <1>2. QED
    BY <1>1, PagesBegin, CountersBegin, FS_EmptySet DEF TablesInv, AnswerTypes

\* An answer stays as it is, or a flush is noted in it ...
Stays == answer' = answer /\ (answer.kind \in Measures => flushing' = flushing)
Noted == answer.kind \in Measures /\ answer' = [answer EXCEPT !.flushed = TRUE]

\* ... or it is begun, or goes one statement further.
Begins ==
    \/ GetTopOffenders
    \/ \E kind \in Measures, name \in Periods \cup {"day"} : Measure(kind, name)

LEMMA AnswerCases ==
  ASSUME [RecordsNext]_recordVars
  PROVE  Stays \/ Noted \/ Begins \/ AnswerStep
  <1>1. CASE UNCHANGED <<answer, flushing>>
    BY <1>1 DEF Stays
  <1>2. CASE MetricsStep
    BY <1>2 DEF MetricsStep, Stays, Noted, Measures
  <1>3. CASE GetTopOffenders \/ GetHealth \/ \E name \in Periods : GetMetrics(name) \/ HandleDashboard(name)
    BY <1>3 DEF GetHealth, GetMetrics, HandleDashboard, Begins, Measures
  <1>4. CASE AnswerStep
    BY <1>4
  <1>5. UNCHANGED <<answer, flushing>> \/ MetricsStep \/ AnswerStep
           \/ GetTopOffenders \/ GetHealth \/ (\E name \in Periods : GetMetrics(name) \/ HandleDashboard(name))
    <2>1. Pages => UNCHANGED <<answer, flushing>>
      BY DEF Pages, metricVars
    <2>2. CASE Tables
      BY <2>2 DEF Tables, metricVars, RecordMessage, Count, WarningsChange
    <2>3. CASE Collector
      BY <2>3 DEF Collector, metricVars
    <2>4. RecordsNext /\ ~(Pages \/ Tables \/ Collector) => UNCHANGED <<answer, flushing>>
      BY DEF RecordsNext, metricVars
    <2>5. UNCHANGED recordVars => UNCHANGED <<answer, flushing>>
      BY DEF recordVars, reportVars, metricVars
    <2>6. QED
      BY <2>1, <2>2, <2>3, <2>4, <2>5
  <1>6. QED
    BY <1>1, <1>2, <1>3, <1>4, <1>5

\* A statement runs in one state of the tables.
LEMMA StatementsRead ==
  Begins \/ AnswerStep => UNCHANGED <<logVars, metricVars, warned>>
  BY DEF Begins, GetTopOffenders, Measure, AnswerStep, SelectList,
         SelectChart, CountModerated, CountSeen, ReadCounters, ReadHours, ReadRows, SelectSeries, SelectBars,
         StartPrevious, CountActions, CloseAnswer, Read

\* Rows stay, time goes on, and hours are only written by a flush that ends.
LEMMA TablesGrow ==
  ASSUME TablesInv, [RecordsNext]_recordVars
  PROVE  /\ rows \subseteq rows' /\ clock <= clock'
         /\ flushing' = flushing => hourly' = hourly
         /\ Total(DOMAIN hourly)'.messages >= Total(DOMAIN hourly).messages
  <1>1. rows \subseteq rows' /\ clock <= clock'
    BY RecordsStepIsLogStep DEF LogStep, LogNext, logVars, Record, OpenPage, CountRows, FetchRows, NextPage,
                                ClosePage, Tick, TablesInv, PagesInv, LogTypeOK
  <1>2. Total(DOMAIN hourly) \in Counts
    BY TablesFit, TotalOfHours
  <1>3. CASE hourly' = hourly
    <2>1. Total(DOMAIN hourly)' = Total(DOMAIN hourly)
      BY <1>3 DEF Total
    <2>2. QED
      BY <1>1, <1>2, <1>3, <2>1 DEF Counts
  <1>4. ASSUME NEW f \in Flushers, FlushCounters(f), UpsertHour(flushing[f].hour, flushing[f].counts)
        PROVE  /\ flushing' # flushing
               /\ Total(DOMAIN hourly)'.messages >= Total(DOMAIN hourly).messages
    <2> DEFINE hour == flushing[f].hour
               some == flushing[f].counts
               hours == DOMAIN hourly
    <2>1. flushing \in [Flushers -> [hour : Nat, counts : Counts]] /\ IsFiniteSet(hours)
          /\ \A h \in hours : hourly[h] \in Counts
      BY DEF TablesInv, CountersInv, MetricsTypeOK
    <2>2. flushing' # flushing
      BY <1>4, <2>1 DEF FlushCounters
    <2>3. /\ DOMAIN hourly' = hours \cup {hour}
          /\ \A h \in hours \ {hour} : hourly'[h] = hourly[h]
          /\ hourly'[hour] = IF hour \in hours THEN Plus(hourly[hour], some) ELSE some
      BY <1>4 DEF UpsertHour
    <2>4. some \in Counts
      BY <2>1
    <2>5. PlusAll(hourly', hours \cup {hour}) = Plus(PlusAll(hourly, hours), some)
      <3> HIDE DEF hour, some, hours
      <3>1. QED
        BY <2>1, <2>3, <2>4, UpsertAdds
    <2>6. Total(DOMAIN hourly)' = Plus(Total(DOMAIN hourly), some)
      BY <2>3, <2>5 DEF Total
    <2>7. Plus(Total(DOMAIN hourly), some).messages >= Total(DOMAIN hourly).messages
      <3> DEFINE t == Total(DOMAIN hourly)
      <3>1. t \in Counts
        BY <1>2
      <3> HIDE DEF t, some
      <3>2. Plus(t, some).messages >= t.messages
        BY <2>4, <3>1 DEF Plus, Counts
      <3>3. QED
        BY <3>2 DEF t
    <2>8. QED
      BY <2>2, <2>6, <2>7
  <1>5. hourly' = hourly \/ \E f \in Flushers : FlushCounters(f) /\ UpsertHour(flushing[f].hour, flushing[f].counts)
    <2>1. MetricsNext => hourly' = hourly
                         \/ \E f \in Flushers : FlushCounters(f) /\ UpsertHour(flushing[f].hour, flushing[f].counts)
      BY DEF MetricsNext, RecordMessage, RecordViolation, Count, TakeCounters, FlushCounters
    <2>2. hourly' = hourly \/ MetricsNext
      <3>1. Pages \/ Tables \/ Collector => hourly' = hourly \/ MetricsNext
        BY AnswersReadOnly DEF Answering, Pages, Tables, Collector, MetricsNext, MetricsStep, metricVars, WarningsChange
      <3>2. QED
        BY <3>1 DEF RecordsNext, recordVars, reportVars, metricVars
    <2>3. QED
      BY <2>1, <2>2
  <1>6. QED
    BY <1>1, <1>3, <1>4, <1>5

\* Beside the rows, users with warnings come and go one at a time.
LEMMA WarnedStep ==
  ASSUME IsFiniteSet(warned), [RecordsNext]_recordVars
  PROVE  IsFiniteSet(warned')
  <1>1. warned' = warned \/ \E u : warned' = warned \cup {u} \/ warned' = warned \ {u}
    <2>1. CASE Pages \/ Tables \/ Collector
      BY <2>1, AnswersReadOnly DEF Answering, Pages, Tables, Collector, WarningsChange, MetricsStep
    <2>2. CASE Appeal!Next
      BY <2>2 DEF Appeal!Next, Appeal!CreateAppeal, Appeal!ResolveAppeal, Appeal!InsertAppeal, Appeal!GetAppeal,
                  Appeal!ClearWarnings, Appeal!Warn
    <2>3. CASE UNCHANGED warned
      BY <2>3
    <2>4. QED
      BY <2>1, <2>2, <2>3 DEF RecordsNext, recordVars, reportVars
  <1>2. \A u : IsFiniteSet(warned \cup {u}) /\ IsFiniteSet(warned \ {u})
    BY FS_AddElement, FS_RemoveElement
  <1>3. QED
    BY <1>1, <1>2

\* An answer is begun with all of its statements left.
LEMMA BeginsTyped ==
  ASSUME Begins
  PROVE  /\ answer = NoAnswer
         /\ \/ /\ answer' = [kind |-> "offenders", todo |-> <<"list", "chart", "moderated", "seen">>, failed |-> FALSE,
                             list |-> {}, chart |-> {}, moderated |-> 0, seen |-> 0]
               /\ answer' \in Offending /\ answer'.todo \in LeftOf("offenders")
            \/ /\ answer' \in Measuring /\ answer'.todo \in LeftOf(answer'.kind)
               /\ answer'.to = "snapshot" /\ answer'.snapshot = Zero /\ answer'.counted = {}
               /\ answer'.todo = Statements(answer'.kind)
  <1>1. CASE GetTopOffenders
    <2>1. Statements("offenders") = <<"list", "chart", "moderated", "seen">>
      BY DEF Statements
    <2>2. <<"list", "chart", "moderated", "seen">> \in LeftOf("offenders")
      BY DEF LeftOf
    <2>3. <<"list", "chart", "moderated", "seen">> \in Seq(StatementNames)
      BY DEF StatementNames
    <2>4. QED
      BY <1>1, <2>1, <2>2, <2>3 DEF GetTopOffenders, Read, Offending
  <1>2. ASSUME NEW kind \in Measures, NEW name \in Periods \cup {"day"}, Measure(kind, name)
        PROVE  /\ answer = NoAnswer
               /\ answer' \in Measuring /\ answer'.todo \in LeftOf(answer'.kind)
               /\ answer'.to = "snapshot" /\ answer'.snapshot = Zero /\ answer'.counted = {}
               /\ answer'.todo = Statements(answer'.kind)
    <2>1. Statements(kind) \in LeftOf(kind)
      BY DEF Statements, LeftOf, Measures
    <2>2. Statements(kind) \in Seq(StatementNames)
      <3>1. CASE kind = "health"
        BY <3>1 DEF Statements, StatementNames
      <3>2. CASE kind = "metrics"
        BY <3>2 DEF Statements, StatementNames
      <3>3. CASE kind = "dashboard"
        BY <3>3 DEF Statements, StatementNames
      <3>4. QED
        BY <3>1, <3>2, <3>3 DEF Measures
    <2>3. Zero \in Counts
      BY PlusAdds
    <2>4. QED
      BY <1>2, <2>1, <2>2, <2>3 DEF Measure, Read, Measuring, Measures
  <1>3. QED
    BY <1>1, <1>2 DEF Begins

\* Every step keeps the tables, and the answer an answer.
LEMMA TablesStep ==
  ASSUME TablesInv, [RecordsNext]_recordVars
  PROVE  TablesInv'
  <1>1. PagesInv' /\ CountersInv' /\ IsFiniteSet(warned')
    BY RecordsStepIsLogStep, PagesStep, CountersStep, WarnedStep DEF TablesInv
  <1>2. CASE Stays
    BY <1>1, <1>2 DEF Stays, TablesInv, AnswerTypes
  <1>3. CASE Noted
    <2>1. answer \in Measuring /\ answer.todo \in LeftOf(answer.kind) /\ (answer.kind # "health" => answer.to = "snapshot")
      BY <1>3 DEF Noted, Measures, TablesInv, AnswerTypes, NoAnswer, Offending
    <2>2. answer' \in Measuring /\ answer'.todo = answer.todo /\ answer'.kind = answer.kind /\ answer'.to = answer.to
      BY <1>3, <2>1 DEF Noted, Measuring
    <2>3. QED
      BY <1>1, <2>1, <2>2 DEF TablesInv, AnswerTypes
  <1>4. CASE Begins
    BY <1>1, <1>4, BeginsTyped DEF TablesInv, AnswerTypes
  <1>5. CASE AnswerStep
    <2>1. CASE answer = NoAnswer
      <3>1. ~AnswerStep
        BY <2>1 DEF AnswerStep, SelectList, SelectChart, CountModerated, CountSeen, ReadCounters, ReadHours, ReadRows,
                    SelectSeries, SelectBars, StartPrevious, CountActions, CloseAnswer, At
      <3>2. QED
        BY <1>5, <3>1
    <2>2. CASE answer \in Offending /\ answer.todo \in LeftOf("offenders")
      BY <1>1, <1>5, <2>2, TablesFit, OffendingTypes DEF TablesInv, AnswerTypes
    <2>3. CASE answer \in Measuring /\ answer.todo \in LeftOf(answer.kind)
               /\ (answer.kind # "health" => answer.to = "snapshot")
      BY <1>1, <1>5, <2>3, TablesFit, MeasuringTypes DEF TablesInv
    <2>4. QED
      BY <2>1, <2>2, <2>3 DEF TablesInv, AnswerTypes
  <1>6. QED
    BY <1>2, <1>3, <1>4, <1>5, AnswerCases

\* A measuring answer goes on as one of its kind, or is sent or given up.
LEMMA MeasuringKind ==
  ASSUME answer \in Measuring, answer.todo \in LeftOf(answer.kind), AnswerStep
  PROVE  answer' = NoAnswer \/ answer'.kind = answer.kind
  <1>1. ~(SelectList \/ SelectChart \/ CountModerated \/ CountSeen)
    BY MeasuringLeft DEF At, SelectList, SelectChart, CountModerated, CountSeen
  <1>2. answer.to # "kind"
    BY DEF Measuring
  <1>3. CASE ReadCounters
    BY <1>3 DEF ReadCounters, Read, Measuring
  <1>4. CASE ReadHours
    BY <1>2, <1>4 DEF ReadHours, Read, Measuring
  <1>5. CASE ReadRows
    BY <1>2, <1>5 DEF ReadRows, Read, Measuring
  <1>6. CASE SelectSeries \/ SelectBars
    BY <1>6 DEF SelectSeries, SelectBars, Read, Measuring
  <1>7. CASE StartPrevious \/ CountActions \/ CloseAnswer
    BY <1>7 DEF StartPrevious, CountActions, CloseAnswer, Read, Measuring
  <1>8. QED
    BY <1>1, <1>3, <1>4, <1>5, <1>6, <1>7 DEF AnswerStep

\* What is noted in an answer leaves its kind.
LEMMA NotedKind ==
  ASSUME TablesInv, Noted
  PROVE  answer \in Measuring /\ answer'.kind = answer.kind
  <1>1. answer \in Measuring
    BY DEF Noted, Measures, TablesInv, AnswerTypes, NoAnswer, Offending
  <1>2. QED
    BY <1>1 DEF Noted, Measuring

\* A statement about offenders makes no other answer, nor one of another kind.
LEMMA OtherKinds ==
  ASSUME TablesInv, AnswerStep, answer' \in Measuring
  PROVE  answer \in Measuring /\ answer'.kind = answer.kind
  <1>1. answer' # NoAnswer /\ answer' \notin Offending
    BY DEF NoAnswer, Measuring, Offending
  <1>2. answer # NoAnswer
    <2>1. answer = NoAnswer => ~AnswerStep
      BY DEF AnswerStep, SelectList, SelectChart, CountModerated, CountSeen, ReadCounters, ReadHours, ReadRows,
             SelectSeries, SelectBars, StartPrevious, CountActions, CloseAnswer, At
    <2>2. QED
      BY <2>1
  <1>3. ReportInv
    BY TablesFit
  <1>4. ~(answer \in Offending /\ answer.todo \in LeftOf("offenders"))
    BY <1>1, <1>3, OffendingTypes
  <1>5. answer \in Measuring /\ answer.todo \in LeftOf(answer.kind)
    BY <1>2, <1>4 DEF TablesInv, AnswerTypes
  <1>6. QED
    BY <1>1, <1>5, MeasuringKind

-----------------------------------------------------------------------------
(* The list of offenders and its chart.                                    *)

\* Users with n violations or more.
WithAtLeast(n) == {u \in Offenders : CountOf(u) >= n}

\* A chart of the users' counts has as many users with n or more as there are.
LEMMA ChartCounts ==
  ASSUME ReportInv, NEW n \in Nat
  PROVE  UsersWith(Distribution, n) = Cardinality(WithAtLeast(n))
  <1> DEFINE cl == [u \in Offenders |-> <<CountOf(u), Cardinality({v \in Offenders : CountOf(v) = CountOf(u)})>>]
             C == {p \in Distribution : p[1] >= n}
             F == [p \in C |-> p[2]]
             Equation(g) == g = [s \in SUBSET C |-> IF s = {} THEN 0 ELSE Pick(s)[2] + g[s \ {Pick(s)}]]
             iter == CHOOSE g : Equation(g)
  <1>1. Distribution = {cl[u] : u \in Offenders}
    <2>1. ASSUME NEW p \in Distribution PROVE p \in {cl[u] : u \in Offenders}
      <3>1. PICK u \in Offenders : p = <<CountOf(u), Cardinality({v \in Offenders : CountOf(v) = CountOf(u)})>>
        BY DEF Distribution
      <3>2. QED
        BY <3>1
    <2>2. ASSUME NEW u \in Offenders PROVE cl[u] \in Distribution
      BY DEF Distribution
    <2>3. QED
      BY <2>1, <2>2
  <1>2. IsFiniteSet(Offenders)
    BY UsersCount
  <1>3. IsFiniteSet(C)
    <2> HIDE DEF cl
    <2>1. IsFiniteSet(Distribution)
      BY <1>1, <1>2, ImageIsFinite
    <2>2. QED
      BY <2>1, FS_Subset
  <1>4. ASSUME NEW p \in C PROVE F[p] = Cardinality(Class(Offenders, cl, p))
    <2>1. PICK u \in Offenders : p = cl[u]
      BY <1>1
    <2>2. Class(Offenders, cl, p) = {v \in Offenders : CountOf(v) = CountOf(u)}
      <3>1. ASSUME NEW v \in Offenders
            PROVE  cl[v] = cl[u] <=> CountOf(v) = CountOf(u)
        OBVIOUS
      <3>2. QED
        BY <2>1, <3>1 DEF Class
    <2>3. p[2] = Cardinality({v \in Offenders : CountOf(v) = CountOf(u)})
      BY <2>1
    <2>4. QED
      BY <2>2, <2>3
  <1>5. Classes(Offenders, cl, C) = WithAtLeast(n)
    <2>1. ASSUME NEW u \in Offenders
          PROVE  cl[u] \in C <=> CountOf(u) >= n
      <3>1. cl[u] \in Distribution /\ cl[u][1] = CountOf(u)
        BY <1>1
      <3>2. QED
        BY <3>1
    <2>2. QED
      BY <2>1 DEF Classes, WithAtLeast
  <1>6. ASSUME NEW g PROVE Equation(g) <=> IsTable(g, F, C)
    <2>1. \A s \in SUBSET C : s # {} => F[Pick(s)] = Pick(s)[2]
      BY DEF Pick
    <2> HIDE DEF F, C
    <2>2. QED
      BY <2>1 DEF IsTable
  <1>7. UsersWith(Distribution, n) = iter[C]
    BY DEF UsersWith, SumOver, MapThenSumSet, MapThenFoldSet, Pick
  <1>8. \E g : Equation(g)
    BY <1>3, <1>6, TableExists
  <1>9. Equation(iter)
    BY <1>8
  <1> HIDE DEF iter
  <1>10. iter[C] = Sum(F, C)
    BY <1>3, <1>6, <1>9, SumTable
  <1> HIDE DEF F, C, cl, Equation
  <1>11. Sum(F, C) = Cardinality(Classes(Offenders, cl, C))
    BY <1>2, <1>3, <1>4, SumOfClasses
  <1>12. QED
    BY <1>5, <1>7, <1>10, <1>11

\* The entries of a list are of users that have as many violations, one each.
Listed(list) ==
    /\ \A e \in list : e.user \in Offenders /\ e.count \in Nat /\ e.count <= CountOf(e.user)
    /\ \A e, f \in list : e.user = f.user => e = f

\* What a chart owes to a list.
Charted(list, chart) ==
    \A e \in list : Cardinality({f \in list : f.count >= e.count}) <= UsersWith(chart, e.count)

\* An answer about offenders after each of its statements.
OffendersInv ==
    answer \in Offending /\ ~answer.failed =>
        /\ answer.todo = <<"chart", "moderated", "seen">> => Listed(answer.list)
        /\ answer.todo = <<"moderated", "seen">> =>
              /\ Charted(answer.list, answer.chart)
              /\ UsersWith(answer.chart, 0) \in Nat /\ UsersWith(answer.chart, 0) <= Cardinality(Offenders)
        /\ answer.todo \in {<<"seen">>, <<>>} =>
              Charted(answer.list, answer.chart) /\ UsersWith(answer.chart, 0) <= answer.moderated

\* More rows make more offenders, with more violations each.
LEMMA OffendersGrow ==
  ASSUME ReportInv, ReportInv', rows \subseteq rows'
  PROVE  /\ Offenders \subseteq Offenders' /\ IsFiniteSet(Offenders')
         /\ Cardinality(Offenders) <= Cardinality(Offenders')
         /\ \A u \in Users : CountOf(u) <= CountOf(u)'
  <1>1. ASSUME NEW u \in Users PROVE Of(u) \subseteq Of(u)' /\ IsFiniteSet(Of(u)') /\ CountOf(u) <= CountOf(u)'
    <2>1. Of(u) \subseteq Of(u)' /\ Of(u)' \subseteq rows'
      BY DEF Of, UserOf
    <2>2. IsFiniteSet(Of(u)')
      BY <2>1, FS_Subset DEF ReportInv
    <2>3. Cardinality(Of(u)) <= Cardinality(Of(u)')
      BY <2>1, <2>2, FS_Subset
    <2>4. QED
      BY <2>1, <2>2, <2>3 DEF CountOf
  <1>2. Offenders \subseteq Offenders'
    BY <1>1 DEF Offenders, Users
  <1>3. IsFiniteSet(Offenders')
    <2>1. ReportInv' => IsFiniteSet(Offenders')
      <3>1. Offenders' = {[s \in rows' |-> UserOf(s)][r] : r \in rows'}
        BY DEF Offenders, Of, UserOf, Users, ReportInv, LogTypeOK, Row
      <3>2. QED
        BY <3>1, ImageIsFinite DEF ReportInv
    <2>2. QED
      BY <2>1
  <1>4. Cardinality(Offenders) <= Cardinality(Offenders')
    BY <1>2, <1>3, FS_Subset
  <1>5. QED
    BY <1>1, <1>2, <1>3, <1>4

\* A list fits the chart that is selected after it.
LEMMA ListFitsChart ==
  ASSUME ReportInv, NEW list, Listed(list)
  PROVE  Charted(list, Distribution)
  <1> SUFFICES ASSUME NEW e \in list
               PROVE  Cardinality({f \in list : f.count >= e.count}) <= UsersWith(Distribution, e.count)
    BY DEF Charted
  <1> DEFINE n == e.count
             above == {f \in list : f.count >= n}
             m == [f \in above |-> f.user]
  <1>1. n \in Nat
    BY DEF Listed
  <1>2. ASSUME NEW f \in above PROVE m[f] \in WithAtLeast(n)
    <2>1. f.user \in Offenders /\ f.count \in Nat /\ f.count <= CountOf(f.user) /\ f.count >= n
      BY DEF Listed
    <2>2. CountOf(f.user) \in Nat
      BY <2>1, UsersCount
    <2>3. CountOf(f.user) >= n
      BY <1>1, <2>1, <2>2
    <2>4. QED
      BY <2>1, <2>3 DEF WithAtLeast
  <1>3. m \in Injection(above, WithAtLeast(n))
    <2>1. \A f, g \in above : m[f] = m[g] => f = g
      BY DEF Listed
    <2>2. QED
      BY <1>2, <2>1 DEF Injection, IsInjective
  <1>4. IsFiniteSet(WithAtLeast(n))
    BY UsersCount, FS_Subset DEF WithAtLeast
  <1> HIDE DEF m, above, n
  <1>5. Cardinality(above) <= Cardinality(WithAtLeast(n))
    BY <1>3, <1>4, FS_Injection
  <1>6. QED
    BY <1>1, <1>5, ChartCounts DEF above, n

\* Every statement fits its part to the parts before.
LEMMA OffendersStep ==
  ASSUME TablesInv, OffendersInv, [RecordsNext]_recordVars
  PROVE  OffendersInv'
  <1>1. ReportInv /\ ReportInv' /\ TablesInv'
    <2>1. TablesInv'
      BY TablesStep
    <2>2. TablesInv' => ReportInv'
      BY DEF TablesInv, PagesInv, CountersInv, ReportInv
    <2>3. QED
      BY <2>1, <2>2, TablesFit
  <1>2. /\ Offenders \subseteq Offenders' /\ Cardinality(Offenders) <= Cardinality(Offenders')
        /\ \A u \in Users : CountOf(u) <= CountOf(u)'
    BY <1>1, OffendersGrow, TablesGrow
  <1>3. CASE Stays
    <2>1. answer' = answer
      BY <1>3 DEF Stays
    <2>2. Listed(answer.list) => Listed(answer.list)'
      <3>1. \A u \in Users : CountOf(u) \in Nat
        BY <1>1, UsersCount
      <3>2. \A u \in Users : CountOf(u)' \in Nat
        <4>1. ASSUME NEW u \in Users PROVE CountOf(u)' \in Nat
          <5>1. Of(u)' \subseteq rows'
            BY DEF Of
          <5>2. QED
            BY <1>1, <5>1, FS_Subset, FS_CardinalityType DEF CountOf, ReportInv
        <4>2. QED
          BY <4>1
      <3>3. Offenders \subseteq Users
        BY DEF Offenders
      <3>4. ASSUME Listed(answer.list), NEW e \in answer.list
            PROVE  e.user \in Offenders' /\ e.count \in Nat /\ e.count <= CountOf(e.user)'
        <4>1. e.user \in Offenders /\ e.count \in Nat /\ e.count <= CountOf(e.user) /\ e.user \in Users
          BY <3>3, <3>4 DEF Listed
        <4>2. CountOf(e.user) \in Nat /\ CountOf(e.user)' \in Nat /\ CountOf(e.user) <= CountOf(e.user)'
          BY <1>2, <3>1, <3>2, <4>1
        <4>3. QED
          BY <1>2, <4>1, <4>2
      <3>5. QED
        BY <2>1, <3>4 DEF Listed
    <2>3. Cardinality(Offenders) \in Nat /\ Cardinality(Offenders') \in Nat
      <3>1. IsFiniteSet(Offenders')
        BY <1>1, OffendersGrow, TablesGrow
      <3>2. QED
        BY <1>1, <3>1, UsersCount, FS_CardinalityType
    <2>4. QED
      BY <1>2, <2>1, <2>2, <2>3 DEF OffendersInv, Charted
  <1>4. CASE Noted
    <2>1. answer'.kind # "offenders"
      BY <1>4 DEF Noted, Measures, TablesInv, AnswerTypes, Offending, Measuring, NoAnswer
    <2>2. QED
      BY <2>1 DEF OffendersInv, Offending
  <1>5. CASE Begins
    <2>1. CASE answer' \in Offending
      <3>1. answer'.todo = <<"list", "chart", "moderated", "seen">>
        BY <1>5, <2>1, BeginsTyped DEF Offending, Measuring
      <3>2. /\ answer'.todo # <<"chart", "moderated", "seen">> /\ answer'.todo # <<"moderated", "seen">>
            /\ answer'.todo # <<"seen">> /\ answer'.todo # <<>>
        BY <3>1
      <3>3. QED
        BY <3>2 DEF OffendersInv
    <2>2. QED
      BY <2>1 DEF OffendersInv
  <1>6. CASE AnswerStep /\ answer \in Offending
    <2>1. UNCHANGED rows
      BY <1>6, StatementsRead DEF logVars
    <2>2. Offenders' = Offenders /\ \A u : CountOf(u)' = CountOf(u)
      BY <2>1 DEF Offenders, CountOf, Of
    <2>3. answer.todo \in LeftOf("offenders")
      BY <1>6 DEF TablesInv, AnswerTypes, Offending, Measuring, NoAnswer
    <2>4. CASE SelectList
      <3>1. answer.todo = <<"list", "chart", "moderated", "seen">> /\ Rest = <<"chart", "moderated", "seen">>
        BY <2>3, <2>4, OffendersLeft DEF SelectList, At, Rest
      <3>2. answer'.todo = <<"chart", "moderated", "seen">>
        BY <1>6, <2>4, <3>1 DEF SelectList, Read, Offending
      <3>3. ~answer'.failed => Listed(answer'.list)
        <4>1. CASE answer'.failed
          BY <4>1
        <4>2. ASSUME NEW top \in TopOf(Offenders, TopUsers, CountOf),
                     answer'.list = {[user |-> u, count |-> CountOf(u)] : u \in top}
              PROVE  Listed(answer'.list)
          <5>1. top \subseteq Offenders /\ Offenders \subseteq Users
            BY DEF TopOf, Offenders
          <5>2. \A u \in top : CountOf(u) \in Nat
            BY <1>1, <5>1, UsersCount
          <5>3. QED
            BY <4>2, <5>1, <5>2 DEF Listed
        <4>3. QED
          BY <1>6, <2>4, <4>1, <4>2 DEF SelectList, Read, Offending
      <3>4. Listed(answer'.list) => Listed(answer.list)'
        BY <2>2 DEF Listed
      <3>5. QED
        BY <3>2, <3>3, <3>4 DEF OffendersInv
    <2>5. CASE SelectChart
      <3>1. answer.todo = <<"chart", "moderated", "seen">> /\ Rest = <<"moderated", "seen">>
        BY <2>3, <2>5, OffendersLeft DEF SelectChart, At, Rest
      <3>2. answer'.todo = <<"moderated", "seen">>
        BY <1>6, <2>5, <3>1 DEF SelectChart, Read, Offending
      <3>3. answer'.failed \/ (answer'.list = answer.list /\ answer'.chart = Distribution /\ answer'.failed = answer.failed)
        BY <1>6, <2>5 DEF SelectChart, Read, Offending
      <3>4. ~answer.failed => Charted(answer.list, Distribution)
        BY <1>1, <1>6, <3>1, ListFitsChart DEF OffendersInv
      <3>5. UsersWith(Distribution, 0) \in Nat /\ UsersWith(Distribution, 0) <= Cardinality(Offenders)
        <4>1. WithAtLeast(0) = Offenders
          BY <1>1, UsersCount DEF WithAtLeast
        <4>2. UsersWith(Distribution, 0) = Cardinality(Offenders) /\ Cardinality(Offenders) \in Nat
          BY <1>1, <4>1, ChartCounts, UsersCount, FS_CardinalityType
        <4>3. QED
          BY <4>2
      <3>6. QED
        BY <2>2, <3>2, <3>3, <3>4, <3>5 DEF OffendersInv, Charted
    <2>6. CASE CountModerated
      <3>1. answer.todo = <<"moderated", "seen">> /\ Rest = <<"seen">>
        BY <2>3, <2>6, OffendersLeft DEF CountModerated, At, Rest
      <3>2. answer'.todo = <<"seen">>
        BY <1>6, <2>6, <3>1 DEF CountModerated, Read, Offending
      <3>3. answer'.failed \/ (answer'.list = answer.list /\ answer'.chart = answer.chart /\ answer'.failed = answer.failed
                               /\ answer'.moderated = Cardinality(Offenders))
        BY <1>6, <2>6 DEF CountModerated, Read, Offending
      <3>4. QED
        BY <1>6, <3>1, <3>2, <3>3 DEF OffendersInv, Charted
    <2>7. CASE CountSeen
      <3>1. answer.todo = <<"seen">> /\ Rest = <<>>
        BY <2>3, <2>7, OffendersLeft DEF CountSeen, At, Rest
      <3>2. /\ answer'.todo = <<>> /\ answer'.list = answer.list /\ answer'.chart = answer.chart
            /\ answer'.failed = answer.failed /\ answer'.moderated = answer.moderated
        BY <1>6, <2>7, <3>1 DEF CountSeen, Read, Offending
      <3>3. QED
        BY <1>6, <3>1, <3>2 DEF OffendersInv, Charted
    <2>8. CASE CloseAnswer
      <3>1. answer'.kind # "offenders"
        BY <2>8 DEF CloseAnswer, Read, NoAnswer
      <3>2. QED
        BY <3>1 DEF OffendersInv, Offending
    <2>9. ~(ReadCounters \/ ReadHours \/ ReadRows \/ SelectSeries \/ SelectBars \/ StartPrevious \/ CountActions)
      <3>1. answer.todo # <<>> => Head(answer.todo) \in {"list", "chart", "moderated", "seen"}
        BY <2>3, OffendersLeft
      <3>2. QED
        BY <3>1 DEF At, ReadCounters, ReadHours, ReadRows, SelectSeries, SelectBars, StartPrevious, CountActions
    <2>10. QED
      BY <1>6, <2>4, <2>5, <2>6, <2>7, <2>8, <2>9 DEF AnswerStep
  <1>7. CASE AnswerStep /\ answer \notin Offending
    <2>1. answer = NoAnswer \/ (answer \in Measuring /\ answer.todo \in LeftOf(answer.kind)
                                /\ (answer.kind # "health" => answer.to = "snapshot"))
      BY <1>7 DEF TablesInv, AnswerTypes
    <2>2. CASE answer = NoAnswer
      <3>1. ~AnswerStep
        BY <2>2 DEF AnswerStep, SelectList, SelectChart, CountModerated, CountSeen, ReadCounters, ReadHours, ReadRows,
                    SelectSeries, SelectBars, StartPrevious, CountActions, CloseAnswer, At
      <3>2. QED
        BY <1>7, <3>1
    <2>3. CASE answer \in Measuring
      <3>1. answer'.kind # "offenders"
        <4>1. answer' = NoAnswer \/ answer'.kind = answer.kind
          BY <1>7, <2>1, <2>3, MeasuringKind DEF NoAnswer, Measuring
        <4>2. QED
          BY <2>3, <4>1 DEF NoAnswer, Measuring
      <3>2. QED
        BY <3>1 DEF OffendersInv, Offending
    <2>4. QED
      BY <2>1, <2>2, <2>3
  <1>8. QED
    BY <1>3, <1>4, <1>5, <1>6, <1>7, AnswerCases

\* Whatever is recorded between the statements: as many users are in the chart
\* as in the list, and all that are in the chart are counted.
THEOREM OffendersAreChartedEver == RecordsSpec => []OffendersAreCharted
  <1>1. RecordsInit => TablesInv /\ OffendersInv
    <2>1. RecordsInit => answer \notin Offending
      BY DEF RecordsInit, ReportsInit, NoAnswer, Offending
    <2>2. QED
      BY <2>1, TablesBegin DEF OffendersInv
  <1>2. TablesInv /\ OffendersInv /\ [RecordsNext]_recordVars => (TablesInv /\ OffendersInv)'
    BY TablesStep, OffendersStep
  <1>3. TablesInv /\ OffendersInv => OffendersAreCharted
    <2> SUFFICES ASSUME TablesInv, OffendersInv, Answered("offenders"), ~answer.failed
                 PROVE  /\ \A e \in answer.list :
                              Cardinality({f \in answer.list : f.count >= e.count}) <= UsersWith(answer.chart, e.count)
                        /\ UsersWith(answer.chart, 0) <= answer.moderated
      BY DEF OffendersAreCharted
    <2>1. answer \in Offending /\ answer.todo = <<>>
      BY DEF Answered, TablesInv, AnswerTypes, NoAnswer, Measuring
    <2>2. QED
      BY <2>1 DEF OffendersInv, Charted
  <1>4. QED
    BY <1>1, <1>2, <1>3, PTL DEF RecordsSpec

-----------------------------------------------------------------------------
(* The health score.                                                       *)

\* A quotient between bounds.
LEMMA Quotient ==
  ASSUME NEW d \in Nat \ {0}, NEW n \in Int, NEW w \in Nat, 0 <= n, n <= w * d
  PROVE  n \div d \in 0..w /\ (n < w * d => n \div d < w)
  <1> DEFINE q == n \div d
  <1>1. q \in Int /\ d * q <= n /\ n < d * q + d
    OBVIOUS
  <1>2. q >= 0
    <2>1. CASE q <= -1
      <3>1. d * q <= d * (-1)
        BY <1>1, <2>1
      <3>2. QED
        BY <1>1, <3>1
    <2>2. QED
      BY <1>1, <2>1
  <1>3. q >= w => n >= w * d
    <2>1. CASE q >= w
      <3>1. d * q >= d * w
        BY <1>1, <2>1
      <3>2. QED
        BY <1>1, <3>1
    <2>2. QED
      BY <2>1
  <1>4. q >= w + 1 => n >= w * d + d
    <2>1. CASE q >= w + 1
      <3>1. d * q >= d * (w + 1)
        BY <1>1, <2>1
      <3>2. QED
        BY <1>1, <3>1
    <2>2. QED
      BY <2>1
  <1> HIDE DEF q
  <1>5. q \in 0..w /\ (n < w * d => q < w)
    BY <1>1, <1>2, <1>3, <1>4
  <1>6. QED
    BY <1>5 DEF q

\* The numerator and denominator of a score with half its points gone.
LEMMA HalfIsGone ==
  ASSUME NEW v \in Nat, NEW m \in Nat \ {0}, NEW e \in Nat, NEW t \in Nat \ {0}, 2 * e >= t
  PROVE  CalculateHealthScore(v, m, e, t) \in 0..50
  <1> DEFINE x == RatePenalty(v, m)
             y == EscalationPenalty(e, t)
  <1>1. x[1] \in Nat /\ x[2] \in Nat \ {0} /\ x[1] <= 30 * x[2]
    <2>1. CASE 1000 * v <= 5 * m
      BY <2>1 DEF RatePenalty
    <2>2. CASE ~(1000 * v <= 5 * m)
      BY <2>2 DEF RatePenalty, AtMost
    <2>3. QED
      BY <2>1, <2>2
  <1>2. y[2] \in Nat \ {0} /\ y[1] = 50 * y[2]
    <2>1. ~(10 * e <= t) /\ 125 * (10 * e - t) >= 500 * t
      OBVIOUS
    <2>2. AtMost(500 * t, 125 * (10 * e - t)) = 500 * t
      BY <2>1 DEF AtMost
    <2>3. QED
      BY <2>1, <2>2 DEF EscalationPenalty
  <1> DEFINE a == x[2]
             b == y[2]
             p == x[1]
             d == a * b
             n == 100 * a * b - p * b - y[1] * a
  <1>3. CalculateHealthScore(v, m, e, t) = n \div d
    BY DEF CalculateHealthScore
  <1> HIDE DEF x, y
  <1>4. a \in Nat \ {0} /\ b \in Nat \ {0} /\ p \in Nat /\ p <= 30 * a /\ y[1] = 50 * b
    BY <1>1, <1>2
  <1>5. n = 100 * a * b - p * b - (50 * b) * a
    BY <1>4
  <1> HIDE DEF a, b, p, n
  <1>6. d \in Nat \ {0} /\ 100 * a * b = 100 * d /\ (50 * b) * a = 50 * d
    BY <1>4
  <1>7. p * b \in Nat /\ p * b <= 30 * d
    <2>1. p * b <= (30 * a) * b
      BY <1>4
    <2>2. QED
      BY <1>4, <2>1
  <1>8. n = 50 * d - p * b
    <2> DEFINE pb == p * b
               ab == 100 * a * b
               ba == (50 * b) * a
    <2>1. n = ab - pb - ba /\ ab = 100 * d /\ ba = 50 * d /\ pb \in Nat /\ d \in Nat
      BY <1>5, <1>6, <1>7
    <2> HIDE DEF pb, ab, ba, d
    <2>2. n = 50 * d - pb
      BY <2>1
    <2>3. QED
      BY <2>2 DEF pb
  <1> HIDE DEF d
  <1>9. n \in Int /\ 0 <= n /\ n <= 50 * d
    BY <1>6, <1>7, <1>8
  <1>10. n \div d \in 0..50
    BY <1>6, <1>9, Quotient
  <1>11. QED
    BY <1>3, <1>10 DEF d

\* Whatever came in between the statements of a health score and whichever of
\* them failed: half of the day's violations ending in kicks and bans takes half
\* of the points, and warns.
THEOREM KicksLowerHealthEver == RecordsSpec => []KicksLowerHealth
  <1>1. RecordsInit => TablesInv
    BY TablesBegin
  <1>2. TablesInv /\ [RecordsNext]_recordVars => TablesInv'
    BY TablesStep
  <1>3. TablesInv => KicksLowerHealth
    <2> SUFFICES ASSUME TablesInv, Answered("health"), answer.total > 0, 2 * Escalated >= answer.total
                 PROVE  HealthMetrics.score \in 0..50 /\ HealthMetrics.warning
      BY DEF KicksLowerHealth
    <2>1. answer \in Measuring
      BY DEF Answered, TablesInv, AnswerTypes, NoAnswer, Offending
    <2>2. answer.total \in Nat \ {0} /\ Escalated \in Nat
      BY <2>1 DEF Measuring, Escalated, Actions
    <2>3. ActualViolations \in Nat \ {0} /\ answer.snapshot.messages \in Nat
      <3>1. answer.snapshot \in Counts /\ Violations(answer.snapshot) \in Nat
        BY <2>1, ViolationsAdd DEF Measuring
      <3>2. QED
        BY <2>2, <3>1 DEF ActualViolations, Counts
    <2>4. \A m \in Nat \ {0} : CalculateHealthScore(ActualViolations, m, Escalated, answer.total) \in 0..50
      BY <2>2, <2>3, HalfIsGone
    <2>5. HealthScore \in 0..50
      BY <2>3, <2>4 DEF HealthScore
    <2>6. HealthScore < 70 /\ HealthMetrics.score = HealthScore
      BY <2>5 DEF HealthMetrics
    <2>7. HealthMetrics.warning
      BY <2>6, Zenon DEF HealthMetrics
    <2>8. QED
      BY <2>5, <2>6, <2>7
  <1>4. QED
    BY <1>1, <1>2, <1>3, PTL DEF RecordsSpec

-----------------------------------------------------------------------------
(* The total of the metrics and its chart.                                 *)

\* The bar of an hour counts what the total has of it.
Barred(counted, series, since) ==
    \A r \in counted : r.at >= since =>
        \E p \in series :
            /\ p[1] = r.at \div Hour
            /\ p[2] >= Cardinality({s \in counted : s.at >= since /\ s.at \div Hour = p[1]})

\* An answer of the metrics after each of its statements: rows are only counted
\* if no hour is of the period, and then those of the chart are, too.
ChartInv ==
    answer \in Measuring /\ answer.kind = "metrics" =>
        /\ answer.counted \subseteq rows
        /\ answer.todo = <<"counters", "hours", "rows", "series", "bars">> => answer.counted = {}
        /\ ~answer.failed /\ ~answer.flushed /\ Length(answer.period, 0) # 0 =>
              /\ answer.todo = <<"hours", "rows", "series", "bars">> => answer.counted = {}
              /\ answer.todo = <<"rows", "series", "bars">> => HoursSince(answer.cutoff) = {}
              /\ answer.todo \in {<<"hours", "rows", "series", "bars">>, <<"rows", "series", "bars">>,
                                  <<"series", "bars">>} =>
                    answer.cutoff <= clock - Length(answer.period, Day)
              /\ answer.todo = <<"series", "bars">> => answer.counted = {} \/ HoursSince(answer.cutoff) = {}
              /\ answer.todo = <<>> => Barred(answer.counted, answer.series, answer.since)

\* Bars of the rows since then count all that were counted.
LEMMA BarsCount ==
  ASSUME ReportInv, NEW counted \in SUBSET rows, NEW since \in Int
  PROVE  Barred(counted, Bars(Since(since)), since)
  <1> SUFFICES ASSUME NEW r \in counted, r.at >= since
               PROVE  \E p \in Bars(Since(since)) :
                         /\ p[1] = r.at \div Hour
                         /\ p[2] >= Cardinality({s \in counted : s.at >= since /\ s.at \div Hour = p[1]})
    BY DEF Barred
  <1> DEFINE h == r.at \div Hour
             bar == {s \in Since(since) : s.at \div Hour = h}
             part == {s \in counted : s.at >= since /\ s.at \div Hour = h}
  <1>1. r \in Since(since)
    BY DEF Since
  <1>2. <<h, Cardinality(bar)>> \in Bars(Since(since))
    BY <1>1 DEF Bars
  <1>3. part \subseteq bar /\ bar \subseteq rows
    BY DEF Since
  <1> HIDE DEF bar, part, h
  <1>4. IsFiniteSet(bar)
    BY <1>3, PartsAreFinite
  <1>5. Cardinality(part) <= Cardinality(bar) /\ Cardinality(part) \in Nat /\ Cardinality(bar) \in Nat
    BY <1>3, <1>4, FS_Subset, FS_CardinalityType
  <1> DEFINE p == <<h, Cardinality(bar)>>
  <1>6. p[1] = h /\ p[2] >= Cardinality({s \in counted : s.at >= since /\ s.at \div Hour = p[1]})
    BY <1>5 DEF part
  <1>7. QED
    BY <1>2, <1>6 DEF h

\* An hour of the chart's period is one of the snapshot's.
LEMMA HoursBegin ==
  ASSUME ReportInv, NEW cutoff \in Int, NEW since \in Int, cutoff <= since, HoursSince(cutoff) = {}
  PROVE  {h \in DOMAIN hourly : h * Hour >= since} = {}
  <1> SUFFICES ASSUME NEW h \in DOMAIN hourly, h * Hour >= since
               PROVE  FALSE
    OBVIOUS
  <1>1. h \in Nat /\ Hour \in Nat \ {0}
    BY MetricsAssumption DEF ReportInv, MetricsTypeOK
  <1> DEFINE q == cutoff \div Hour
  <1>2. q \in Int /\ Hour * q <= cutoff
    BY <1>1
  <1>3. ~(h >= q)
    BY DEF HoursSince
  <1> HIDE DEF q
  <1>4. h + 1 <= q
    BY <1>1, <1>2, <1>3
  <1>5. Hour * (h + 1) <= Hour * q
    BY <1>1, <1>2, <1>4
  <1>6. Hour * (h + 1) = h * Hour + Hour
    BY <1>1
  <1>7. h * Hour \in Int
    BY <1>1
  <1>8. QED
    BY <1>1, <1>2, <1>5, <1>6, <1>7

\* Every statement of the metrics fits the chart to the total.
LEMMA ChartStep ==
  ASSUME TablesInv, ChartInv, [RecordsNext]_recordVars
  PROVE  ChartInv'
  <1>1. ReportInv /\ rows \subseteq rows' /\ clock <= clock' /\ clock \in Nat /\ clock' \in Nat
    <2>1. TablesInv'
      BY TablesStep
    <2>2. QED
      BY <2>1, TablesFit, TablesGrow DEF TablesInv, CountersInv
  <1>2. flushing' = flushing => hourly' = hourly
    BY TablesGrow
  <1>3. CASE answer \in Measuring /\ answer.kind = "metrics" /\ Stays
    <2>1. answer' = answer /\ hourly' = hourly
      BY <1>2, <1>3 DEF Stays, Measures
    <2>2. HoursSince(answer.cutoff)' = HoursSince(answer.cutoff)
      BY <2>1 DEF HoursSince
    <2>3. answer.cutoff \in Int /\ Length(answer.period, Day) \in Nat
      BY <1>3, LengthType DEF Measuring
    <2>4. QED
      BY <1>1, <1>3, <2>1, <2>2, <2>3 DEF ChartInv, Barred
  <1>4. CASE answer \in Measuring /\ answer.kind = "metrics" /\ Noted
    <2>1. answer'.counted = answer.counted /\ answer'.todo = answer.todo /\ answer'.flushed
      BY <1>4 DEF Noted, Measuring
    <2>2. QED
      BY <1>1, <1>4, <2>1 DEF ChartInv
  <1>5. CASE Begins
    <2>1. CASE answer' \in Measuring /\ answer'.kind = "metrics"
      <3>1. /\ answer'.counted = {}
            /\ answer'.todo = <<"counters", "hours", "rows", "series", "bars">>
        BY <1>5, <2>1, BeginsTyped DEF Offending, Statements
      <3>2. /\ answer'.todo # <<"hours", "rows", "series", "bars">> /\ answer'.todo # <<"rows", "series", "bars">>
            /\ answer'.todo # <<"series", "bars">> /\ answer'.todo # <<>>
        BY <3>1
      <3>3. QED
        BY <3>1, <3>2 DEF ChartInv
    <2>2. QED
      BY <2>1 DEF ChartInv
  <1>6. CASE AnswerStep /\ answer \in Measuring /\ answer.kind = "metrics"
    <2>1. answer.todo \in LeftOf("metrics") /\ answer.to = "snapshot" /\ UNCHANGED <<rows, clock, hourly>>
      BY <1>6, StatementsRead DEF TablesInv, AnswerTypes, Offending, NoAnswer, logVars, metricVars
    <2>2. answer'.cutoff = answer.cutoff => HoursSince(answer.cutoff)' = HoursSince(answer.cutoff)
      BY <2>1 DEF HoursSince
    <2>3. CASE ReadCounters
      <3>1. Rest = <<"hours", "rows", "series", "bars">> /\ answer.counted = {}
        BY <1>6, <2>1, <2>3, MetricsLeft DEF ReadCounters, At, Rest, ChartInv
      <3>2. /\ answer'.todo = Rest /\ answer'.counted = {} /\ answer'.period = answer.period
            /\ answer'.cutoff = clock - Length(answer.period, Hour)
        BY <1>6, <2>3, <3>1 DEF ReadCounters, Read, Measuring
      <3>3. Length(answer.period, 0) # 0 => answer'.cutoff <= clock - Length(answer.period, Day)
        BY <1>1, <3>2, LengthType
      <3>4. QED
        BY <2>1, <3>1, <3>2, <3>3 DEF ChartInv
    <2>4. CASE ReadHours
      <3>1. /\ answer.todo = <<"hours", "rows", "series", "bars">>
            /\ Rest = <<"rows", "series", "bars">> /\ Tail(Rest) = <<"series", "bars">>
        BY <2>1, <2>4, MetricsLeft DEF ReadHours, At, Rest
      <3>2. /\ answer'.counted = answer.counted /\ answer'.period = answer.period /\ answer'.cutoff = answer.cutoff
            /\ answer'.flushed = answer.flushed
            /\ \/ answer'.todo = Rest /\ HoursSince(answer.cutoff) = {} /\ answer'.failed = answer.failed
               \/ answer'.todo = Tail(Rest) /\ answer'.failed = answer.failed
               \/ answer'.todo = Tail(Rest) /\ answer'.failed
        BY <1>6, <2>1, <2>4 DEF ReadHours, Read, Measuring
      <3>3. answer.counted \subseteq rows'
        BY <1>6, <2>1 DEF ChartInv
      <3>4. ~answer.failed /\ ~answer.flushed /\ Length(answer.period, 0) # 0 =>
               answer.counted = {} /\ answer.cutoff <= clock - Length(answer.period, Day)
        BY <1>6, <3>1 DEF ChartInv
      <3>5. CASE answer'.todo = Rest /\ HoursSince(answer.cutoff) = {} /\ answer'.failed = answer.failed
        BY <2>1, <2>2, <3>1, <3>2, <3>3, <3>4, <3>5 DEF ChartInv
      <3>6. CASE answer'.todo = Tail(Rest) /\ (answer'.failed = answer.failed \/ answer'.failed)
        BY <2>1, <2>2, <3>1, <3>2, <3>3, <3>4, <3>6 DEF ChartInv
      <3>7. QED
        BY <3>2, <3>5, <3>6
    <2>5. CASE ReadRows
      <3>1. answer.todo = <<"rows", "series", "bars">> /\ Rest = <<"series", "bars">>
        BY <2>1, <2>5, MetricsLeft DEF ReadRows, At, Rest
      <3>2. Since(answer.cutoff) \subseteq rows
        BY DEF Since
      <3>3. /\ answer'.todo = Rest /\ answer'.period = answer.period /\ answer'.cutoff = answer.cutoff
            /\ answer'.flushed = answer.flushed
            /\ \/ answer'.counted = Since(answer.cutoff) /\ answer'.failed = answer.failed
               \/ answer'.counted = answer.counted /\ answer'.failed
        <4>1. \/ answer' = [answer EXCEPT !.todo = Rest, !.snapshot = Plus(answer.snapshot, CountedIn(Since(answer.cutoff))),
                                   !.counted = Since(answer.cutoff)]
              \/ answer' = [answer EXCEPT !.todo = Rest, !.failed = TRUE]
          BY <2>1, <2>5 DEF ReadRows, Read
        <4>2. QED
          BY <1>6, <4>1 DEF Measuring
      <3>4. answer.counted \subseteq rows /\ answer'.todo = <<"series", "bars">>
        BY <1>6, <3>1, <3>3 DEF ChartInv
      <3>5. ~answer.failed /\ ~answer.flushed /\ Length(answer.period, 0) # 0 =>
               HoursSince(answer.cutoff) = {} /\ answer.cutoff <= clock - Length(answer.period, Day)
        BY <1>6, <3>1 DEF ChartInv
      <3>6. answer'.counted \subseteq rows' /\ answer'.todo # <<"counters", "hours", "rows", "series", "bars">>
        <4>1. answer'.counted \subseteq rows
          BY <3>2, <3>3, <3>4
        <4>2. QED
          BY <2>1, <3>4, <4>1
      <3>7. ~answer'.failed => ~answer.failed /\ answer'.counted = Since(answer.cutoff)
        BY <3>3
      <3>8. QED
        BY <1>6, <2>1, <2>2, <3>3, <3>4, <3>5, <3>6, <3>7 DEF ChartInv
    <2>6. CASE SelectSeries
      <3> DEFINE since == clock - Length(answer.period, Day)
                 kept == {h \in DOMAIN hourly : h * Hour >= since}
      <3>1. answer.todo = <<"series", "bars">> /\ Rest = <<"bars">> /\ Tail(Rest) = <<>>
        BY <2>1, <2>6, MetricsLeft DEF SelectSeries, At, Rest
      <3>2. /\ answer'.counted = answer.counted /\ answer'.period = answer.period /\ answer'.flushed = answer.flushed
            /\ \/ kept # {} /\ answer'.todo = Tail(Rest) /\ answer'.failed = answer.failed
               \/ answer'.todo = Rest
        BY <1>6, <2>6 DEF SelectSeries, Read, Measuring
      <3>3. since \in Int /\ answer.cutoff \in Int
        BY <1>1, <1>6, LengthType DEF Measuring
      <3>4. answer.cutoff <= since /\ HoursSince(answer.cutoff) = {} => kept = {}
        BY <1>1, <3>3, HoursBegin
      <3> HIDE DEF kept
      <3>5. ~answer.failed /\ ~answer.flushed /\ Length(answer.period, 0) # 0 /\ kept # {} => answer.counted = {}
        BY <1>6, <3>1, <3>4 DEF ChartInv
      <3>6. answer.counted = {} => Barred(answer'.counted, answer'.series, answer'.since)
        BY <3>2 DEF Barred
      <3>7. answer'.counted \subseteq rows'
        BY <1>6, <2>1, <3>2 DEF ChartInv
      <3>8. CASE answer'.todo = <<"bars">>
        BY <3>7, <3>8 DEF ChartInv
      <3>9. CASE answer'.todo = <<>> /\ kept # {} /\ answer'.failed = answer.failed
        BY <3>2, <3>5, <3>6, <3>7, <3>9 DEF ChartInv
      <3>10. QED
        BY <3>1, <3>2, <3>8, <3>9
    <2>7. CASE SelectBars
      <3> DEFINE since == clock - Length(answer.period, Day)
      <3>1. answer.todo = <<"bars">> /\ Rest = <<>>
        BY <2>1, <2>7, MetricsLeft DEF SelectBars, At, Rest
      <3>2. /\ answer'.counted = answer.counted /\ answer'.todo = Rest
            /\ answer'.failed \/ (answer'.series = Bars(Since(since)) /\ answer'.since = since)
        BY <1>6, <2>7 DEF SelectBars, Read, Measuring
      <3>3. since \in Int /\ answer.counted \subseteq rows
        BY <1>1, <1>6, LengthType DEF ChartInv
      <3>4. Barred(answer.counted, Bars(Since(since)), since)
        BY <1>1, <3>3, BarsCount
      <3>5. QED
        BY <2>1, <3>1, <3>2, <3>3, <3>4 DEF ChartInv
    <2>8. CASE CloseAnswer
      <3>1. answer'.kind # "metrics"
        BY <2>8 DEF CloseAnswer, Read, NoAnswer
      <3>2. QED
        BY <3>1 DEF ChartInv
    <2>9. ~(SelectList \/ SelectChart \/ CountModerated \/ CountSeen \/ StartPrevious \/ CountActions)
      <3>1. answer.todo # <<>> => Head(answer.todo) \in {"counters", "hours", "rows", "series", "bars"}
        BY <2>1, MetricsLeft
      <3>2. QED
        BY <3>1 DEF At, SelectList, SelectChart, CountModerated, CountSeen, StartPrevious, CountActions
    <2>10. QED
      BY <1>6, <2>3, <2>4, <2>5, <2>6, <2>7, <2>8, <2>9 DEF AnswerStep
  <1>7. CASE answer \in Measuring => answer.kind # "metrics"
    <2>1. CASE Stays
      BY <1>7, <2>1 DEF Stays, ChartInv
    <2>2. CASE Noted
      BY <1>7, <2>2, NotedKind DEF ChartInv
    <2>3. CASE AnswerStep
      BY <1>7, <2>3, OtherKinds DEF ChartInv
    <2>4. QED
      BY <1>5, <2>1, <2>2, <2>3, AnswerCases
  <1>8. QED
    BY <1>3, <1>4, <1>5, <1>6, <1>7, AnswerCases

\* Unless a flush was under way, a statement failed or the period is one that
\* the two take for different lengths: what the total counts is in the chart.
THEOREM TotalIsChartedEver == RecordsSpec => []TotalIsCharted
  <1>1. RecordsInit => TablesInv /\ ChartInv
    <2>1. RecordsInit => answer \notin Measuring
      BY DEF RecordsInit, ReportsInit, NoAnswer, Measuring
    <2>2. QED
      BY <2>1, TablesBegin DEF ChartInv
  <1>2. TablesInv /\ ChartInv /\ [RecordsNext]_recordVars => (TablesInv /\ ChartInv)'
    BY TablesStep, ChartStep
  <1>3. TablesInv /\ ChartInv => TotalIsCharted
    <2> SUFFICES ASSUME TablesInv, ChartInv, Answered("metrics"), ~answer.failed, ~answer.flushed,
                        Length(answer.period, 0) # 0
                 PROVE  Barred(answer.counted, answer.series, answer.since)
      BY DEF TotalIsCharted, Barred
    <2>1. answer \in Measuring /\ answer.kind = "metrics" /\ answer.todo = <<>>
      BY DEF Answered, TablesInv, AnswerTypes, NoAnswer, Offending
    <2>2. QED
      BY <2>1 DEF ChartInv
  <1>4. QED
    BY <1>1, <1>2, <1>3, PTL DEF RecordsSpec

-----------------------------------------------------------------------------
(* The command's count of messages.                                        *)

(* What one answer of several statements says of the same rows fits        *)
(* together, whatever is recorded, counted and flushed between the         *)
(* statements (get_top_offenders, get_metrics).                            *)
THEOREM ChartsFitEver == RecordsSpec => []ChartsFit
  BY OffendersAreChartedEver, TotalIsChartedEver, PTL DEF ChartsFit

\* Messages of the hours.
Stored == Total(DOMAIN hourly).messages

\* An answer of the command after each of its statements: what was in memory or
\* in the table when the counters were read is counted, still in the table, or
\* of hours that are left out.
CommandInv ==
    answer \in Measuring /\ answer.kind = "dashboard" =>
        /\ answer.todo = <<"counters", "hours", "rows">> => answer.snapshot = Zero
        /\ answer.todo = <<"hours", "rows">> =>
              /\ answer.snapshot.messages + Stored >= answer.owed
              /\ ~answer.flushed => answer.snapshot.messages + Stored = answer.owed
        /\ answer.todo \in {<<"rows">>, <<>>} =>
              /\ answer.snapshot.messages + answer.left >= answer.owed
              /\ ~answer.flushed => answer.snapshot.messages + answer.left = answer.owed

\* The table's messages are those of some hours and of the others.
LEMMA StoredSplits ==
  ASSUME ReportInv, NEW hours \in SUBSET (DOMAIN hourly)
  PROVE  /\ Total(hours).messages \in Nat /\ Total(DOMAIN hourly \ hours).messages \in Nat
         /\ Stored = Total(hours).messages + Total(DOMAIN hourly \ hours).messages
  <1> DEFINE all == DOMAIN hourly
             rest == all \ hours
             M == [h \in all |-> hourly[h].messages]
  <1>1. /\ IsFiniteSet(all) /\ IsFiniteSet(hours) /\ IsFiniteSet(rest)
        /\ \A h \in all : hourly[h] \in Counts
    BY FS_Subset DEF ReportInv, MetricsTypeOK
  <1>2. ASSUME NEW some \in SUBSET all
        PROVE  Total(some).messages = Sum(M, some)
    <2>1. IsFiniteSet(some) /\ \A h \in some : hourly[h] \in Counts
      BY <1>1, FS_Subset
    <2>2. Total(some).messages = Messages(hourly, some)
      BY <2>1, TotalIsSums DEF Total
    <2>3. \A h \in some : [k \in some |-> hourly[k].messages][h] = M[h]
      OBVIOUS
    <2> HIDE DEF M
    <2>4. Messages(hourly, some) = Sum(M, some)
      BY <2>1, <2>3, SumAgrees DEF Messages
    <2>5. QED
      BY <2>2, <2>4
  <1>3. \A h \in all : M[h] \in Nat
    BY <1>1 DEF Counts
  <1> HIDE DEF M
  <1>4. Sum(M, all) = Sum(M, hours) + Sum(M, rest)
    BY <1>1, <1>3, SumSplits
  <1>5. Sum(M, hours) \in Nat /\ Sum(M, rest) \in Nat
    BY <1>1, <1>3, SumType
  <1>6. Total(hours).messages = Sum(M, hours) /\ Total(rest).messages = Sum(M, rest) /\ Stored = Sum(M, all)
    BY <1>2 DEF Stored
  <1>7. QED
    BY <1>4, <1>5, <1>6

\* Every statement of the command takes over what it finds.
LEMMA CommandStep ==
  ASSUME TablesInv, CommandInv, [RecordsNext]_recordVars
  PROVE  CommandInv'
  <1>1. ReportInv /\ Stored \in Nat /\ Stored' \in Nat /\ Stored' >= Stored
    <2>1. Total(DOMAIN hourly) \in Counts
      BY TablesFit, TotalOfHours
    <2>2. Total(DOMAIN hourly)' \in Counts
      <3>1. TablesInv'
        BY TablesStep
      <3>2. IsFiniteSet(DOMAIN hourly') /\ \A h \in DOMAIN hourly' : hourly'[h] \in Counts
        BY <3>1 DEF TablesInv, CountersInv, MetricsTypeOK
      <3>3. PlusAll(hourly', DOMAIN hourly') \in Counts
        BY <3>2, TotalType
      <3>4. QED
        BY <3>3 DEF Total
    <2>3. Total(DOMAIN hourly)'.messages >= Total(DOMAIN hourly).messages
      BY TablesGrow
    <2>4. \A c \in Counts : c.messages \in Nat
      BY DEF Counts
    <2>5. QED
      BY <2>1, <2>2, <2>3, <2>4, TablesFit DEF Stored
  <1>2. ASSUME hourly' = hourly PROVE Stored' = Stored
    BY <1>2 DEF Stored, Total
  <1>3. flushing' = flushing => hourly' = hourly
    BY TablesGrow
  <1>4. ASSUME answer \in Measuring
        PROVE  answer.snapshot.messages \in Nat /\ answer.owed \in Nat /\ answer.left \in Nat /\ answer.snapshot \in Counts
    BY <1>4 DEF Measuring, Counts
  <1>5. CASE answer \in Measuring /\ answer.kind = "dashboard" /\ Stays
    <2>1. answer' = answer /\ Stored' = Stored
      BY <1>2, <1>3, <1>5 DEF Stays, Measures
    <2>2. QED
      BY <1>5, <2>1 DEF CommandInv
  <1>6. CASE answer \in Measuring /\ answer.kind = "dashboard" /\ Noted
    <2>1. /\ answer'.snapshot = answer.snapshot /\ answer'.todo = answer.todo /\ answer'.flushed
          /\ answer'.owed = answer.owed /\ answer'.left = answer.left
      BY <1>6 DEF Noted, Measuring
    <2>2. answer.todo = <<"hours", "rows">> => answer.snapshot.messages + Stored' >= answer.owed
      BY <1>1, <1>4, <1>6 DEF CommandInv
    <2>3. QED
      BY <1>6, <2>1, <2>2 DEF CommandInv
  <1>7. CASE Begins
    <2>1. CASE answer' \in Measuring /\ answer'.kind = "dashboard"
      <3>1. /\ answer'.snapshot = Zero
            /\ answer'.todo = <<"counters", "hours", "rows">>
        BY <1>7, <2>1, BeginsTyped DEF Offending, Statements
      <3>2. answer'.todo # <<"hours", "rows">> /\ answer'.todo # <<"rows">> /\ answer'.todo # <<>>
        BY <3>1
      <3>3. QED
        BY <3>1, <3>2 DEF CommandInv
    <2>2. QED
      BY <2>1 DEF CommandInv
  <1>8. CASE AnswerStep /\ answer \in Measuring /\ answer.kind = "dashboard"
    <2>1. answer.todo \in LeftOf("dashboard") /\ answer.to = "snapshot" /\ hourly' = hourly
      BY <1>8, StatementsRead DEF TablesInv, AnswerTypes, Offending, NoAnswer, metricVars
    <2>2. Stored' = Stored
      BY <1>2, <2>1
    <2>3. CASE ReadCounters
      <3>1. Rest = <<"hours", "rows">> /\ answer.snapshot = Zero
        BY <1>8, <2>1, <2>3, DashboardLeft DEF ReadCounters, At, Rest, CommandInv
      <3>2. /\ answer'.todo = Rest /\ answer'.snapshot = Plus(Zero, counters)
            /\ answer'.owed = counters.messages + Stored
        BY <1>8, <2>3, <3>1 DEF ReadCounters, Read, Measuring, Stored
      <3>3. counters \in Counts
        BY <1>1 DEF ReportInv, MetricsTypeOK
      <3>4. Plus(Zero, counters) = counters /\ counters.messages \in Nat
        BY <3>3, PlusAdds DEF Counts
      <3>5. answer'.snapshot.messages + Stored' = answer'.owed /\ answer'.owed \in Nat
        BY <1>1, <2>2, <3>2, <3>4
      <3>6. QED
        BY <1>1, <3>1, <3>2, <3>5 DEF CommandInv
    <2>4. CASE ReadHours
      <3> DEFINE some == HoursSince(answer.cutoff)
                 rest == DOMAIN hourly \ some
      <3>1. /\ answer.todo = <<"hours", "rows">> /\ Rest = <<"rows">> /\ Tail(Rest) = <<>>
        BY <2>1, <2>4, DashboardLeft DEF ReadHours, At, Rest
      <3>2. /\ answer.snapshot.messages + Stored >= answer.owed
            /\ ~answer.flushed => answer.snapshot.messages + Stored = answer.owed
        BY <1>8, <3>1 DEF CommandInv
      <3>3. some \in SUBSET (DOMAIN hourly)
        BY DEF HoursSince
      <3>4. /\ Total(some).messages \in Nat /\ Total(rest).messages \in Nat
            /\ Stored = Total(some).messages + Total(rest).messages
        BY <1>1, <3>3, StoredSplits
      <3>5. \/ answer' = [answer EXCEPT !.todo = Tail(Rest), !.snapshot = Plus(answer.snapshot, Total(some)),
                                        !.left = Total(rest).messages]
            \/ answer' = [answer EXCEPT !.todo = Rest, !.left = Stored]
            \/ answer' = NoAnswer
        BY <1>8, <2>1, <2>4 DEF ReadHours, Read, Stored
      <3>6. CASE answer' = [answer EXCEPT !.todo = Tail(Rest), !.snapshot = Plus(answer.snapshot, Total(some)),
                                          !.left = Total(rest).messages]
        <4>1. /\ answer'.todo = <<>> /\ answer'.snapshot = Plus(answer.snapshot, Total(some))
              /\ answer'.left = Total(rest).messages /\ answer'.owed = answer.owed /\ answer'.flushed = answer.flushed
          BY <1>8, <3>1, <3>6 DEF Measuring
        <4>2. answer'.snapshot.messages = answer.snapshot.messages + Total(some).messages
          BY <4>1 DEF Plus
        <4>3. answer'.snapshot.messages + answer'.left = answer.snapshot.messages + Stored
          BY <1>4, <1>8, <3>4, <4>1, <4>2
        <4>4. QED
          BY <3>2, <4>1, <4>3 DEF CommandInv
      <3>7. CASE answer' = [answer EXCEPT !.todo = Rest, !.left = Stored]
        <4>1. /\ answer'.todo = <<"rows">> /\ answer'.snapshot = answer.snapshot /\ answer'.left = Stored
              /\ answer'.owed = answer.owed /\ answer'.flushed = answer.flushed
          BY <1>8, <3>1, <3>7 DEF Measuring
        <4>2. QED
          BY <3>2, <4>1 DEF CommandInv
      <3>8. CASE answer' = NoAnswer
        BY <3>8 DEF CommandInv, NoAnswer, Measuring
      <3>9. QED
        BY <3>5, <3>6, <3>7, <3>8
    <2>5. CASE ReadRows
      <3>1. answer.todo = <<"rows">> /\ Rest = <<>>
        BY <2>1, <2>5, DashboardLeft DEF ReadRows, At, Rest
      <3> DEFINE some == Since(answer.cutoff)
      <3>2. \/ answer' = [answer EXCEPT !.todo = Rest, !.snapshot = Plus(answer.snapshot, CountedIn(some)),
                                        !.counted = some]
            \/ answer' = [answer EXCEPT !.todo = Rest, !.failed = TRUE]
        BY <1>8, <2>1, <2>5 DEF ReadRows, Read
      <3>3. /\ answer'.todo = <<>> /\ answer'.left = answer.left
            /\ answer'.owed = answer.owed /\ answer'.flushed = answer.flushed
            /\ answer'.snapshot = Plus(answer.snapshot, CountedIn(some)) \/ answer'.snapshot = answer.snapshot
        BY <1>8, <3>1, <3>2 DEF Measuring
      <3>4. Plus(answer.snapshot, CountedIn(some)).messages = answer.snapshot.messages
        BY <1>4, <1>8 DEF Plus, CountedIn
      <3>5. answer'.snapshot.messages = answer.snapshot.messages
        BY <3>3, <3>4
      <3>6. QED
        BY <1>8, <3>1, <3>3, <3>5 DEF CommandInv
    <2>6. CASE CloseAnswer
      <3>1. answer'.kind # "dashboard"
        BY <2>6 DEF CloseAnswer, Read, NoAnswer
      <3>2. QED
        BY <3>1 DEF CommandInv
    <2>7. ~(SelectList \/ SelectChart \/ CountModerated \/ CountSeen \/ SelectSeries \/ SelectBars \/ StartPrevious
            \/ CountActions)
      <3>1. answer.todo # <<>> => Head(answer.todo) \in {"counters", "hours", "rows"}
        BY <2>1, DashboardLeft
      <3>2. QED
        BY <3>1 DEF At, SelectList, SelectChart, CountModerated, CountSeen, SelectSeries, SelectBars, StartPrevious,
                    CountActions
    <2>8. QED
      BY <1>8, <2>3, <2>4, <2>5, <2>6, <2>7 DEF AnswerStep
  <1>9. CASE answer \in Measuring => answer.kind # "dashboard"
    <2>1. CASE Stays
      BY <1>9, <2>1 DEF Stays, CommandInv
    <2>2. CASE Noted
      BY <1>9, <2>2, NotedKind DEF CommandInv
    <2>3. CASE AnswerStep
      BY <1>9, <2>3, OtherKinds DEF CommandInv
    <2>4. QED
      BY <1>7, <2>1, <2>2, <2>3, AnswerCases
  <1>10. QED
    BY <1>5, <1>6, <1>7, <1>8, <1>9, AnswerCases

\* Whatever is counted and flushed between its statements: the command misses
\* no message that was in memory or in the table, and without a flush under way
\* it counts none twice.
THEOREM SnapshotsMissNothingEver == RecordsSpec => []SnapshotsMissNothing
  <1>1. RecordsInit => TablesInv /\ CommandInv
    <2>1. RecordsInit => answer \notin Measuring
      BY DEF RecordsInit, ReportsInit, NoAnswer, Measuring
    <2>2. QED
      BY <2>1, TablesBegin DEF CommandInv
  <1>2. TablesInv /\ CommandInv /\ [RecordsNext]_recordVars => (TablesInv /\ CommandInv)'
    BY TablesStep, CommandStep
  <1>3. TablesInv /\ CommandInv => SnapshotsMissNothing
    <2> SUFFICES ASSUME TablesInv, CommandInv, Answered("dashboard")
                 PROVE  /\ answer.snapshot.messages + answer.left >= answer.owed
                        /\ ~answer.flushed => answer.snapshot.messages + answer.left = answer.owed
      BY DEF SnapshotsMissNothing
    <2>1. answer \in Measuring /\ answer.kind = "dashboard" /\ answer.todo = <<>>
      BY DEF Answered, TablesInv, AnswerTypes, NoAnswer, Offending
    <2>2. QED
      BY <2>1 DEF CommandInv
  <1>4. QED
    BY <1>1, <1>2, <1>3, PTL DEF RecordsSpec
-----------------------------------------------------------------------------
(* Types.                                                                  *)

\* What the invariants of the parts leave out.
AppealRest ==
    /\ warned \subseteq Users /\ overlapped \subseteq Users
    /\ resolutions \in Nat

\* Handlers know the users of the appeals.
LEMMA AppealRestStep ==
  ASSUME AppealTypes, AppealRest, [RecordsNext]_recordVars
  PROVE  AppealRest'
  <1> USE DEF AppealRest
  <1>1. CASE Appeal!Next
    <2>1. ASSUME NEW h \in Handlers, NEW u \in Users, Appeal!CreateAppeal(h, u)
          PROVE  AppealRest'
      BY <2>1 DEF Appeal!CreateAppeal
    <2>2. ASSUME NEW h \in Handlers, NEW i \in DOMAIN appeals, NEW status, Appeal!ResolveAppeal(h, i, status)
          PROVE  AppealRest'
      BY <2>2 DEF Appeal!ResolveAppeal
    <2>3. ASSUME NEW h \in Handlers,
                 Appeal!InsertAppeal(h) \/ Appeal!GetAppeal(h) \/ Appeal!ClearWarnings(h)
          PROVE  AppealRest'
      BY <2>3 DEF Appeal!InsertAppeal, Appeal!GetAppeal, Appeal!ClearWarnings
    <2>4. ASSUME NEW u \in Users, Appeal!Warn(u)
          PROVE  AppealRest'
      BY <2>4 DEF Appeal!Warn
    <2>5. QED
      BY <1>1, <2>1, <2>2, <2>3, <2>4 DEF Appeal!Next
  <1>2. CASE UNCHANGED appealVars
    <2>1. CASE UNCHANGED warned
      BY <1>2, <2>1 DEF appealVars
    <2>2. CASE \E u \in Users : WarningsChange(u)
      BY <1>2, <2>2 DEF appealVars, WarningsChange
    <2>3. [RecordsNext]_recordVars /\ ~Appeal!Next => UNCHANGED warned \/ \E u \in Users : WarningsChange(u)
      BY AnswersReadOnly DEF Answering, RecordsNext, Pages, Tables, Collector, MetricsStep, recordVars, reportVars
    <2>4. CASE Appeal!Next
      BY <1>1, <2>4
    <2>5. QED
      BY <2>1, <2>2, <2>3, <2>4
  <1>3. [RecordsNext]_recordVars => Appeal!Next \/ UNCHANGED appealVars
    BY DEF RecordsNext, recordVars
  <1>4. QED
    BY <1>1, <1>2, <1>3

\* A notice is in one of its steps, and its attempts are below the limit.
NoticeTypes ==
    /\ prefs \in Notice!Preferences
    /\ send \in [Sends -> {Notice!New, Notice!Done} \cup [pc : {"store"}, webhook : BOOLEAN]
                             \cup [pc : {"webhook"}, attempts : 0..MaxAttempts - 1]]
    /\ notices \subseteq Sends /\ read \subseteq Sends /\ delivered \subseteq Sends

\* The steps of a notice are its steps, and its attempts stay below the limit.
LEMMA NoticeTypesStep ==
  ASSUME clock \in Nat, NoticeTypes, [RecordsNext]_recordVars
  PROVE  NoticeTypes'
  <1> USE DEF NoticeTypes
  <1> DEFINE Step == {Notice!New, Notice!Done} \cup [pc : {"store"}, webhook : BOOLEAN]
                       \cup [pc : {"webhook"}, attempts : 0..MaxAttempts - 1]
  <1>0. MaxAttempts \in Nat \ {0} /\ DefaultEvents \subseteq Events
    BY RecordsAssumption DEF Notice!ConstantsFit
  <1>1. ASSUME NEW n \in Sends, NEW step \in Step, Notice!Goto(n, step)
        PROVE  send' \in [Sends -> Step]
    BY <1>1 DEF Notice!Goto
  <1>2. Notice!Done \in Step /\ \A w \in BOOLEAN : [pc |-> "store", webhook |-> w] \in Step
    OBVIOUS
  <1>3. ASSUME NEW n \in Sends, NEW event \in Events, NEW priority \in Notice!Priorities,
               Notice!GetPreferences(n, event, priority)
        PROVE  NoticeTypes'
    <2>1. prefs.webhook \in BOOLEAN
      BY DEF Notice!Preferences
    <2>2. send' \in [Sends -> Step]
      BY <1>1, <1>2, <1>3, <2>1 DEF Notice!GetPreferences
    <2>3. QED
      BY <1>3, <2>2 DEF Notice!GetPreferences
  <1>4. ASSUME NEW n \in Sends, Notice!SendInApp(n)
        PROVE  NoticeTypes'
    <2>1. [pc |-> "webhook", attempts |-> 0] \in Step
      BY <1>0
    <2>2. send' \in [Sends -> Step]
      BY <1>1, <1>2, <1>4, <2>1 DEF Notice!SendInApp
    <2>3. QED
      BY <1>4, <2>2 DEF Notice!SendInApp
  <1>5. ASSUME NEW n \in Sends, Notice!SendDiscordWebhook(n)
        PROVE  NoticeTypes'
    <2>1. send[n].pc = "webhook" /\ send[n] \in Step
      BY <1>5 DEF Notice!SendDiscordWebhook
    <2>2. send[n] \in [pc : {"webhook"}, attempts : 0..MaxAttempts - 1]
      BY <2>1 DEF Notice!New, Notice!Done
    <2>3. send[n].attempts + 1 < MaxAttempts => [send[n] EXCEPT !.attempts = @ + 1] \in Step
      BY <1>0, <2>2
    <2>4. send' \in [Sends -> Step]
      BY <1>1, <1>2, <1>5, <2>3 DEF Notice!SendDiscordWebhook
    <2>5. QED
      BY <1>5, <2>4 DEF Notice!SendDiscordWebhook
  <1>6. ASSUME NEW n \in Sends, Notice!MarkAsRead(n) \/ Notice!MarkAsUnread(n)
        PROVE  NoticeTypes'
    BY <1>6 DEF Notice!MarkAsRead, Notice!MarkAsUnread
  <1>7. ASSUME NEW new \in [webhook : BOOLEAN, threshold : {1, 3}, events : {{}, Events}, muted : {0, clock + 1}],
               Notice!UpdatePreferences(new)
        PROVE  NoticeTypes'
    <2>1. new \in Notice!Preferences
      BY DEF Notice!Preferences, Notice!Priorities
    <2>2. QED
      BY <1>7, <2>1 DEF Notice!UpdatePreferences
  <1>8. CASE Notice!Tick \/ UNCHANGED noticeVars
    BY <1>8 DEF Notice!Tick, noticeVars
  <1>9. [RecordsNext]_recordVars => Notice!Next \/ UNCHANGED noticeVars
    BY DEF RecordsNext, recordVars
  <1>10. QED
    BY <1>3, <1>4, <1>5, <1>6, <1>7, <1>8, <1>9 DEF Notice!Next

\* All of the parts at once.
TypesInv == TablesInv /\ AppealInv /\ AppealRest /\ ExportInv /\ NoticeTypes

\* The tables, handlers, exports and notices have their types whatever the
\* scene: an attempt counts below its limit, and a handler's appeal exists.
THEOREM TypeCorrect == RecordsSpec => []RecordsTypeOK
  <1>1. RecordsInit => TypesInv
    <2> SUFFICES ASSUME RecordsInit PROVE TypesInv
      OBVIOUS
    <2>1. AppealRest
      BY DEF RecordsInit, ReportsInit, Appeal!Init, AppealRest
    <2>2. NoticeTypes
      <3>1. Notice!DefaultPreferences \in Notice!Preferences
        BY RecordsAssumption DEF Notice!ConstantsFit, Notice!DefaultPreferences, Notice!Preferences, Notice!Priorities
      <3>2. QED
        BY <3>1 DEF RecordsInit, Notice!Init, NoticeTypes
    <2>3. QED
      BY <2>1, <2>2, TablesBegin, AppealsBegin, StoresBegin DEF TypesInv
  <1>2. TypesInv /\ [RecordsNext]_recordVars => TypesInv'
    <2> SUFFICES ASSUME TypesInv, [RecordsNext]_recordVars PROVE TypesInv'
      OBVIOUS
    <2>1. TablesInv'
      BY TablesStep DEF TypesInv
    <2>2. AppealInv' /\ AppealRest'
      BY AppealsStep, AppealRestStep DEF TypesInv, AppealInv
    <2>3. ExportInv'
      BY ExportsStep DEF TypesInv
    <2>4. NoticeTypes'
      BY NoticeTypesStep DEF TypesInv, TablesInv, CountersInv
    <2>5. QED
      BY <2>1, <2>2, <2>3, <2>4 DEF TypesInv
  <1>3. TypesInv => RecordsTypeOK
    <2> SUFFICES ASSUME TypesInv PROVE RecordsTypeOK
      OBVIOUS
    <2>1. ReportsTypeOK
      BY DEF TypesInv, TablesInv, PagesInv, CountersInv, AnswerTypes, AppealRest, ReportsTypeOK
    <2>2. Appeal!TypeOK
      BY DEF TypesInv, AppealInv, AppealTypes, AppealRest, Appeal!TypeOK
    <2>3. Export!TypeOK
      BY DEF TypesInv, ExportInv, SweepInv, Export!TypeOK
    <2>4. Notice!TypeOK
      BY DEF TypesInv, TablesInv, CountersInv, NoticeTypes, Notice!TypeOK
    <2>5. QED
      BY <2>1, <2>2, <2>3, <2>4 DEF RecordsTypeOK
  <1>4. QED
    BY <1>1, <1>2, <1>3, PTL DEF RecordsSpec
=============================================================================
