----------------------- MODULE CodebaseScannerProofs -----------------------
(***************************************************************************)
(* Theorems about CodebaseScanner for every value of its constants: any     *)
(* tree, any budget, any set of files that come and go.                     *)
(***************************************************************************)
EXTENDS CodebaseScanner, SequenceTheorems, FiniteSetTheorems, TLAPS

-----------------------------------------------------------------------------
(* Lemmas about the helpers. *)

LEMMA ElementsOfEmpty == Elements(<<>>) = {}
  BY DEF Elements

LEMMA ElementsOfAppend ==
    ASSUME NEW S, NEW s \in Seq(S), NEW e \in S
    PROVE  Elements(Append(s, e)) = Elements(s) \cup {e}
<1>1. /\ Append(s, e) \in Seq(S)
      /\ Len(Append(s, e)) = Len(s) + 1
      /\ \A i \in 1..Len(s) : Append(s, e)[i] = s[i]
      /\ Append(s, e)[Len(s) + 1] = e
  BY AppendProperties
<1>2. /\ Len(s) \in Nat
      /\ DOMAIN s = 1..Len(s)
      /\ DOMAIN Append(s, e) = 1..(Len(s) + 1)
  BY <1>1, LenProperties
<1>3. 1..(Len(s) + 1) = (1..Len(s)) \cup {Len(s) + 1}
  BY <1>2
<1>4. QED
  BY <1>1, <1>2, <1>3 DEF Elements

LEMMA ElementsType ==
    ASSUME NEW S, NEW s \in Seq(S)
    PROVE  Elements(s) \subseteq S
  BY LenProperties, ElementOfSeq DEF Elements

(* Estimating two pieces of text apart never gives less than estimating     *)
(* them as one.                                                             *)
LEMMA EstimateAddsUp ==
    ASSUME NEW m \in Nat, NEW n \in Nat
    PROVE  EstimateTokens(m + n) <= EstimateTokens(m) + EstimateTokens(n)
  BY DEF EstimateTokens

LEMMA EstimateType == \A n \in Nat : EstimateTokens(n) \in Nat
  BY DEF EstimateTokens

LEMMA EstimateOfEntry ==
    ASSUME NEW f \in Files
    PROVE  /\ Header[f] \in Nat /\ Content[f] \in Nat
           /\ EntryTokens(f) \in Nat
           /\ EstimateTokens(Header[f] + Content[f]) <= EntryTokens(f)
<1>1. Header[f] \in Nat /\ Content[f] \in Nat
  BY ScannerAssumption
<1>2. EstimateTokens(Header[f]) \in Nat /\ EstimateTokens(Content[f]) \in Nat
  BY <1>1, EstimateType
<1>3. QED
  BY <1>1, <1>2, EstimateAddsUp DEF EntryTokens

-----------------------------------------------------------------------------
(* Type correctness. *)

(* What makes TypeOK inductive: nothing is packed before the walk is over. *)
NothingPackedYet == pc \in {"start", "walk"} => included = <<>> /\ skipped = <<>>

TypeInv == TypeOK /\ NothingPackedYet

(* The program's variables keep their types, and no file is packed, skipped *)
(* or given up twice, on any tree and any budget.                           *)
THEOREM TypeCorrect == Spec => []TypeOK
<1>1. Init => TypeInv
  <2>1. <<>> \in Seq(Files)
    BY EmptySeq
  <2>2. Init => NothingPackedYet
    BY DEF Init, NothingPackedYet
  <2>3. Init => candidates \cap (Elements(included) \cup Elements(skipped)) = {}
    BY DEF Init
  <2>4. Init => TypeOK
    <3>1. Init => /\ pc \in {"start", "walk", "pack", "done", "aborted"}
                  /\ op \in {"scan", "grep"}
                  /\ ec \in BOOLEAN
      BY DEF Init
    <3>2. Init => /\ tokensUsed \in Nat /\ bytes \in Nat
      BY DEF Init
    <3>3. Init => unseen \subseteq Entries /\ candidates \subseteq Files
                 /\ area \subseteq Files /\ unopened \subseteq Files
      BY DEF Init
    <3>4. Init => included \in Seq(Files) /\ skipped \in Seq(Files) /\ matches \in Seq(Files)
      BY <2>1 DEF Init
    <3>5. QED
      BY <2>3, <3>1, <3>2, <3>3, <3>4 DEF TypeOK
  <2>5. QED
    BY <2>2, <2>4 DEF TypeInv
<1>2. TypeInv /\ [Next]_vars => TypeInv'
  <2> SUFFICES ASSUME TypeInv, [Next]_vars
               PROVE  TypeInv'
    OBVIOUS
  <2> USE ScannerAssumption, ElementsOfEmpty DEF TypeInv, NothingPackedYet
  <2>1. CASE AreaIsFile
    BY <2>1 DEF AreaIsFile, TypeOK, walkVars, resultVars
  <2>2. CASE AreaIsNothing
    BY <2>2 DEF AreaIsNothing, TypeOK, walkVars, resultVars
  <2>3. CASE AreaIsDirectory
    BY <2>3 DEF AreaIsDirectory, TypeOK, walkVars, resultVars
  <2>4. ASSUME NEW e \in Entries, PassOver(e)
        PROVE  TypeInv'
    BY <2>4 DEF PassOver, Reach, TypeOK, resultVars
  <2>5. ASSUME NEW e \in Entries, Untracked(e)
        PROVE  TypeInv'
    BY <2>5 DEF Untracked, Reach, TypeOK, resultVars
  <2>6. ASSUME NEW e \in Entries, Collect(e)
        PROVE  TypeInv'
    BY <2>6 DEF Collect, Reach, TypeOK, resultVars
  <2>7. ASSUME NEW e \in Entries, Unmatched(e)
        PROVE  TypeInv'
    BY <2>7 DEF Unmatched, Reach, TypeOK, resultVars
  <2>8. ASSUME NEW e \in Entries, Match(e)
        PROVE  TypeInv'
    <3>1. matches' \in Seq(Files)
      BY <2>8, AppendProperties DEF Match, TypeOK
    <3>2. QED
      BY <2>8, <3>1 DEF Match, Reach, TypeOK, resultVars
  <2>9. CASE BreakOff \/ WalkEnds \/ WalkThrows
    BY <2>9 DEF BreakOff, WalkEnds, WalkThrows, AfterWalk, TypeOK, walkVars, resultVars
  <2>10. CASE PackEnds
    BY <2>10 DEF PackEnds, TypeOK, walkVars, resultVars
  <2>11. ASSUME NEW f \in Files, Unopenable(f)
         PROVE  TypeInv'
    BY <2>11 DEF Unopenable, First, TypeOK, walkVars, resultVars
  <2>12. ASSUME NEW f \in Files, Skip(f)
         PROVE  TypeInv'
    <3>1. skipped' \in Seq(Files) /\ Elements(skipped') = Elements(skipped) \cup {f}
      BY <2>12, AppendProperties, ElementsOfAppend DEF Skip, TypeOK
    <3>2. QED
      BY <2>12, <3>1 DEF Skip, AfterSkip, TypeOK, walkVars
  <2>13. ASSUME NEW f \in Files, Include(f)
         PROVE  TypeInv'
    <3>1. included' \in Seq(Files) /\ Elements(included') = Elements(included) \cup {f}
      BY <2>13, AppendProperties, ElementsOfAppend DEF Include, TypeOK
    <3>2. tokensUsed' \in Nat /\ bytes' \in Nat
      BY <2>13, EstimateOfEntry DEF Include, TypeOK
    <3>3. QED
      BY <2>13, <3>1, <3>2 DEF Include, TypeOK, walkVars
  <2>14. CASE UNCHANGED vars
    BY <2>14 DEF vars, walkVars, resultVars, TypeOK
  <2>15. QED
    BY <2>1, <2>2, <2>3, <2>4, <2>5, <2>6, <2>7, <2>8, <2>9, <2>10, <2>11, <2>12, <2>13,
       <2>14 DEF Next, Walk, Pack
<1>3. TypeInv => TypeOK
  BY DEF TypeInv
<1>4. QED
  BY <1>1, <1>2, <1>3, PTL DEF Spec

-----------------------------------------------------------------------------
(* The budget. *)

(* What makes EstimateHolds inductive: nothing is counted for no file. *)
EstimateInv ==
    /\ EstimateHolds
    /\ included = <<>> => bytes = 0 /\ tokensUsed = 0

(* The files of a prompt are within the token budget, and estimating the    *)
(* text they make up would give no more than what was counted for them      *)
(* piece by piece, whatever their sizes and the budget.                     *)
THEOREM BudgetKept == Spec => []EstimateHolds
<1>1. Init => EstimateInv
  BY ScannerAssumption DEF Init, EstimateInv, EstimateHolds
<1>2. EstimateInv /\ TypeOK /\ [Next]_vars /\ TypeOK' => EstimateInv'
  <2> SUFFICES ASSUME EstimateInv, TypeOK, [Next]_vars, TypeOK'
               PROVE  EstimateInv'
    OBVIOUS
  <2>1. CASE UNCHANGED <<included, tokensUsed, bytes>>
    BY <2>1 DEF EstimateInv, EstimateHolds
  <2>2. ASSUME NEW f \in Files, Include(f)
        PROVE  EstimateInv'
    <3>1. included' # <<>>
      BY <2>2, AppendProperties DEF Include, TypeOK
    <3>2. tokensUsed' <= Budget
      BY <2>2 DEF Include, Fits
    <3>3. EstimateTokens(bytes') <= tokensUsed'
      <4> DEFINE size == Header[f] + Content[f]
      <4>1. /\ Header[f] \in Nat /\ Content[f] \in Nat
            /\ EntryTokens(f) \in Nat
            /\ EstimateTokens(size) <= EntryTokens(f)
        BY EstimateOfEntry
      <4>2. size \in Nat /\ EstimateTokens(size) \in Nat
        BY <4>1, EstimateType
      <4>3. bytes \in Nat /\ tokensUsed \in Nat
        BY DEF TypeOK
      <4>4. bytes' = bytes + size /\ tokensUsed' = tokensUsed + EntryTokens(f)
        BY <2>2, <4>1, <4>3 DEF Include
      <4>5. CASE included = <<>>
        BY <4>1, <4>2, <4>4, <4>5 DEF EstimateInv
      <4>6. CASE included # <<>>
        <5>1. EstimateTokens(bytes) <= tokensUsed
          BY <4>6 DEF EstimateInv, EstimateHolds
        <5> HIDE DEF size
        <5>2. EstimateTokens(bytes) \in Nat /\ EstimateTokens(bytes + size) \in Nat
          BY <4>2, <4>3, EstimateType
        <5>3. EstimateTokens(bytes + size) <= EstimateTokens(bytes) + EstimateTokens(size)
          BY <4>2, <4>3, EstimateAddsUp
        <5>4. QED
          BY <4>1, <4>2, <4>3, <4>4, <5>1, <5>2, <5>3
      <4>7. QED
        BY <4>5, <4>6
    <3>4. QED
      BY <3>1, <3>2, <3>3 DEF EstimateInv, EstimateHolds
  <2>3. QED
    BY <2>1, <2>2
    DEF Next, Walk, Pack, AreaIsFile, AreaIsNothing, AreaIsDirectory, PassOver, Untracked,
        Collect, Unmatched, Match, BreakOff, WalkEnds, WalkThrows, PackEnds, Unopenable,
        Skip, resultVars, vars
<1>3. EstimateInv => EstimateHolds
  BY DEF EstimateInv
<1>4. QED
  BY <1>1, <1>2, <1>3, TypeCorrect, PTL DEF Spec

-----------------------------------------------------------------------------
(* What a scan and a search leave out. *)

Found == Elements(included) \cup Elements(skipped) \cup unopened

(* Where the files of the area are while a scan is under way: found, about  *)
(* to be packed, or not reached.                                            *)
ScanInv ==
    /\ pc = "start" => /\ unseen = {} /\ ~ec /\ candidates = {} /\ area = {}
                       /\ Found = {} /\ Elements(matches) = {} /\ Len(matches) = 0
    /\ op = "scan" =>
          /\ pc = "walk" => area = Tracked \ Excluded
          /\ Found \cup candidates \subseteq area
          /\ area \ (Found \cup candidates) \subseteq unseen
          /\ pc \in {"pack", "done"} /\ unseen # {} => ec
          /\ pc = "done" => candidates = {}

(* Where the matching files are while a search is under way. *)
SearchInv ==
    op = "grep" =>
        /\ pc = "walk" => area = Tracked \ Excluded /\ Len(matches) < MaxResults
        /\ pc # "pack"
        /\ Elements(matches) \subseteq area \cap Matching
        /\ (area \cap Matching) \ (Elements(matches) \cup unopened) \subseteq unseen
        /\ pc = "done" => /\ Len(matches) <= MaxResults
                          /\ unseen # {} => ec \/ Len(matches) = MaxResults

WalkInv == ScanInv /\ SearchInv

LEMMA WalkInvInitially == Init => WalkInv
<1>1. Elements(<<>>) = {} /\ Len(<<>>) = 0
  BY ElementsOfEmpty
<1>2. Init => Found = {} /\ Elements(matches) = {} /\ Len(matches) = 0
  BY <1>1 DEF Init, Found
<1>3. QED
  BY <1>2 DEF Init, WalkInv, ScanInv, SearchInv

(* The start and the walk find files and pack none. *)
LEMMA WalkInvInWalk ==
    ASSUME TypeOK, WalkInv, AreaIsFile \/ AreaIsNothing \/ AreaIsDirectory \/ Walk
    PROVE  WalkInv'
<1> USE ScannerAssumption
<1>1. Len(matches) \in Nat
  BY LenProperties DEF TypeOK
<1>2. CASE AreaIsFile
  BY <1>2 DEF AreaIsFile, WalkInv, ScanInv, SearchInv, Found, TypeOK, walkVars, resultVars
<1>3. CASE AreaIsNothing
  BY <1>3 DEF AreaIsNothing, WalkInv, ScanInv, SearchInv, Found, TypeOK, walkVars, resultVars
<1>4. CASE AreaIsDirectory
  BY <1>1, <1>4
  DEF AreaIsDirectory, WalkInv, ScanInv, SearchInv, Found, TypeOK, walkVars, resultVars
<1>5. ASSUME NEW e \in Entries, PassOver(e)
      PROVE  WalkInv'
  BY <1>5 DEF PassOver, Passed, Reach, WalkInv, ScanInv, SearchInv, Found, resultVars
<1>6. ASSUME NEW e \in Entries, Untracked(e)
      PROVE  WalkInv'
  BY <1>6 DEF Untracked, Passed, Reach, WalkInv, ScanInv, SearchInv, Found, resultVars
<1>7. ASSUME NEW e \in Entries, Collect(e)
      PROVE  WalkInv'
  BY <1>7 DEF Collect, Passed, Reach, WalkInv, ScanInv, SearchInv, Found, resultVars
<1>8. ASSUME NEW e \in Entries, Unmatched(e)
      PROVE  WalkInv'
  BY <1>8 DEF Unmatched, Passed, Reach, WalkInv, ScanInv, SearchInv, Found, resultVars
<1>9. ASSUME NEW e \in Entries, Match(e)
      PROVE  WalkInv'
  <2>1. Elements(matches') = Elements(matches) \cup {e} /\ Len(matches') = Len(matches) + 1
    BY <1>9, AppendProperties, ElementsOfAppend DEF Match, TypeOK
  <2>2. QED
    BY <1>1, <1>9, <2>1
    DEF Match, Enough, Passed, Reach, WalkInv, ScanInv, SearchInv, Found, resultVars
<1>10. CASE BreakOff \/ WalkEnds \/ WalkThrows
  BY <1>1, <1>10
  DEF BreakOff, WalkEnds, WalkThrows, AfterWalk, WalkInv, ScanInv, SearchInv, Found,
      TypeOK, walkVars, resultVars
<1>11. QED
  BY <1>2, <1>3, <1>4, <1>5, <1>6, <1>7, <1>8, <1>9, <1>10 DEF Walk

(* Packing takes a file from the candidates and puts it somewhere. *)
LEMMA WalkInvInPack ==
    ASSUME TypeOK, WalkInv, Pack
    PROVE  WalkInv'
<1>1. op = "scan" /\ pc = "pack"
  BY DEF Pack, PackEnds, Unopenable, Skip, Include, WalkInv, SearchInv, TypeOK
<1>2. CASE PackEnds
  BY <1>1, <1>2 DEF PackEnds, WalkInv, ScanInv, SearchInv, Found, walkVars, resultVars
<1>3. ASSUME NEW f \in Files, Unopenable(f)
      PROVE  WalkInv'
  BY <1>1, <1>3
  DEF Unopenable, First, WalkInv, ScanInv, SearchInv, Found, walkVars, resultVars
<1>4. ASSUME NEW f \in Files, Skip(f)
      PROVE  WalkInv'
  <2>1. Elements(skipped') = Elements(skipped) \cup {f}
    BY <1>4, ElementsOfAppend DEF Skip, TypeOK
  <2>2. QED
    BY <1>1, <1>4, <2>1
    DEF Skip, First, AfterSkip, WalkInv, ScanInv, SearchInv, Found, walkVars
<1>5. ASSUME NEW f \in Files, Include(f)
      PROVE  WalkInv'
  <2>1. Elements(included') = Elements(included) \cup {f}
    BY <1>5, ElementsOfAppend DEF Include, TypeOK
  <2>2. QED
    BY <1>1, <1>5, <2>1 DEF Include, First, WalkInv, ScanInv, SearchInv, Found, walkVars
<1>6. QED
  BY <1>2, <1>3, <1>4, <1>5 DEF Pack

LEMMA WalkInvAlways == Spec => []WalkInv
<1>1. TypeOK /\ WalkInv /\ [Next]_vars => WalkInv'
  <2>1. TypeOK /\ WalkInv /\ UNCHANGED vars => WalkInv'
    BY DEF vars, walkVars, resultVars, WalkInv, ScanInv, SearchInv, Found
  <2>2. QED
    BY <2>1, WalkInvInWalk, WalkInvInPack DEF Next
<1>2. QED
  BY <1>1, WalkInvInitially, TypeCorrect, PTL DEF Spec

(* A scan that comes to its end has packed, skipped or failed to open every *)
(* file of the area that its walk reached, and no other; it reached them    *)
(* all unless it broke off at an error.                                     *)
THEOREM ScanAccountsForFiles == Spec => []FilesAccounted
<1>1. WalkInv => FilesAccounted
  BY DEF WalkInv, ScanInv, FilesAccounted, Found
<1>2. QED
  BY <1>1, WalkInvAlways, PTL

(* A search gives at most as many files as it was asked for, only files     *)
(* that match, and misses none it got to.                                   *)
THEOREM SearchMissesNone == Spec => []SearchComplete
<1>1. WalkInv => SearchComplete
  BY DEF WalkInv, SearchInv, SearchComplete
<1>2. QED
  BY <1>1, WalkInvAlways, PTL

-----------------------------------------------------------------------------
(* Sums over sets of files.  What a fold of the library computes is proved  *)
(* by the smallest set for which it would fail.                             *)

(* A set of numbers that is not empty has a smallest one. *)
LEMMA SmallestOf ==
    ASSUME NEW N \in SUBSET Nat, N # {}
    PROVE  \E m \in N : \A n \in N : m <= n
<1>1. PICK m \in N : \A n \in N : ~(<<n, m>> \in OpToRel(<, Nat))
  BY NatLessThanWellFounded, WFMin
<1>2. \A n \in N : <<n, m>> \in Nat \X Nat /\ <<n, m>>[1] = n /\ <<n, m>>[2] = m
  OBVIOUS
<1>3. \A n \in N : ~(n < m)
  BY <1>1, <1>2 DEF OpToRel
<1>4. QED
  BY <1>3

(* The tokens of a set of files. *)
TokensOf(S) == MapThenSumSet(EntryTokens, S)

(* The file that MapThenSumSet takes first. *)
Pick(s) == CHOOSE f \in s : TRUE

(* total gives the tokens of each set of files drawn from S, added up in    *)
(* the order in which MapThenSumSet takes them.                             *)
Totals(total, S) ==
    total = [s \in SUBSET S |-> IF s = {} THEN 0
                                ELSE EntryTokens(Pick(s)) + total[s \ {Pick(s)}]]

LEMMA PickType == \A s : s # {} => Pick(s) \in s
  BY DEF Pick

(* There are such totals: those of the sets of up to n + 1 files are got    *)
(* from those of the sets of up to n.                                       *)
LEMMA TotalsExist ==
    ASSUME NEW S \in SUBSET Files, IsFiniteSet(S)
    PROVE  \E total : Totals(total, S)
<1> DEFINE UpTo(n) == {s \in SUBSET S : Cardinality(s) <= n}
           Sums(g, n) == \A s \in UpTo(n) :
                            g[s] = IF s = {} THEN 0
                                   ELSE EntryTokens(Pick(s)) + g[s \ {Pick(s)}]
           Defined(n) == \E g : g = [s \in UpTo(n) |-> g[s]] /\ Sums(g, n)
           Failing == {n \in Nat : ~ Defined(n)}
<1>1. \A s \in SUBSET S : IsFiniteSet(s) /\ Cardinality(s) \in Nat
                          /\ Cardinality(s) <= Cardinality(S)
  BY FS_Subset, FS_CardinalityType
<1>2. Failing = {}
  <2> SUFFICES ASSUME Failing # {} PROVE FALSE
    OBVIOUS
  <2>1. PICK n \in Failing : \A m \in Failing : n <= m
    BY SmallestOf
  <2>2. CASE n = 0
    <3>1. \A s \in UpTo(0) : s = {}
      BY <1>1, FS_EmptySet
    <3> DEFINE g == [s \in UpTo(0) |-> 0]
    <3>2. g = [s \in UpTo(0) |-> g[s]] /\ Sums(g, 0)
      BY <3>1
    <3>3. QED
      BY <2>1, <2>2, <3>2
  <2>3. CASE n # 0
    <3> DEFINE m == n - 1
    <3>1. m \in Nat /\ Defined(m)
      <4> HIDE DEF Defined
      <4>1. QED
        BY <2>1, <2>3
    <3>2. PICK g : g = [s \in UpTo(m) |-> g[s]] /\ Sums(g, m)
      BY <3>1
    <3> DEFINE h == [s \in UpTo(n) |-> IF s \in UpTo(m) THEN g[s]
                                       ELSE EntryTokens(Pick(s)) + g[s \ {Pick(s)}]]
    <3>3. UpTo(m) \subseteq UpTo(n)
      BY <1>1, <2>1
    <3>4. \A s \in UpTo(n) : s # {} => s \ {Pick(s)} \in UpTo(m)
      BY <1>1, <2>1, FS_RemoveElement, PickType
    <3>5. \A s \in UpTo(m) : h[s] = g[s]
      BY <3>3
    <3>6. \A s \in UpTo(m) : s # {} => s \ {Pick(s)} \in UpTo(m)
      BY <3>3, <3>4, <1>1, FS_RemoveElement, PickType
    <3>7. {} \in UpTo(m)
      BY FS_EmptySet, <3>1
    <3>8. ASSUME NEW s \in UpTo(n)
          PROVE  h[s] = IF s = {} THEN 0 ELSE EntryTokens(Pick(s)) + h[s \ {Pick(s)}]
      <4> HIDE DEF Sums, UpTo, m
      <4>1. CASE s \in UpTo(m)
        BY <3>2, <3>5, <3>6, <4>1 DEF Sums
      <4>2. CASE s \notin UpTo(m)
        <5>1. s # {}
          BY <4>2, <3>7
        <5>2. h[s \ {Pick(s)}] = g[s \ {Pick(s)}]
          BY <3>4, <3>5, <5>1
        <5>3. QED
          BY <4>2, <5>1, <5>2
      <4>3. QED
        BY <4>1, <4>2
    <3>9. h = [s \in UpTo(n) |-> h[s]] /\ Sums(h, n)
      <4>1. h = [s \in UpTo(n) |-> h[s]]
        OBVIOUS
      <4> HIDE DEF h
      <4>2. QED
        BY <3>8, <4>1
    <3>10. QED
      BY <2>1, <3>9
  <2>4. QED
    BY <2>2, <2>3
<1>3. Cardinality(S) \in Nat /\ UpTo(Cardinality(S)) = SUBSET S
  BY <1>1
<1>4. PICK g : g = [s \in SUBSET S |-> g[s]] /\ Sums(g, Cardinality(S))
  <2> HIDE DEF UpTo, Sums
  <2>1. Cardinality(S) \notin Failing
    BY <1>2
  <2>2. QED
    BY <1>3, <2>1
<1>5. Totals(g, S)
  BY <1>3, <1>4 DEF Totals
<1>6. QED
  BY <1>5

(* The fold of the library is one of them. *)
LEMMA SumIsTotal ==
    ASSUME NEW S \in SUBSET Files, IsFiniteSet(S)
    PROVE  \E total : Totals(total, S) /\ TokensOf(S) = total[S]
<1> DEFINE iter == CHOOSE total : Totals(total, S)
<1>1. Totals(iter, S)
  BY TotalsExist
<1>2. TokensOf(S) = iter[S]
  BY DEF TokensOf, MapThenSumSet, MapThenFoldSet, Totals, Pick
<1>3. QED
  BY <1>1, <1>2

(* What totals say of a set of files, whichever file is taken first: by     *)
(* the smallest set that has a file for which they would not.               *)
LEMMA TotalOfSet ==
    ASSUME NEW S \in SUBSET Files, IsFiniteSet(S), NEW total, Totals(total, S)
    PROVE  /\ total[S] \in Nat
           /\ total[{}] = 0
           /\ \A f \in S : total[S] = EntryTokens(f) + total[S \ {f}]
<1> DEFINE Fails(s) == \/ total[s] \notin Nat
                       \/ \E f \in s : total[s] # EntryTokens(f) + total[s \ {f}]
           Failing == {n \in Nat : \E s \in SUBSET S : Cardinality(s) = n /\ Fails(s)}
<1>1. \A s \in SUBSET S : IsFiniteSet(s) /\ Cardinality(s) \in Nat
  BY FS_Subset, FS_CardinalityType
<1>2. /\ total[{}] = 0
      /\ \A s \in SUBSET S : s # {} => total[s] = EntryTokens(Pick(s)) + total[s \ {Pick(s)}]
  BY DEF Totals
<1>3. ASSUME NEW s \in SUBSET S, NEW f \in s
      PROVE  s \ {f} \in SUBSET S /\ Cardinality(s \ {f}) = Cardinality(s) - 1
  BY <1>1, FS_RemoveElement
<1>4. \A s \in SUBSET S : ~Fails(s)
  <2> SUFFICES ASSUME NEW t \in SUBSET S, Fails(t) PROVE FALSE
    OBVIOUS
  <2>1. Failing # {}
    <3> HIDE DEF Fails
    <3>1. QED
      BY <1>1
  <2>2. PICK n \in Failing : \A m \in Failing : n <= m
    <3> HIDE DEF Failing
    <3>1. Failing \in SUBSET Nat
      BY DEF Failing
    <3>2. QED
      BY <2>1, <3>1, SmallestOf
  <2>3. PICK s \in SUBSET S : Cardinality(s) = n /\ Fails(s)
    BY <2>2
  <2>4. ASSUME NEW r \in SUBSET S, Cardinality(r) = n - 1
        PROVE  ~Fails(r)
    <3> HIDE DEF Fails
    <3>1. QED
      BY <1>1, <2>2, <2>4
  <2>5. s # {}
    <3>1. ~Fails({})
      BY <1>2
    <3> HIDE DEF Fails
    <3>2. QED
      BY <2>3, <3>1
  <2> DEFINE c == Pick(s)
  <2>6. c \in s
    BY <2>5, PickType
  <2>7. c \in Files /\ EntryTokens(c) \in Nat
    BY <2>6, EstimateOfEntry
  <2>8. s \ {c} \in SUBSET S /\ ~Fails(s \ {c})
    BY <1>3, <2>3, <2>4, <2>6
  <2>9. total[s] = EntryTokens(c) + total[s \ {c}]
    BY <1>2, <2>5
  <2>10. total[s] \in Nat
    BY <2>7, <2>8, <2>9
  <2>11. PICK f \in s : total[s] # EntryTokens(f) + total[s \ {f}]
    BY <2>3, <2>10
  <2>12. f # c
    BY <2>9, <2>11
  <2>13. f \in Files /\ EntryTokens(f) \in Nat
    BY EstimateOfEntry
  <2>14. s \ {f} \in SUBSET S /\ ~Fails(s \ {f})
    BY <1>3, <2>3, <2>4
  <2> DEFINE r == s \ {f, c}
  <2>15. (s \ {c}) \ {f} = r /\ (s \ {f}) \ {c} = r /\ f \in s \ {c} /\ c \in s \ {f}
    BY <2>6, <2>12
  <2>16. total[s \ {c}] = EntryTokens(f) + total[r]
    BY <2>8, <2>15
  <2>17. total[s \ {f}] = EntryTokens(c) + total[r]
    BY <2>14, <2>15
  <2>18. r \in SUBSET S /\ total[r] \in Nat
    <3>1. (s \ {c}) \ {f} \in SUBSET S /\ Cardinality(s \ {c}) = n - 1
      BY <1>3, <2>3, <2>6
    <3>2. Cardinality(r) = (n - 1) - 1
      BY <1>3, <2>15, <3>1
    <3> HIDE DEF Fails
    <3>3. ~Fails(r)
      BY <1>1, <2>2, <2>15, <3>1, <3>2
    <3>4. QED
      BY <2>15, <3>1, <3>3 DEF Fails
  <2> HIDE DEF c, r
  <2>19. QED
    BY <2>7, <2>9, <2>11, <2>13, <2>16, <2>17, <2>18
<1>5. QED
  BY <1>2, <1>4

(* Totals of a set do not depend on the files around it. *)
LEMMA TotalsAgree ==
    ASSUME NEW S \in SUBSET Files, IsFiniteSet(S), NEW T \in SUBSET S,
           NEW g, Totals(g, S), NEW h, Totals(h, T)
    PROVE  g[T] = h[T]
<1> DEFINE Failing == {n \in Nat : \E s \in SUBSET T : Cardinality(s) = n /\ g[s] # h[s]}
<1>1. \A s \in SUBSET T : IsFiniteSet(s) /\ Cardinality(s) \in Nat
  BY FS_Subset, FS_CardinalityType
<1>2. SUFFICES ASSUME g[T] # h[T] PROVE FALSE
  OBVIOUS
<1>3. PICK n \in Failing : \A m \in Failing : n <= m
  <2>1. Failing # {} /\ Failing \in SUBSET Nat
    BY <1>1, <1>2
  <2> HIDE DEF Failing
  <2>2. QED
    BY <2>1, SmallestOf
<1>4. PICK s \in SUBSET T : Cardinality(s) = n /\ g[s] # h[s]
  BY <1>3
<1>5. s # {}
  BY <1>4 DEF Totals
<1> DEFINE c == Pick(s)
<1>6. c \in s
  BY <1>5, PickType
<1>7. /\ g[s] = EntryTokens(c) + g[s \ {c}]
      /\ h[s] = EntryTokens(c) + h[s \ {c}]
  BY <1>5 DEF Totals
<1>8. g[s \ {c}] = h[s \ {c}]
  <2>1. s \ {c} \in SUBSET T /\ Cardinality(s \ {c}) = n - 1
    BY <1>1, <1>4, <1>6, FS_RemoveElement
  <2> HIDE DEF c
  <2>2. QED
    BY <1>1, <1>3, <2>1
<1>9. QED
  BY <1>4, <1>7, <1>8

(* The tokens of no file, and of one file more. *)
LEMMA SumOfNone == TokensOf({}) = 0
  BY SumIsTotal, TotalOfSet, FS_EmptySet

LEMMA SumOfOneMore ==
    ASSUME NEW S \in SUBSET Files, IsFiniteSet(S), NEW f \in Files \ S
    PROVE  TokensOf(S \cup {f}) = TokensOf(S) + EntryTokens(f)
<1> DEFINE T == S \cup {f}
<1>1. T \in SUBSET Files /\ IsFiniteSet(T) /\ S \in SUBSET T /\ f \in T /\ T \ {f} = S
  BY FS_AddElement
<1> HIDE DEF T
<1>2. PICK g : Totals(g, T) /\ TokensOf(T) = g[T]
  BY <1>1, SumIsTotal
<1>3. PICK h : Totals(h, S) /\ TokensOf(S) = h[S]
  BY SumIsTotal
<1>4. g[T] = EntryTokens(f) + g[S]
  <2>1. g[T] = EntryTokens(f) + g[T \ {f}]
    BY <1>1, <1>2, TotalOfSet
  <2>2. QED
    BY <1>1, <2>1
<1>5. g[S] = h[S]
  BY <1>1, <1>2, <1>3, TotalsAgree
<1>6. EntryTokens(f) \in Nat /\ h[S] \in Nat
  BY <1>3, TotalOfSet, EstimateOfEntry
<1>7. QED
  BY <1>2, <1>3, <1>4, <1>5, <1>6 DEF T

(* The files of a list are finitely many. *)
LEMMA ElementsFinite ==
    ASSUME NEW S, NEW s \in Seq(S)
    PROVE  IsFiniteSet(Elements(s))
<1>1. Len(s) \in Nat /\ DOMAIN s = 1..Len(s)
  BY LenProperties
<1>2. s \in Surjection(1..Len(s), Elements(s))
  BY <1>1, LenProperties, ElementOfSeq DEF Elements, Surjection
<1>3. QED
  BY <1>1, <1>2, FS_NatSurjection DEF ExistsSurjection

-----------------------------------------------------------------------------
(* What is in the prompt. *)

Before(f) == {g \in Elements(included) : Position[g] < Position[f]}

(* What makes PackedGreedily inductive: files are taken in their order, so  *)
(* that what precedes a file that was looked at never changes again, and    *)
(* the tokens used are those of the files in the prompt.                    *)
PackInv ==
    /\ NothingPackedYet
    /\ \A f \in Elements(included) \cup Elements(skipped) : \A g \in candidates :
          Position[f] < Position[g]
    /\ tokensUsed = TokensOf(Elements(included))
    /\ \A f \in Elements(included) : TokensOf(Before(f)) + EntryTokens(f) <= Budget
    /\ \A f \in Elements(skipped) : TokensOf(Before(f)) + EntryTokens(f) > Budget

(* A file that is included comes behind every file looked at before, and    *)
(* so changes nothing of what was decided for those.                        *)
LEMMA PackInvInclude ==
    ASSUME TypeOK, TypeOK', PackInv, NEW f \in Files, Include(f)
    PROVE  PackInv'
<1>1. /\ Elements(included') = Elements(included) \cup {f}
      /\ Elements(included) \in SUBSET Files
      /\ Elements(skipped) \in SUBSET Files
      /\ IsFiniteSet(Elements(included))
  BY ElementsOfAppend, ElementsType, ElementsFinite DEF Include, TypeOK
<1>2. /\ \A g \in Elements(included) \cup Elements(skipped) : Position[g] < Position[f]
      /\ f \notin Elements(included)
      /\ f \notin Elements(skipped)
  BY DEF Include, First, PackInv, TypeOK
<1>3. /\ candidates' = candidates \ {f}
      /\ \A g \in candidates' : Position[f] < Position[g]
  BY ScannerAssumption DEF Include, First, TypeOK
<1>4. tokensUsed' = TokensOf(Elements(included'))
  BY <1>1, <1>2, SumOfOneMore DEF Include, PackInv
<1>5. Before(f)' = Elements(included)
  BY <1>1, <1>2, ScannerAssumption DEF Before
<1>6. \A g \in Elements(included) \cup Elements(skipped) : Before(g)' = Before(g)
  BY <1>1, <1>2, ScannerAssumption DEF Before
<1>7. TokensOf(Before(f)') + EntryTokens(f) <= Budget
  BY <1>5 DEF Include, Fits, PackInv
<1>8. skipped' = skipped /\ pc' = "pack"
  BY DEF Include
<1>9. \A g \in Elements(included') : TokensOf(Before(g)') + EntryTokens(g) <= Budget
  BY <1>1, <1>6, <1>7 DEF PackInv
<1>10. \A g \in Elements(skipped') : TokensOf(Before(g)') + EntryTokens(g) > Budget
  BY <1>6, <1>8 DEF PackInv
<1>11. \A g \in Elements(included') \cup Elements(skipped') : \A e \in candidates' :
          Position[g] < Position[e]
  BY <1>1, <1>3, <1>8 DEF PackInv
<1>12. QED
  BY <1>4, <1>8, <1>9, <1>10, <1>11 DEF PackInv, NothingPackedYet, TokensOf

(* A file that is skipped did not fit behind all files of the prompt. *)
LEMMA PackInvSkip ==
    ASSUME TypeOK, PackInv, NEW f \in Files, Skip(f)
    PROVE  PackInv'
<1>1. /\ Elements(skipped') = Elements(skipped) \cup {f}
      /\ Elements(included) \in SUBSET Files
  BY ElementsOfAppend, ElementsType DEF Skip, TypeOK
<1>2. \A g \in Elements(included) : Position[g] < Position[f]
  BY DEF Skip, First, PackInv, TypeOK
<1>3. /\ candidates' = candidates \ {f}
      /\ \A g \in candidates' : Position[f] < Position[g]
  BY ScannerAssumption DEF Skip, AfterSkip, First, TypeOK
<1>4. Before(f) = Elements(included)
  BY <1>2 DEF Before
<1>5. TokensOf(Before(f)) + EntryTokens(f) > Budget
  <2>1. EntryTokens(f) \in Nat /\ tokensUsed \in Nat /\ Budget \in Nat
    BY EstimateOfEntry, ScannerAssumption DEF TypeOK
  <2>2. ~(tokensUsed + EntryTokens(f) <= Budget)
    BY DEF Skip, Fits
  <2>3. QED
    BY <1>4, <2>1, <2>2 DEF PackInv
<1>6. included' = included /\ tokensUsed' = tokensUsed /\ pc' = "pack"
  BY DEF Skip
<1>7. \A g : Before(g)' = Before(g)
  BY <1>6 DEF Before
<1>8. QED
  BY <1>1, <1>3, <1>5, <1>6, <1>7 DEF PackInv, NothingPackedYet, TokensOf

(* A file is in the prompt exactly if its tokens fit behind those of the    *)
(* files in the prompt that precede it by name, whatever the order of the   *)
(* walk, the sizes and the budget.                                          *)
THEOREM PackingIsGreedy == Spec => []PackedGreedily
<1>1. Init => PackInv
  <2>1. Elements(<<>>) = {} /\ TokensOf({}) = 0
    BY ElementsOfEmpty, SumOfNone
  <2>2. QED
    BY <2>1 DEF Init, PackInv, NothingPackedYet
<1>2. TypeOK /\ TypeOK' /\ PackInv /\ [Next]_vars => PackInv'
  <2> SUFFICES ASSUME TypeOK, TypeOK', PackInv, [Next]_vars
               PROVE  PackInv'
    OBVIOUS
  <2>1. CASE UNCHANGED <<included, skipped, tokensUsed>> /\ candidates' \subseteq candidates
                /\ (pc' \in {"start", "walk"} => pc \in {"start", "walk"})
    <3>1. \A g : Before(g)' = Before(g)
      BY <2>1 DEF Before
    <3>2. QED
      BY <2>1, <3>1 DEF PackInv, NothingPackedYet, TokensOf
  <2>2. CASE UNCHANGED <<included, skipped, tokensUsed>> /\ pc \in {"start", "walk"}
    <3>1. \A g : Before(g)' = Before(g)
      BY <2>2 DEF Before
    <3>2. QED
      BY <2>2, <3>1, ElementsOfEmpty DEF PackInv, NothingPackedYet, TokensOf
  <2>3. ASSUME NEW f \in Files, Include(f)
        PROVE  PackInv'
    BY <2>3, PackInvInclude
  <2>4. ASSUME NEW f \in Files, Skip(f)
        PROVE  PackInv'
    BY <2>4, PackInvSkip
  <2>5. QED
    BY <2>1, <2>2, <2>3, <2>4
    DEF Next, Walk, Pack, AreaIsFile, AreaIsNothing, AreaIsDirectory, Reach, PassOver,
        Untracked, Collect, Unmatched, Match, BreakOff, WalkEnds, WalkThrows, PackEnds, Unopenable,
        resultVars, vars
<1>3. PackInv => PackedGreedily
  BY DEF PackInv, PackedGreedily, TokensOf, Before
<1>4. QED
  BY <1>1, <1>2, <1>3, TypeCorrect, PTL DEF Spec

=============================================================================
