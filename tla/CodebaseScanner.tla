-------------------------- MODULE CodebaseScanner --------------------------
(***************************************************************************)
(* CodebaseScanner (src/src/CodebaseScanner.cpp): Scan, which packs the     *)
(* files of an area into a prompt, and FindFilesMatchingKeyword.            *)
(*                                                                          *)
(* Both walk a directory tree in the order the file system gives, while     *)
(* editors and builds go on changing it.  One error_code serves the whole   *)
(* loop: what is_regular_file reports for one entry is looked at before the *)
(* next.  (The status of a link without a target is an error in libstdc++.) *)
(***************************************************************************)
EXTENDS Naturals, Sequences, FiniteSets, FiniteSetsExt

CONSTANTS
    Entries,    \* what a recursive walk of the area meets
    Files,      \* ... that are regular files or links to one
    Dangling,   \* ... that are links without a target
    Excluded,   \* ... whose path has a component .git or build
    Tracked,    \* files with a tracked extension
    Matching,   \* files whose content or name has the keyword
    Flaky,      \* files that may be gone or locked when they are opened
    Vanishing,  \* whether a directory may vanish during a walk, and be thrown about
    Position,   \* the order of std::sort
    Header,     \* bytes of a file's header line
    Content,    \* bytes of its content
    Budget,     \* tokenBudget
    MaxResults  \* maxResults

ASSUME ScannerAssumption ==
    /\ Files \subseteq Entries
    /\ Dangling \subseteq Entries \ Files
    /\ Excluded \subseteq Entries
    /\ Tracked \subseteq Files
    /\ Matching \subseteq Files
    /\ Flaky \subseteq Files
    /\ Vanishing \in BOOLEAN
    /\ Position \in [Files -> Nat]
    /\ \A f, g \in Files : Position[f] = Position[g] => f = g
    /\ Header \in [Files -> Nat]
    /\ Content \in [Files -> Nat]
    /\ Budget \in Nat
    /\ MaxResults \in Nat \ {0}

VARIABLES
    op,          \* "scan" or "grep"
    pc,
    unseen,      \* entries the walk has not reached
    ec,          \* whether the error code is set
    candidates,  \* files found and not yet packed
    included,    \* filesIncluded
    skipped,     \* filesSkippedBudget
    tokensUsed,
    bytes,       \* size of concatenatedContent
    matches,     \* the files found by the keyword, in the order they were
    area,        \* history: the files Scan was asked for
    unopened     \* history: files that could not be opened

walkVars == <<unseen, ec>>
resultVars == <<included, skipped, tokensUsed, bytes>>
vars == <<op, pc, walkVars, candidates, resultVars, matches, area, unopened>>

Elements(s) == {s[i] : i \in DOMAIN s}

-----------------------------------------------------------------------------
(* The start of Scan. *)

(* The area is one file: neither filter is applied to it. *)
AreaIsFile ==
    /\ pc = "start"
    /\ op = "scan"
    /\ \E f \in Files : candidates' = {f}
    /\ area' = candidates'
    /\ pc' = "pack"
    /\ UNCHANGED <<op, walkVars, resultVars, matches, unopened>>

(* The area does not exist or cannot be opened. *)
AreaIsNothing ==
    /\ pc = "start"
    /\ pc' = IF op = "scan" THEN "pack" ELSE "done"
    /\ UNCHANGED <<op, walkVars, candidates, resultVars, matches, area, unopened>>

AreaIsDirectory ==
    /\ pc = "start"
    /\ pc' = "walk"
    /\ unseen' = Entries
    /\ area' = Tracked \ Excluded
    /\ UNCHANGED <<op, ec, candidates, resultVars, matches, unopened>>

-----------------------------------------------------------------------------
(* The walk.  Entries are met in any order. *)

AfterWalk == IF op = "scan" THEN "pack" ELSE "done"

Reach(e) ==
    /\ pc = "walk"
    /\ ~ec
    /\ e \in unseen
    /\ unseen' = unseen \ {e}

(* Not looked at, so that ec stays clear. *)
Passed(e) == e \in Excluded

PassOver(e) ==
    /\ Reach(e)
    /\ Passed(e)
    /\ UNCHANGED <<op, pc, ec, candidates, resultVars, matches, area, unopened>>

Untracked(e) ==
    /\ Reach(e)
    /\ ~Passed(e)
    /\ e \notin Tracked
    /\ ec' = (e \in Dangling)
    /\ UNCHANGED <<op, pc, candidates, resultVars, matches, area, unopened>>

Collect(e) ==
    /\ Reach(e)
    /\ ~Passed(e)
    /\ e \in Tracked
    /\ op = "scan"
    /\ candidates' = candidates \cup {e}
    /\ UNCHANGED <<op, pc, ec, resultVars, matches, area, unopened>>

Unmatched(e) ==
    /\ Reach(e)
    /\ ~Passed(e)
    /\ e \in Tracked
    /\ op = "grep"
    /\ e \notin Matching \/ e \in Flaky
    /\ unopened' = IF e \in Matching THEN unopened \cup {e} ELSE unopened
    /\ UNCHANGED <<op, pc, ec, candidates, resultVars, matches, area>>

(* Mutant of Enough: one more is taken. *)
EnoughAfter(n) == n > MaxResults

Enough(n) == n >= MaxResults

Match(e) ==
    /\ Reach(e)
    /\ ~Passed(e)
    /\ e \in Tracked \cap Matching
    /\ op = "grep"
    /\ matches' = Append(matches, e)
    /\ pc' = IF Enough(Len(matches')) THEN "done" ELSE pc
    /\ UNCHANGED <<op, ec, candidates, resultVars, area, unopened>>

(* The loop's own test, with an entry left to visit. *)
BreakOff ==
    /\ pc = "walk"
    /\ ec
    /\ unseen # {}
    /\ pc' = AfterWalk
    /\ UNCHANGED <<op, walkVars, candidates, resultVars, matches, area, unopened>>

WalkEnds ==
    /\ pc = "walk"
    /\ unseen = {}
    /\ pc' = AfterWalk
    /\ UNCHANGED <<op, walkVars, candidates, resultVars, matches, area, unopened>>

(* The increment has no error_code: it throws, and nobody catches. *)
WalkThrows ==
    /\ pc = "walk"
    /\ Vanishing
    /\ pc' = "aborted"
    /\ UNCHANGED <<op, walkVars, candidates, resultVars, matches, area, unopened>>

-----------------------------------------------------------------------------
(* Packing, in sorted order. *)

(* Mutant of EstimateTokens: bytes over four, rounded down. *)
EstimateRoundedDown(n) == n \div 4

EstimateTokens(n) == (n \div 4) + 1

EntryTokens(f) == EstimateTokens(Header[f]) + EstimateTokens(Content[f])

First(f) == f \in candidates /\ \A g \in candidates : Position[f] <= Position[g]

Unopenable(f) ==
    /\ pc = "pack"
    /\ First(f)
    /\ f \in Flaky
    /\ candidates' = candidates \ {f}
    /\ unopened' = unopened \cup {f}
    /\ UNCHANGED <<op, pc, walkVars, resultVars, matches, area>>

(* Mutant of Fits: the header is not counted. *)
FitsWithoutHeader(f) == tokensUsed + EstimateTokens(Content[f]) <= Budget

Fits(f) == tokensUsed + EntryTokens(f) <= Budget

(* Mutants of AfterSkip: the first file that does not fit ends the loop, or *)
(* is tried again.                                                          *)
AfterSkipNothing(f) == {}
AfterSkipAgain(f) == candidates

AfterSkip(f) == candidates \ {f}

Skip(f) ==
    /\ pc = "pack"
    /\ First(f)
    /\ ~Fits(f)
    /\ candidates' = AfterSkip(f)
    /\ skipped' = Append(skipped, f)
    /\ UNCHANGED <<op, pc, walkVars, included, tokensUsed, bytes, matches, area, unopened>>

Include(f) ==
    /\ pc = "pack"
    /\ First(f)
    /\ Fits(f)
    /\ candidates' = candidates \ {f}
    /\ included' = Append(included, f)
    /\ tokensUsed' = tokensUsed + EntryTokens(f)
    /\ bytes' = bytes + Header[f] + Content[f]
    /\ UNCHANGED <<op, pc, walkVars, skipped, matches, area, unopened>>

PackEnds ==
    /\ pc = "pack"
    /\ candidates = {}
    /\ pc' = "done"
    /\ UNCHANGED <<op, walkVars, candidates, resultVars, matches, area, unopened>>

-----------------------------------------------------------------------------
(* The specification. *)

Init ==
    /\ op \in {"scan", "grep"}
    /\ pc = "start"
    /\ unseen = {}
    /\ ec = FALSE
    /\ candidates = {}
    /\ included = <<>>
    /\ skipped = <<>>
    /\ tokensUsed = 0
    /\ bytes = 0
    /\ matches = <<>>
    /\ area = {}
    /\ unopened = {}

Walk ==
    \/ \E e \in Entries : PassOver(e) \/ Untracked(e) \/ Collect(e) \/ Unmatched(e) \/ Match(e)
    \/ BreakOff
    \/ WalkEnds
    \/ WalkThrows

Pack == PackEnds \/ \E f \in Files : Unopenable(f) \/ Skip(f) \/ Include(f)

Next == AreaIsFile \/ AreaIsNothing \/ AreaIsDirectory \/ Walk \/ Pack

Spec == Init /\ [][Next]_vars

-----------------------------------------------------------------------------
(* Properties. *)

(* The types, and that a file is packed, skipped and given up at most once. *)
TypeOK ==
    /\ op \in {"scan", "grep"}
    /\ pc \in {"start", "walk", "pack", "done", "aborted"}
    /\ unseen \subseteq Entries
    /\ ec \in BOOLEAN
    /\ candidates \subseteq Files
    /\ included \in Seq(Files)
    /\ skipped \in Seq(Files)
    /\ tokensUsed \in Nat
    /\ bytes \in Nat
    /\ matches \in Seq(Files)
    /\ area \subseteq Files
    /\ unopened \subseteq Files
    /\ candidates \cap (Elements(included) \cup Elements(skipped)) = {}

(* The tokens of the prompt's files are within the budget, and estimating   *)
(* header and content of each file apart never gives less than estimating   *)
(* the whole text would.                                                    *)
EstimateHolds ==
    /\ tokensUsed <= Budget
    /\ included # <<>> => EstimateTokens(bytes) <= tokensUsed

(* A file is in the prompt exactly if it fits behind the files in the       *)
(* prompt that precede it by name, in whatever order the walk found them.   *)
PackedGreedily ==
    LET Before(f) == {g \in Elements(included) : Position[g] < Position[f]}
        Taken(f) == MapThenSumSet(EntryTokens, Before(f))
    IN  /\ \A f \in Elements(included) : Taken(f) + EntryTokens(f) <= Budget
        /\ \A f \in Elements(skipped) : Taken(f) + EntryTokens(f) > Budget

(* Every file of the area is in the prompt, listed as skipped, or was not   *)
(* to be opened, and nothing else is there.  Files are missing only if a    *)
(* walk broke off at an error before it reached them.                       *)
FilesAccounted ==
    (pc = "done" /\ op = "scan") =>
        LET found == Elements(included) \cup Elements(skipped) \cup unopened
        IN  /\ found \subseteq area
            /\ area \ found \subseteq unseen
            /\ unseen # {} => ec

(* CodebaseScanner.h:24-25: "An empty string scans the whole root".         *)
WholeAreaScanned ==
    (pc = "done" /\ op = "scan") =>
        area \subseteq Elements(included) \cup Elements(skipped) \cup unopened

(* A search gives at most what it was asked for, and misses a file that     *)
(* matches and can be read only where it did not get to: because it had     *)
(* enough or broke off at an error.                                         *)
SearchComplete ==
    (pc = "done" /\ op = "grep") =>
        /\ Len(matches) <= MaxResults
        /\ Elements(matches) \subseteq area \cap Matching
        /\ (area \cap Matching) \ (Elements(matches) \cup unopened) \subseteq unseen
        /\ unseen # {} => ec \/ Len(matches) = MaxResults
=============================================================================
