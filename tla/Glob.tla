------------------------------- MODULE Glob -------------------------------
(***************************************************************************)
(* globMatches of src/routing/selector.ts: the matcher of the allow and    *)
(* exclude patterns of automatic routing.  It is a greedy two-pointer scan *)
(* with one backtracking point, the last "*" met, so that no pattern of a  *)
(* caller costs exponential time; one iteration of its loop is one step.   *)
(* Case folding is left out: the alphabet is of folded characters.         *)
(***************************************************************************)
EXTENDS Integers, SequencesExt

CONSTANTS
    Letters,           \* the literal characters
    MaxGlob,           \* bound: length of a pattern
    MaxValue,          \* bound: length of a value
    MaxGlobWildcards

ASSUME GlobAssumption ==
    /\ {MaxGlob, MaxValue, MaxGlobWildcards} \subseteq Nat
    /\ {"*", "end"} \cap Letters = {}

VARIABLES
    glob,    \* the pattern p
    globText,    \* the value v
    scan,    \* [pi, vi, star, mark], positions from 1; star = 0 for none
    globAnswer   \* "open", "yes" or "no"

globVars == <<glob, globText, scan, globAnswer>>

Words(chars, max) == UNION {[1 .. n -> chars] : n \in 0 .. max}

Wildcards(p) == Cardinality({i \in DOMAIN p : p[i] = "*"})

GlobInit ==
    /\ glob \in Words(Letters \cup {"*"}, MaxGlob)
    /\ globText \in Words(Letters, MaxValue)
    /\ scan = [pi |-> 1, vi |-> 1, star |-> 0, mark |-> 1]
    /\ globAnswer = IF Wildcards(glob) > MaxGlobWildcards THEN "no" ELSE "open"

At(i) == IF i <= Len(glob) THEN glob[i] ELSE "end"

Star ==
    /\ globAnswer = "open" /\ scan.vi <= Len(globText)
    /\ At(scan.pi) = "*"
    /\ scan' = [pi |-> scan.pi + 1, vi |-> scan.vi, star |-> scan.pi, mark |-> scan.vi]
    /\ UNCHANGED <<glob, globText, globAnswer>>

Literal ==
    /\ globAnswer = "open" /\ scan.vi <= Len(globText)
    /\ At(scan.pi) = globText[scan.vi]
    /\ scan' = [scan EXCEPT !.pi = @ + 1, !.vi = @ + 1]
    /\ UNCHANGED <<glob, globText, globAnswer>>

\* keeps the characters matched since the last "*"
ResumeWhereItStopped == [pi |-> scan.star + 1, vi |-> scan.vi + 1, star |-> scan.star, mark |-> scan.vi + 1]

\* Where the scan resumes: the last "*" takes one character more.
Resume == [pi |-> scan.star + 1, vi |-> scan.mark + 1, star |-> scan.star, mark |-> scan.mark + 1]

Backtrack ==
    /\ globAnswer = "open" /\ scan.vi <= Len(globText)
    /\ At(scan.pi) \notin {"*", globText[scan.vi]}
    /\ scan.star # 0
    /\ scan' = Resume
    /\ UNCHANGED <<glob, globText, globAnswer>>

Mismatch ==
    /\ globAnswer = "open" /\ scan.vi <= Len(globText)
    /\ At(scan.pi) \notin {"*", globText[scan.vi]}
    /\ scan.star = 0
    /\ globAnswer' = "no"
    /\ UNCHANGED <<glob, globText, scan>>

\* the value is consumed: the rest of the pattern must be "*"s
Consumed ==
    /\ globAnswer = "open" /\ scan.vi > Len(globText)
    /\ globAnswer' = IF \A i \in scan.pi .. Len(glob) : glob[i] = "*" THEN "yes" ELSE "no"
    /\ UNCHANGED <<glob, globText, scan>>

GlobNext == Star \/ Literal \/ Backtrack \/ Mismatch \/ Consumed

-----------------------------------------------------------------------------
\* Ways to read the pattern from i on against the value from j on: cut[x] characters
\* of the value are taken by the pattern's first x.  A "*" takes any run of
\* characters, another character itself.
Readings(p, v, i, j) ==
    {cut \in [i .. Len(p) -> j .. Len(v)] :
        /\ cut[i] = j /\ cut[Len(p)] = Len(v)
        /\ \A x, y \in i .. Len(p) : x <= y => cut[x] <= cut[y]
        /\ \A x \in (i + 1) .. Len(p) : p[x] # "*" => cut[x] = cut[x - 1] + 1 /\ p[x] = v[cut[x]]}

\* What a glob means: it can be read as the whole value.
Means(p, v) == Readings(p, v, 0, 0) # {}

(***************************************************************************)
(* The scan with one backtracking point answers what the pattern means: an *)
(* exclude pattern never misses a model it names, and an allow pattern     *)
(* never admits one it does not.                                           *)
(***************************************************************************)
GlobIsExact ==
    globAnswer # "open" => ((globAnswer = "yes") <=> (Wildcards(glob) <= MaxGlobWildcards /\ Means(glob, globText)))
=============================================================================
