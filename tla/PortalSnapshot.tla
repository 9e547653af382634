--------------------------- MODULE PortalSnapshot ----------------------------
(***************************************************************************)
(* How a snapshot for the Portal is built from the session and the project *)
(* memory, src/src/portal-snapshot.mjs (safeContinuityMemory,              *)
(* buildPortalSnapshot, fitContinuitySnapshotBudget,                       *)
(* assertPortalSnapshotSafe).  Rows are cut to a number per list, relations *)
(* follow the rows they name, and rows go, list by list, until the whole   *)
(* fits 64 KiB; a snapshot that does not fit without them is refused.      *)
(* A row is its size, the paths it names, the rows it relates, and whether *)
(* its identity may leave the machine; Core gives each row its own         *)
(* identity, which is its list and its place here.  No list is reordered,  *)
(* so that what is left of one is a set of places.  The content of the     *)
(* rest is a size; the paths of the session, the explanation and the story *)
(* are one list, without repeats.                                          *)
(***************************************************************************)
EXTENDS Subsequences

CONSTANTS Lists,        \* lists of the memory, in the order in which they are cut
          Memories,     \* what the memory may hold: a sequence of rows per list
          Touched,      \* what the session may name: sequences of paths
          Limit,        \* per list: the rows that are kept
          Portable,     \* the paths a snapshot may carry
          MaxFiles,     \* 40 in the code
          RowPaths,     \* 8 in the code
          Rests,        \* sizes of what is not memory
          Told,         \* warnings of the memory itself
          MaxWarnings,  \* 8 in the code
          MaxBytes      \* 64 KiB in the code

Content(s) == {s[i] : i \in DOMAIN s}
Names == Content(Lists)
Items == Names \ {"relations"}
Id(l, i) == <<l, i>>

\* Two warnings about paths, those about rows and the budget have room.
SnapshotAssumption ==
  /\ Lists \in Seq(Names) /\ Len(Lists) > 0 /\ Lists[1] = "relations"
  /\ {"components", "changes"} \subseteq Names
  /\ \A i, j \in DOMAIN Lists : Lists[i] = Lists[j] => i = j
  /\ Limit \in [Names -> Nat] /\ Rests \subseteq Nat
  /\ MaxBytes \in Nat /\ MaxWarnings \in Nat /\ MaxWarnings >= 4
  /\ RowPaths \in Nat /\ MaxFiles \in Nat /\ Told \in Nat
  /\ \A m \in Memories : DOMAIN m = Names /\ \A l \in Names :
       /\ m[l] \in Seq(Content(m[l]))
       /\ \A i \in DOMAIN m[l] : m[l][i].size \in Nat /\ m[l][i].paths \in Seq(Content(m[l][i].paths))
  /\ \A s \in Touched : s \in Seq(Content(s)) /\ \A i, j \in DOMAIN s : s[i] = s[j] => i = j

VARIABLES input, rows, warnings, summary, step
vars == <<input, rows, warnings, summary, step>>

Row(l, i) == input.rows[l][i]
Source(l) == DOMAIN input.rows[l]
First(I, n) == {i \in I : Rank(I, i) <= n}
Kept(s, n) == {s[k] : k \in First({j \in DOMAIN s : s[j] \in Portable}, n)}

\* A component needs its path; a change leaves out the files it cannot name.
Admitted(l) == {i \in Source(l) : /\ Row(l, i).sound
                                  /\ l = "components" => Content(Row(l, i).paths) \subseteq Portable}
Projected(l) == First(Admitted(l), Limit[l])

PathsOf(l, I) == UNION {Content(Row(l, i).paths) : i \in I}
PathsKept(l) == UNION {Kept(Row(l, i).paths, RowPaths) : i \in rows[l]}

Upto(s, n) == SubSeq(s, 1, IF n < Len(s) THEN n ELSE Len(s))
Told1 == [i \in 1..(IF Told < MaxWarnings THEN Told ELSE MaxWarnings) |-> <<"memory", i>>]
Prepend(w, s) == Upto(<<w>> \o Sub(s, {i \in DOMAIN s : s[i] # w}), MaxWarnings)
PrependIf(c, w, s) == IF c THEN Prepend(w, s) ELSE s

\* Paths that no file name may carry, and those past the limit of their list.
Rejected(paths) == paths \ Portable
Limited == (PathsOf("components", Admitted("components")) \ PathsKept("components"))
             \cup ((PathsOf("changes", Admitted("changes")) \cap Portable) \ PathsKept("changes"))
Files == Kept(input.touched, MaxFiles)
MemoryPaths == PathsOf("components", Source("components")) \cup PathsOf("changes", Source("changes"))
MemoryUncovered == Rejected(MemoryPaths) \cup Limited
Uncovered == MemoryUncovered \cup (Content(input.touched) \ Files)

-----------------------------------------------------------------------------
\* The rows of each list whose identity may be told, up to its limit.
Project ==
  /\ step = "project"
  /\ rows' = [l \in Names |-> Projected(l)]
  /\ warnings' = PrependIf(\E l \in Names : \E i \in Source(l) : ~Row(l, i).sound,
                           <<"identities", 0>>, Told1)
  /\ step' = "relate" /\ UNCHANGED <<input, summary>>

\* A relation goes with a row it names; rows that are nowhere in the input are
\* cited from elsewhere and stay.
Removed == UNION {{Id(l, i) : i \in Source(l) \ rows[l]} : l \in Items}
Related == {i \in rows["relations"] : Row("relations", i).ends \cap Removed = {}}
Relate ==
  /\ step = "relate"
  /\ rows' = [rows EXCEPT !["relations"] = Related]
  /\ warnings' = PrependIf(Removed # {} \/ Related # Source("relations"), <<"rows", 0>>, warnings)
  /\ step' = "cover" /\ UNCHANGED <<input, summary>>

\* The summary of the task and the memory carry how many paths are missing; the
\* paths themselves stand for their number here.
Cover ==
  /\ step = "cover"
  /\ warnings' = PrependIf(Uncovered # {}, <<"paths", Uncovered>>,
                   PrependIf(MemoryUncovered # {}, <<"paths", MemoryUncovered>>, warnings))
  /\ summary' = Uncovered
  /\ step' = "measure" /\ UNCHANGED <<input, rows>>

Held == UNION {UNION {{<<Id(l, i), b>> : b \in 1..Row(l, i).size} : i \in rows[l]} : l \in Names}
Fixed == input.rest + Cardinality(Files) + Len(warnings)
Fits == Cardinality(Held) + Fixed <= MaxBytes

Measure ==
  /\ step = "measure"
  /\ IF Fits THEN step' = "check" /\ UNCHANGED warnings
     ELSE step' = "fit" /\ warnings' = Append(Upto(warnings, MaxWarnings - 1), <<"reduced", 0>>)
  /\ UNCHANGED <<input, rows, summary>>

\* The last row of the first list, in the order of Lists, that has one.
Last(I) == {i \in I : \A j \in I : j <= i}
Fit ==
  /\ step = "fit"
  /\ \/ /\ Fits \/ \A l \in Names : rows[l] = {}
        /\ step' = "check" /\ UNCHANGED rows
     \/ /\ ~Fits
        /\ \E k \in DOMAIN Lists :
             /\ rows[Lists[k]] # {} /\ \A j \in 1..k - 1 : rows[Lists[j]] = {}
             /\ rows' = [rows EXCEPT ![Lists[k]] = @ \ Last(@)]
        /\ UNCHANGED step
  /\ UNCHANGED <<input, warnings, summary>>

\* assertPortalSnapshotSafe.
Check ==
  /\ step = "check" /\ step' = (IF Fits THEN "built" ELSE "refused")
  /\ UNCHANGED <<input, rows, warnings, summary>>

Init ==
  /\ input \in [rows : Memories, touched : Touched, rest : Rests]
  /\ rows = [l \in Names |-> {}] /\ warnings = <<>> /\ summary = {} /\ step = "project"
Next == Project \/ Relate \/ Cover \/ Measure \/ Fit \/ Check
Spec == Init /\ [][Next]_vars

-----------------------------------------------------------------------------
\* The working lists have their types and lengths.
TypeOK ==
  /\ step \in {"project", "relate", "cover", "measure", "fit", "check", "built", "refused"}
  /\ DOMAIN rows = Names /\ Len(warnings) <= MaxWarnings
  /\ \A l \in Names : rows[l] \subseteq Source(l) /\ Cardinality(rows[l]) <= Limit[l]
  /\ summary \subseteq MemoryPaths \cup Content(input.touched)

RowKinds == {"identities", "rows", "reduced"}
RowsSaid == \E i \in DOMAIN warnings : warnings[i][1] \in RowKinds

\* "coverage is incomplete" is said whenever it is: a row that is missing, for
\* whatever reason, and a path that is nowhere in the snapshot, leave a warning
\* that the memory's own warnings and the later ones do not push out.
NothingOmittedSilently ==
  step \in {"built", "refused"} =>
    \/ RowsSaid
    \/ /\ \A l \in Names : rows[l] = Source(l)
       /\ MemoryPaths \cup Content(input.touched)
            \subseteq Files \cup PathsKept("components") \cup PathsKept("changes") \cup summary

\* "A locally known row that is omitted cannot remain a projected endpoint"
\* (portal-snapshot.mjs:201), also once the budget has taken rows away.
NoRemovedEndpoint ==
  step = "built" => \A i \in rows["relations"] : Row("relations", i).ends \cap Removed = {}

\* Memory never makes a snapshot refused, and a list loses a row to the budget
\* only when the lists before it have none left (portal-snapshot.mjs:241).
MemoryYieldsInOrder ==
  /\ step = "refused" => Held = {} /\ Fixed > MaxBytes
  /\ step \in {"built", "refused"} =>
       \A i \in 2..Len(Lists) :
         rows[Lists[i]] # Projected(Lists[i]) => \A k \in 1..i - 1 : rows[Lists[k]] = {}
=============================================================================
