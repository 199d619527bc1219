--------------------------- MODULE DeployHelperProofs ---------------------------
(***************************************************************************)
(* What deploy_helper promises, for any sessions, releases and number of   *)
(* releases to keep.                                                       *)
(*                                                                         *)
(* cleanup sorts the releases by time and drops what comes after the first *)
(* keep_releases.  That the sorted list has an element at each index, and  *)
(* so as many before the cut as are to be kept, follows from counting: the *)
(* number of newer releases is an injection of n releases into 0 .. n-1,   *)
(* and therefore a bijection.                                              *)
(***************************************************************************)
EXTENDS DeployHelper, FiniteSetTheorems, TLAPS

DeploySteps == {"fetch", "mark", "build", "unmark", "link", "symlink", "tmpcheck", "tmpmake",
                "rename"}

LEMMA InitType == Init => TypeOK
BY DEF Init, TypeOK, Steps

-----------------------------------------------------------------------------
(* Folders and their times.                                                *)

LEMMA TouchType ==
    ASSUME TypeOK, NEW r \in Releases, Touch(r)
    PROVE  /\ built' \in SUBSET Releases
           /\ newer' \in SUBSET (built' \X built')
           /\ unfinished \in SUBSET built' /\ r \in built' /\ built \subseteq built'
<1>1. built' = built \cup {r}
  BY DEF Touch
<1>2. Without(r) \subseteq built' \X built'
  BY <1>1 DEF Without, TypeOK
<1>3. {<<r, q>> : q \in built \ {r}} \subseteq built' \X built'
  BY <1>1
<1> QED BY <1>1, <1>2, <1>3 DEF Touch, TypeOK

LEMMA DeleteType ==
    ASSUME TypeOK, NEW r, Delete(r)
    PROVE  /\ built' \in SUBSET Releases
           /\ newer' \in SUBSET (built' \X built')
           /\ unfinished' \in SUBSET built'
           /\ built' # {} => root'
<1>1. built' = built \ {r} /\ unfinished' = unfinished \ {r} /\ root' = root
  BY DEF Delete
<1>2. newer' \subseteq built' \X built'
  <2>1. newer \subseteq built \X built /\ newer' = {p \in newer : p[1] # r /\ p[2] # r}
    BY DEF TypeOK, Delete, Without
  <2> QED BY <1>1, <2>1
<1> QED BY <1>1, <1>2 DEF TypeOK

-----------------------------------------------------------------------------
(* Types.                                                                  *)

\* What the type invariant says of the sessions and of the history.
SessionsOK ==
    /\ kind \in [Sessions -> {"deploy", "clean"}]
    /\ at \in [Sessions -> Steps]
    /\ rel \in [Sessions -> Releases \cup {None}]
    /\ todo \in [Sessions -> SUBSET Releases]
    /\ victim \in [Sessions -> Releases \cup {None}]
    /\ outcome \in {"none", "ok", "tidy", "failed", "died"}
    /\ sole \in Sessions \cup {None}
    /\ \A s \in Sessions :
          /\ at[s] = "strike" => victim[s] # None
          /\ at[s] \in DeploySteps => kind[s] = "deploy" /\ rel[s] # None

FoldersOK ==
    /\ root \in BOOLEAN
    /\ built \in SUBSET Releases
    /\ unfinished \in SUBSET built
    /\ newer \in SUBSET (built \X built)
    /\ built # {} => root

LinksOK ==
    /\ link \in Releases \cup {None}
    /\ tmp \in Releases \cup {None}

LEMMA TypeParts == TypeOK <=> SessionsOK /\ FoldersOK /\ LinksOK
BY DEF TypeOK, SessionsOK, FoldersOK, LinksOK, DeploySteps

LEMMA TypePartsNext == TypeOK' <=> SessionsOK' /\ FoldersOK' /\ LinksOK'
BY DEF TypeOK, SessionsOK, FoldersOK, LinksOK, DeploySteps

\* A session goes on: to a step of a deploy only in a deploy.
LEMMA GoToType ==
    ASSUME SessionsOK, NEW s \in Sessions, NEW step \in Steps \ {"strike"}, GoTo(s, step),
           step \in DeploySteps => kind[s] = "deploy" /\ rel[s] # None
    PROVE  SessionsOK'
BY DEF SessionsOK, GoTo, task

LEMMA FinishType ==
    ASSUME SessionsOK, NEW s \in Sessions, NEW result \in {"ok", "tidy", "failed", "died"},
           Finish(s, result)
    PROVE  SessionsOK'
BY DEF SessionsOK, Finish, task, Steps, DeploySteps

LEMMA LinkedType ==
    ASSUME SessionsOK, NEW s \in Sessions, Linked(s)
    PROVE  SessionsOK'
BY GoToType, FinishType DEF Linked, Steps, DeploySteps

LEMMA LeftType ==
    ASSUME SessionsOK, NEW s \in Sessions, NEW T \in SUBSET Releases,
           NEW v \in Releases \cup {None}, NEW step \in {"look", "strike", "remove"},
           Left(s, T, v, step), step = "strike" => v # None
    PROVE  SessionsOK'
<1> USE DEF SessionsOK, Left, task
<1>1. /\ kind' = kind /\ rel' = rel /\ outcome' = outcome /\ sole' = sole
      /\ todo' \in [Sessions -> SUBSET Releases]
      /\ victim' \in [Sessions -> Releases \cup {None}]
  OBVIOUS
<1>2. at' \in [Sessions -> Steps]
  BY DEF Steps
<1>3. ASSUME NEW q \in Sessions
      PROVE  /\ at'[q] = "strike" => victim'[q] # None
             /\ at'[q] \in DeploySteps => kind'[q] = "deploy" /\ rel'[q] # None
  BY DEF DeploySteps
<1> QED BY <1>1, <1>2, <1>3

LEMMA BeginType ==
    ASSUME SessionsOK, NEW s \in Sessions, NEW k \in {"deploy", "clean"},
           NEW r \in Releases \cup {None}, NEW step \in Steps \ {"strike"}, Begin(s, k, r, step),
           step \in DeploySteps => k = "deploy" /\ r # None
    PROVE  SessionsOK'
<1> USE DEF SessionsOK, Begin
<1>1. /\ at' \in [Sessions -> Steps]
      /\ kind' \in [Sessions -> {"deploy", "clean"}]
      /\ rel' \in [Sessions -> Releases \cup {None}]
      /\ outcome' = "none" /\ sole' \in Sessions \cup {None}
      /\ todo' = todo /\ victim' = victim
  OBVIOUS
<1>2. ASSUME NEW q \in Sessions
      PROVE  /\ at'[q] = "strike" => victim'[q] # None
             /\ at'[q] \in DeploySteps => kind'[q] = "deploy" /\ rel'[q] # None
  BY DEF DeploySteps
<1> QED BY <1>1, <1>2

\* The beginnings of a task, and the play's own steps.
LEMMA PlayType ==
    ASSUME TypeOK, NEW s \in Sessions,
           \/ \E r \in Releases : Present(s, r) \/ Return(s, r)
           \/ \E r \in Releases \cup {None} : Clean(s, r)
           \/ Fetch(s) \/ Mark(s) \/ Build(s) \/ Die(s)
    PROVE  TypeOK'
<1> USE TypeParts, TypePartsNext, NoneAssumption
<1>1. ASSUME NEW r \in Releases, Present(s, r)
      PROVE  TypeOK'
  <2>1. SessionsOK'
    BY <1>1, BeginType, NoneAssumption DEF Present, Steps
  <2> QED BY <1>1, <2>1 DEF Present, FoldersOK, LinksOK, links
<1>2. ASSUME NEW r \in Releases, Return(s, r)
      PROVE  TypeOK'
  <2>1. SessionsOK'
    BY <1>2, BeginType, NoneAssumption DEF Return, Steps
  <2> QED BY <1>2, <2>1 DEF Return, FoldersOK, LinksOK, links, folders
<1>3. ASSUME NEW r \in Releases \cup {None}, Clean(s, r)
      PROVE  TypeOK'
  <2>1. SessionsOK'
    BY <1>3, BeginType DEF Clean, Steps, DeploySteps
  <2> QED BY <1>3, <2>1 DEF Clean, FoldersOK, LinksOK, links, folders
<1>4. CASE Fetch(s)
  <2>1. kind[s] = "deploy" /\ rel[s] \in Releases
    BY <1>4 DEF Fetch, SessionsOK, DeploySteps
  <2>2. SessionsOK'
    BY <1>4, <2>1, GoToType DEF Fetch, Steps, SessionsOK
  <2>3. FoldersOK'
    BY <1>4, <2>1, TouchType DEF Fetch, FoldersOK
  <2> QED BY <1>4, <2>2, <2>3 DEF Fetch, LinksOK, links
<1>5. CASE Mark(s)
  <2>1. kind[s] = "deploy" /\ rel[s] \in Releases
    BY <1>5 DEF Mark, SessionsOK, DeploySteps
  <2>2. SessionsOK'
    BY <1>5, <2>1, GoToType, FinishType DEF Mark, Steps, SessionsOK
  <2>3. FoldersOK'
    <3>1. CASE rel[s] \in built \ unfinished
      <4>1. Touch(rel[s]) /\ unfinished' = unfinished \cup {rel[s]} /\ root' = root
        BY <1>5, <3>1 DEF Mark
      <4> QED BY <2>1, <3>1, <4>1, TouchType DEF FoldersOK
    <3>2. CASE rel[s] \notin built \ unfinished
      BY <1>5, <3>2 DEF Mark, FoldersOK
    <3> QED BY <3>1, <3>2
  <2> QED BY <1>5, <2>2, <2>3 DEF Mark, LinksOK, links
<1>6. CASE Build(s)
  <2>1. kind[s] = "deploy" /\ rel[s] # None
    BY <1>6 DEF Build, SessionsOK, DeploySteps
  <2>2. SessionsOK'
    BY <1>6, <2>1, GoToType DEF Build, Steps
  <2> QED BY <1>6, <2>2 DEF Build, FoldersOK, LinksOK, folders, links
<1>7. CASE Die(s)
  <2>1. SessionsOK'
    BY <1>7, FinishType DEF Die
  <2> QED BY <1>7, <2>1 DEF Die, FoldersOK, LinksOK, folders, links
<1> QED BY <1>1, <1>2, <1>3, <1>4, <1>5, <1>6, <1>7

LEMMA FinalizeType ==
    ASSUME TypeOK, NEW s \in Sessions, FinalizeStep(s)
    PROVE  TypeOK'
<1> USE TypeParts, TypePartsNext, NoneAssumption
<1>1. kind[s] = "deploy" /\ rel[s] \in Releases
  BY DEF FinalizeStep, Unmark, Link, Symlink, TmpCheck, TmpMake, Rename, SessionsOK, DeploySteps
<1>2. SessionsOK'
  <2> USE <1>1, GoToType, FinishType, LinkedType, NoneAssumption DEF Steps, DeploySteps
  <2>1. CASE Unmark(s)
    BY <2>1 DEF Unmark
  <2>2. CASE Link(s)
    BY <2>2 DEF Link
  <2>3. CASE Symlink(s)
    BY <2>3 DEF Symlink
  <2>4. CASE TmpCheck(s)
    BY <2>4 DEF TmpCheck
  <2>5. CASE TmpMake(s)
    BY <2>5 DEF TmpMake
  <2>6. CASE Rename(s)
    BY <2>6 DEF Rename
  <2> QED BY <2>1, <2>2, <2>3, <2>4, <2>5, <2>6 DEF FinalizeStep
<1>3. FoldersOK'
  <2>1. CASE Unmark(s)
    <3>1. CASE rel[s] \in unfinished
      <4>1. Touch(rel[s]) /\ unfinished' = unfinished \ {rel[s]} /\ root' = root
        BY <2>1, <3>1 DEF Unmark
      <4> QED BY <1>1, <3>1, <4>1, TouchType DEF FoldersOK
    <3>2. CASE rel[s] \notin unfinished
      BY <2>1, <3>2 DEF Unmark, FoldersOK
    <3> QED BY <3>1, <3>2
  <2>2. CASE UNCHANGED folders
    BY <2>2 DEF FoldersOK, folders
  <2> QED BY <2>1, <2>2 DEF FinalizeStep, Link, Symlink, TmpCheck, TmpMake, Rename
<1>4. LinksOK'
  BY <1>1 DEF FinalizeStep, Unmark, Link, Symlink, TmpCheck, TmpMake, Rename, LinksOK, links
<1> QED BY <1>2, <1>3, <1>4

LEMMA CleanType ==
    ASSUME TypeOK, NEW s \in Sessions, CleanStep(s)
    PROVE  TypeOK'
<1> USE TypeParts, TypePartsNext, NoneAssumption
<1>1. LinksOK'
  BY DEF CleanStep, List, Look, Strike, StrikeStops, Rank, Remove, Cleaned, LinksOK, links
<1>2. todo[s] \subseteq Releases /\ victim[s] \in Releases \cup {None}
      /\ (at[s] = "strike" => victim[s] # None)
  BY DEF SessionsOK
<1>3. CASE List(s)
  <2>1. SessionsOK'
    BY <1>3, LeftType, FinishType DEF List, FoldersOK
  <2> QED BY <1>1, <1>3, <2>1 DEF List, FoldersOK, folders
<1>4. ASSUME NEW r \in Releases, Look(s, r)
      PROVE  TypeOK'
  <2>1. SessionsOK'
    BY <1>2, <1>4, LeftType, NoneAssumption DEF Look
  <2> QED BY <1>1, <1>4, <2>1 DEF Look, FoldersOK, folders
<1>5. CASE Strike(s)
  <2>1. SessionsOK'
    BY <1>2, <1>5, LeftType DEF Strike
  <2>2. FoldersOK'
    BY <1>5, DeleteType DEF Strike, FoldersOK, Delete
  <2> QED BY <1>1, <2>1, <2>2
<1>6. CASE StrikeStops(s)
  <2>1. SessionsOK'
    BY <1>6, FinishType DEF StrikeStops
  <2>2. victim[s] \in Releases /\ Touch(victim[s]) /\ root' = root
        /\ unfinished' = unfinished \ {victim[s]} /\ built # {}
    BY <1>6 DEF StrikeStops, FoldersOK
  <2>3. FoldersOK'
    BY <2>2, TouchType DEF FoldersOK
  <2> QED BY <1>1, <2>1, <2>3
<1>7. CASE Rank(s)
  <2>1. Excess(rel[s]) \subseteq Releases
    BY DEF Excess, FoldersOK
  <2>2. SessionsOK'
    BY <1>7, <2>1, LeftType DEF Rank
  <2> QED BY <1>1, <1>7, <2>2 DEF Rank, FoldersOK, folders
<1>8. ASSUME NEW r \in Releases, Remove(s, r)
      PROVE  TypeOK'
  <2>1. SessionsOK'
    BY <1>2, <1>8, LeftType DEF Remove
  <2>2. FoldersOK'
    BY <1>8, DeleteType DEF Remove, FoldersOK, Delete
  <2> QED BY <1>1, <2>1, <2>2
<1>9. CASE Cleaned(s)
  <2>1. SessionsOK'
    BY <1>9, FinishType DEF Cleaned
  <2> QED BY <1>1, <1>9, <2>1 DEF Cleaned, FoldersOK, folders
<1> QED BY <1>3, <1>4, <1>5, <1>6, <1>7, <1>8, <1>9 DEF CleanStep

LEMMA AbsentType == TypeOK /\ Absent => TypeOK'
BY DEF TypeOK, Absent, task

LEMMA NextType == TypeOK /\ [Next]_vars => TypeOK'
<1> SUFFICES ASSUME TypeOK, [Next]_vars
             PROVE  TypeOK'
  OBVIOUS
<1>1. CASE UNCHANGED vars
  BY <1>1 DEF TypeOK, vars
<1>2. CASE Next
  BY <1>2, PlayType, FinalizeType, CleanType, AbsentType DEF Next
<1> QED BY <1>1, <1>2

-----------------------------------------------------------------------------
(* Sorting.                                                                *)

\* N orders S strictly and totally.
StrictOrder(S, N) ==
    /\ \A q \in S : <<q, q>> \notin N
    /\ \A q, r \in S : q = r \/ <<q, r>> \in N \/ <<r, q>> \in N
    /\ \A p, q, r \in S : <<p, q>> \in N /\ <<q, r>> \in N => <<p, r>> \in N

\* How many of S come before r: its index in the sorted list.
Before(S, N, r) == {q \in S : <<q, r>> \in N}

Index(S, N) == [r \in S |-> Cardinality(Before(S, N, r))]

\* Two folders have different indices, the newer one the smaller.
LEMMA IndexGrows ==
    ASSUME NEW S, IsFiniteSet(S), NEW N, StrictOrder(S, N),
           NEW q \in S, NEW r \in S, <<q, r>> \in N
    PROVE  Cardinality(Before(S, N, q)) < Cardinality(Before(S, N, r))
<1> DEFINE B == Before(S, N, q)
           C == Before(S, N, r)
<1>1. IsFiniteSet(B) /\ IsFiniteSet(C) /\ Cardinality(B) \in Nat /\ Cardinality(C) \in Nat
  BY FS_Subset, FS_CardinalityType DEF Before
<1>2. q \notin B
  BY DEF StrictOrder, Before
<1>3. B \cup {q} \subseteq C
  BY DEF StrictOrder, Before
<1>4. Cardinality(B \cup {q}) = Cardinality(B) + 1
  BY <1>1, <1>2, FS_AddElement
<1>5. Cardinality(B \cup {q}) <= Cardinality(C)
  BY <1>1, <1>3, FS_Subset
<1> HIDE DEF B, C
<1>6. Cardinality(B) < Cardinality(C)
  BY <1>1, <1>4, <1>5
<1> QED BY <1>6 DEF B, C

\* Sorting n folders gives each of the indices 0 to n-1 to one of them.
LEMMA IndexIsBijective ==
    ASSUME NEW S, IsFiniteSet(S), NEW N, StrictOrder(S, N)
    PROVE  Index(S, N) \in Bijection(S, 0 .. Cardinality(S) - 1)
<1> DEFINE n == Cardinality(S)
           I == 0 .. n - 1
<1>1. n \in Nat
  BY FS_CardinalityType
<1>2. ASSUME NEW r \in S
      PROVE  Cardinality(Before(S, N, r)) \in I
  <2>1. /\ IsFiniteSet(S \ {r}) /\ Cardinality(S \ {r}) = n - 1
    BY FS_RemoveElement
  <2>2. Before(S, N, r) \in SUBSET (S \ {r})
    BY DEF StrictOrder, Before
  <2>3. /\ IsFiniteSet(Before(S, N, r)) /\ Cardinality(Before(S, N, r)) <= n - 1
    BY <2>1, <2>2, FS_Subset
  <2>4. Cardinality(Before(S, N, r)) \in Nat
    BY <2>3, FS_CardinalityType
  <2> HIDE DEF n
  <2> QED BY <1>1, <2>3, <2>4
<1>3. Index(S, N) \in [S -> I]
  BY <1>2 DEF Index
<1>4. ASSUME NEW q \in S, NEW r \in S, Index(S, N)[q] = Index(S, N)[r]
      PROVE  q = r
  <2>1. Cardinality(Before(S, N, q)) = Cardinality(Before(S, N, r))
    BY <1>4 DEF Index
  <2>2. Cardinality(Before(S, N, q)) \in Nat
    BY <1>1, <1>2
  <2>3. <<q, r>> \notin N /\ <<r, q>> \notin N
    BY <2>1, <2>2, IndexGrows
  <2> QED BY <2>3 DEF StrictOrder
<1>5. Index(S, N) \in Injection(S, I)
  BY <1>3, <1>4 DEF Injection, IsInjective
<1>6. IsFiniteSet(I) /\ Cardinality(I) = n
  BY <1>1, FS_Interval
<1> QED BY <1>5, <1>6, FS_Injection DEF Bijection

\* A list without its first k elements, the slice of cleanup.
Rest(S, N, k) == {r \in S : Cardinality(Before(S, N, r)) >= k}

\* The slice leaves no more than k.
LEMMA SliceLeavesFew ==
    ASSUME NEW S, IsFiniteSet(S), NEW N, StrictOrder(S, N), NEW k \in Nat
    PROVE  IsFiniteSet(S \ Rest(S, N, k)) /\ Cardinality(S \ Rest(S, N, k)) <= k
<1> DEFINE T == S \ Rest(S, N, k)
           f == [r \in T |-> Index(S, N)[r]]
<1>1. /\ Index(S, N) \in [S -> 0 .. Cardinality(S) - 1]
      /\ \A q, r \in S : Index(S, N)[q] = Index(S, N)[r] => q = r
  BY IndexIsBijective DEF Bijection, Injection, IsInjective
<1>2. Cardinality(S) \in Nat
  BY FS_CardinalityType
<1>3. \A r \in S : Index(S, N)[r] \in Nat
  BY <1>1, <1>2
<1>4. \A r \in T : Index(S, N)[r] \in 0 .. k - 1
  BY <1>3 DEF Rest, Index
<1>5. f \in Injection(T, 0 .. k - 1)
  BY <1>1, <1>4 DEF Injection, IsInjective
<1>6. IsFiniteSet(0 .. k - 1) /\ Cardinality(0 .. k - 1) = k
  BY FS_Interval
<1> QED BY <1>5, <1>6, FS_Injection

\* Whatever the slice contains has k before it that it does not contain.
LEMMA SliceHasOlder ==
    ASSUME NEW S, IsFiniteSet(S), NEW N, StrictOrder(S, N), NEW k \in Nat,
           NEW r \in Rest(S, N, k)
    PROVE  Cardinality({q \in S \ Rest(S, N, k) : <<q, r>> \in N}) >= k
<1> DEFINE n == Cardinality(S)
           T == {q \in S \ Rest(S, N, k) : <<q, r>> \in N}
           nth == [i \in 0 .. k - 1 |-> CHOOSE q \in S : Index(S, N)[q] = i]
<1>1. /\ Index(S, N) \in [S -> 0 .. n - 1]
      /\ \A i \in 0 .. n - 1 : \E q \in S : Index(S, N)[q] = i
  BY IndexIsBijective DEF Bijection, Injection, Surjection
<1>2. n \in Nat
  BY FS_CardinalityType
<1>3. r \in S /\ Index(S, N)[r] >= k
  BY DEF Rest, Index
<1>4. k <= n - 1
  <2> HIDE DEF n
  <2> QED BY <1>1, <1>2, <1>3
<1>5. ASSUME NEW i \in 0 .. k - 1
      PROVE  nth[i] \in T /\ Index(S, N)[nth[i]] = i
  <2>1. i \in 0 .. n - 1
    <3> HIDE DEF n
    <3> QED BY <1>2, <1>4
  <2>2. PICK q \in S : q = nth[i] /\ Index(S, N)[q] = i
    BY <1>1, <2>1
  <2>3. q \notin Rest(S, N, k)
    BY <2>2 DEF Rest, Index
  <2>4. <<r, q>> \notin N
    <3>1. SUFFICES ASSUME <<r, q>> \in N PROVE FALSE
      OBVIOUS
    <3>2. Index(S, N)[r] < Index(S, N)[q]
      BY <1>3, <3>1, IndexGrows DEF Index
    <3>3. Index(S, N)[r] \in Nat
      BY <1>1, <1>2, <1>3
    <3> QED BY <1>3, <2>2, <3>2, <3>3
  <2>5. <<q, r>> \in N
    BY <1>3, <2>3, <2>4 DEF StrictOrder
  <2> QED BY <2>2, <2>3, <2>5
<1>6. nth \in [0 .. k - 1 -> T]
  BY <1>5
<1>7. \A i, j \in 0 .. k - 1 : nth[i] = nth[j] => i = j
  BY <1>5
<1>8. nth \in Injection(0 .. k - 1, T)
  <2> HIDE DEF nth, T
  <2> QED BY <1>6, <1>7 DEF Injection, IsInjective
<1>9. IsFiniteSet(T)
  BY FS_Subset
<1>10. Cardinality(0 .. k - 1) = k
  BY FS_Interval
<1>11. Cardinality(0 .. k - 1) <= Cardinality(T)
  <2> HIDE DEF nth, T
  <2> QED BY <1>8, <1>9, FS_Injection
<1>12. Cardinality(T) \in Nat
  BY <1>9, FS_CardinalityType
<1> HIDE DEF T
<1>13. Cardinality(T) >= k
  BY <1>10, <1>11, <1>12
<1> QED BY <1>13 DEF T

\* The folders are finitely many, and no two have the same time.
OrderOK == IsFiniteSet(built) /\ StrictOrder(built, newer)

\* A folder that was just made, marked or unmarked is the latest.
LEMMA TouchOrder ==
    ASSUME OrderOK, NEW r, Touch(r)
    PROVE  OrderOK'
<1>1. IsFiniteSet(built')
  BY FS_AddElement DEF OrderOK, Touch
<1>2. StrictOrder(built', newer')
  BY DEF OrderOK, StrictOrder, Touch, Without
<1> QED BY <1>1, <1>2 DEF OrderOK

LEMMA DeleteOrder ==
    ASSUME OrderOK, NEW r, Delete(r)
    PROVE  OrderOK'
<1>1. IsFiniteSet(built')
  BY FS_RemoveElement DEF OrderOK, Delete
<1>2. StrictOrder(built', newer')
  BY DEF OrderOK, StrictOrder, Delete, Without
<1> QED BY <1>1, <1>2 DEF OrderOK

LEMMA OrderStep == OrderOK /\ [Next]_vars => OrderOK'
<1> SUFFICES ASSUME OrderOK, [Next]_vars
             PROVE  OrderOK'
  OBVIOUS
<1>1. CASE UNCHANGED <<built, newer>>
  BY <1>1 DEF OrderOK, StrictOrder
<1>2. ASSUME NEW r, Touch(r) PROVE OrderOK'
  BY <1>2, TouchOrder
<1>3. ASSUME NEW r, Delete(r) PROVE OrderOK'
  BY <1>3, DeleteOrder
<1>4. CASE Absent
  <2>1. built' = {} /\ newer' = {}
    BY <1>4 DEF Absent
  <2> QED BY <2>1, FS_EmptySet DEF OrderOK, StrictOrder
<1> QED
  BY <1>1, <1>2, <1>3, <1>4
  DEF Next, vars, Present, Return, Clean, Fetch, Mark, Build, Die, FinalizeStep, CleanStep, Unmark,
      Link, Symlink, TmpCheck, TmpMake, Rename, List, Look, Strike, StrikeStops, Rank, Remove,
      Cleaned, folders

\* What cleanup removes are folders, not the reserved one; as many others as are
\* to be kept stay, for each that goes as many that are newer.
LEMMA ExcessIsRest ==
    ASSUME OrderOK, NEW reserve
    PROVE  /\ Excess(reserve) \subseteq built \ {reserve}
           /\ Cardinality((built \ Excess(reserve)) \ {reserve}) <= Keep
           /\ \A r \in Excess(reserve) :
                 Cardinality({q \in built \ Excess(reserve) : <<q, r>> \in newer}) >= Keep
<1> DEFINE S == built \ {reserve}
<1>1. IsFiniteSet(S) /\ StrictOrder(S, newer)
  BY FS_RemoveElement DEF OrderOK, StrictOrder
<1>2. Excess(reserve) = Rest(S, newer, Keep)
  BY DEF Excess, Rest, Before
<1>3. Keep \in Nat
  BY KeepAssumption
<1>4. (built \ Excess(reserve)) \ {reserve} = S \ Rest(S, newer, Keep)
  BY <1>2
<1>5. Cardinality(S \ Rest(S, newer, Keep)) <= Keep
  BY <1>1, <1>3, SliceLeavesFew
<1>6. ASSUME NEW r \in Excess(reserve)
      PROVE  Cardinality({q \in built \ Excess(reserve) : <<q, r>> \in newer}) >= Keep
  <2> DEFINE T == {q \in S \ Rest(S, newer, Keep) : <<q, r>> \in newer}
             U == {q \in built \ Excess(reserve) : <<q, r>> \in newer}
  <2>1. Cardinality(T) >= Keep
    <3>1. r \in Rest(S, newer, Keep)
      BY <1>2
    <3> HIDE DEF S
    <3> QED BY <1>1, <1>3, <3>1, SliceHasOlder
  <2>2. IsFiniteSet(U) /\ T \in SUBSET U
    BY <1>2, FS_Subset DEF OrderOK
  <2>3. IsFiniteSet(T) /\ Cardinality(T) <= Cardinality(U)
    BY <2>2, FS_Subset
  <2>4. Cardinality(T) \in Nat /\ Cardinality(U) \in Nat
    BY <2>2, <2>3, FS_CardinalityType
  <2> HIDE DEF T, U
  <2>5. Cardinality(U) >= Keep
    BY <1>3, <2>1, <2>3, <2>4
  <2> QED BY <2>5 DEF U
<1> QED BY <1>4, <1>5, <1>6 DEF Excess

-----------------------------------------------------------------------------
(* The invariant of the session that has the project to itself.            *)

\* Nobody else is between two steps.
Alone == sole # None => \A q \in Sessions \ {sole} : at[q] = "idle"

\* What a deploy has made sure of, and nobody can have changed since.
DeployOK ==
    sole # None /\ kind[sole] = "deploy" =>
        /\ at[sole] = "symlink" => link = None
        /\ at[sole] = "tmpmake" => tmp = None
        /\ at[sole] = "rename" => tmp = rel[sole]
        /\ at[sole] \in {"tmpcheck", "tmpmake", "rename"} => rel[sole] \in built
        /\ at[sole] \in {"link", "symlink", "tmpcheck", "tmpmake", "rename", "list", "look",
                         "strike", "remove"} => rel[sole] \notin unfinished
        /\ at[sole] \in {"list", "look", "strike", "remove"} => link = rel[sole]
        /\ at[sole] = "remove" => rel[sole] \notin todo[sole]

\* What a cleaning, of a deploy or not, has still to do, and what will stay.
CleanOK ==
    sole # None =>
        /\ at[sole] = "look" => unfinished \subseteq todo[sole]
        /\ at[sole] = "strike" =>
              victim[sole] \in unfinished /\ unfinished \subseteq todo[sole] \cup {victim[sole]}
        /\ at[sole] = "remove" =>
              /\ unfinished = {} /\ todo[sole] \subseteq built
              /\ Cardinality((built \ todo[sole]) \ {rel[sole]}) <= Keep
              /\ \A r \in todo[sole] :
                    Cardinality({q \in built \ todo[sole] : <<q, r>> \in newer}) >= Keep

\* Only a deploy that is over has an outcome.
EndOK == sole # None /\ kind[sole] = "deploy" /\ at[sole] # "idle" => outcome = "none"

IInv ==
    /\ TypeOK
    /\ Alone
    /\ OrderOK
    /\ DeployOK
    /\ CleanOK
    /\ EndOK
    /\ RetrySucceeds
    /\ SuccessIsCurrent

\* The steps of a session that is under way.
SessionStep(s) == Fetch(s) \/ Mark(s) \/ Build(s) \/ Die(s) \/ FinalizeStep(s) \/ CleanStep(s)

LEMMA InitInv == Init => IInv
BY InitType, FS_EmptySet
DEF Init, IInv, Alone, OrderOK, StrictOrder, DeployOK, CleanOK, EndOK, RetrySucceeds, SuccessIsCurrent

LEMMA BeginInv ==
    ASSUME IInv, NEW s \in Sessions, NEW k, NEW r, NEW step \in {"fetch", "unmark", "list"},
           Begin(s, k, r, step), TypeOK', OrderOK', k = "deploy" => step # "list"
    PROVE  IInv'
<1>1. outcome' = "none" /\ sole' \in {None, s} /\ at' = [at EXCEPT ![s] = step]
  BY DEF Begin
<1>2. sole' # None => \A q \in Sessions : at[q] = "idle"
  BY DEF Begin, IInv, TypeOK
<1>3. at'[s] = step /\ \A q \in Sessions \ {s} : at'[q] = at[q]
  BY <1>1 DEF IInv, TypeOK
<1>4. kind'[s] = k
  BY DEF Begin
<1>5. Alone'
  BY <1>1, <1>2, <1>3 DEF Alone
<1>6. DeployOK'
  BY <1>1, <1>3, <1>4 DEF DeployOK
<1>7. EndOK' /\ RetrySucceeds' /\ SuccessIsCurrent'
  BY <1>1 DEF EndOK, RetrySucceeds, SuccessIsCurrent
<1>8. CleanOK'
  BY <1>1, <1>3 DEF CleanOK
<1> QED BY <1>5, <1>6, <1>7, <1>8 DEF IInv

\* Only the session that has the project to itself can make a step.
LEMMA StepAlone ==
    ASSUME IInv, NEW s \in Sessions, SessionStep(s)
    PROVE  /\ sole' = sole /\ kind' = kind /\ rel' = rel
           /\ sole # None => sole = s
           /\ at[s] # "idle"
           /\ \A q \in Sessions \ {s} : at'[q] = at[q]
           /\ Alone'
<1> USE DEF SessionStep, FinalizeStep, CleanStep, Fetch, Mark, Build, Die, Unmark, Link, Symlink,
      TmpCheck, TmpMake, Rename, List, Look, Strike, StrikeStops, Rank, Remove, Cleaned
<1>1. at[s] # "idle"
  OBVIOUS
<1>2. sole' = sole /\ kind' = kind /\ rel' = rel
  BY DEF GoTo, Finish, Linked, Left, task
<1>3. \A q \in Sessions \ {s} : at'[q] = at[q]
  BY DEF GoTo, Finish, Linked, Left, IInv, TypeOK
<1>4. sole # None => sole = s
  BY <1>1 DEF IInv, Alone
<1>5. Alone'
  BY <1>2, <1>3, <1>4 DEF IInv, Alone
<1> QED BY <1>1, <1>2, <1>3, <1>4, <1>5

\* How a step moves the session that has the project to itself.
LEMMA GoToStep ==
    ASSUME IInv, NEW s \in Sessions, NEW step, GoTo(s, step)
    PROVE  at'[s] = step /\ outcome' = outcome /\ todo' = todo /\ victim' = victim
BY DEF GoTo, IInv, TypeOK

LEMMA FinishStep ==
    ASSUME IInv, NEW s \in Sessions, NEW result, Finish(s, result), sole = s
    PROVE  at'[s] = "idle" /\ outcome' = result
BY DEF Finish, IInv, TypeOK

LEMMA LeftStep ==
    ASSUME IInv, NEW s \in Sessions, NEW T, NEW v, NEW step, Left(s, T, v, step)
    PROVE  at'[s] = step /\ outcome' = outcome /\ todo'[s] = T /\ victim'[s] = v
BY DEF Left, IInv, TypeOK

\* The end of a cleaning: what was ranked as too much is gone, nothing else.
LEMMA CleaningStep ==
    ASSUME IInv, NEW s \in Sessions, SessionStep(s), sole = s
    PROVE  CleanOK'
<1> USE GoToStep, FinishStep, LeftStep DEF CleanOK
<1>1. s # None /\ sole' = s /\ rel' = rel
  BY StepAlone, NoneAssumption
<1>2. CleanOK /\ OrderOK /\ unfinished \subseteq built
  BY DEF IInv, TypeOK
<1>3. CASE \/ Fetch(s) \/ Mark(s) \/ Build(s) \/ Die(s) \/ Unmark(s) \/ Link(s) \/ Symlink(s)
           \/ TmpCheck(s) \/ TmpMake(s) \/ Rename(s) \/ StrikeStops(s) \/ Cleaned(s)
  <2>1. at'[s] \notin {"look", "strike", "remove"}
    BY <1>3 DEF Fetch, Mark, Build, Die, Unmark, Link, Symlink, TmpCheck, TmpMake, Rename,
                StrikeStops, Cleaned, Linked
  <2> QED BY <1>1, <2>1
<1>4. CASE List(s)
  BY <1>1, <1>2, <1>4 DEF List, folders
<1>5. ASSUME NEW r \in Releases, Look(s, r)
      PROVE  CleanOK'
  BY <1>1, <1>2, <1>5 DEF Look, folders
<1>6. CASE Strike(s)
  BY <1>1, <1>2, <1>6 DEF Strike, Delete
<1>7. CASE Rank(s)
  <2>1. /\ unfinished' = {} /\ built' = built /\ newer' = newer
        /\ at'[s] = "remove" /\ todo'[s] = Excess(rel[s])
    BY <1>1, <1>2, <1>7 DEF Rank, folders
  <2>2. /\ Excess(rel[s]) \subseteq built
        /\ Cardinality((built \ Excess(rel[s])) \ {rel[s]}) <= Keep
        /\ \A r \in Excess(rel[s]) :
              Cardinality({q \in built \ Excess(rel[s]) : <<q, r>> \in newer}) >= Keep
    BY <1>2, ExcessIsRest
  <2>3. rel'[s] = rel[s]
    BY <1>1
  <2> QED BY <1>1, <2>1, <2>2, <2>3
<1>8. ASSUME NEW r \in Releases, Remove(s, r)
      PROVE  CleanOK'
  <2>1. /\ at[s] = "remove" /\ r \in todo[s]
        /\ at'[s] = "remove" /\ todo'[s] = todo[s] \ {r}
        /\ built' = built \ {r} /\ unfinished' = unfinished \ {r} /\ newer' = Without(r)
    BY <1>8 DEF Remove, Delete
  <2>2. /\ unfinished = {} /\ todo[s] \subseteq built
        /\ Cardinality((built \ todo[s]) \ {rel[s]}) <= Keep
        /\ \A q \in todo[s] : Cardinality({p \in built \ todo[s] : <<p, q>> \in newer}) >= Keep
    BY <1>1, <1>2, <2>1
  <2>3. built' \ todo'[s] = built \ todo[s]
    BY <2>1
  <2>4. ASSUME NEW q \in todo'[s]
        PROVE  Cardinality({p \in built' \ todo'[s] : <<p, q>> \in newer'}) >= Keep
    <3>1. {p \in built' \ todo'[s] : <<p, q>> \in newer'}
            = {p \in built \ todo[s] : <<p, q>> \in newer}
      BY <2>1, <2>3 DEF Without
    <3> QED BY <2>1, <2>2, <3>1
  <2> QED BY <1>1, <2>1, <2>2, <2>3, <2>4
<1> QED BY <1>3, <1>4, <1>5, <1>6, <1>7, <1>8 DEF SessionStep, FinalizeStep, CleanStep

LEMMA SoleStep ==
    ASSUME IInv, NEW s \in Sessions, SessionStep(s), TypeOK', sole = s, kind[s] = "deploy"
    PROVE  DeployOK' /\ EndOK' /\ RetrySucceeds' /\ SuccessIsCurrent'
<1> USE GoToStep, FinishStep, LeftStep DEF DeployOK, EndOK, RetrySucceeds, SuccessIsCurrent
<1>1. sole' = s /\ kind'[s] = "deploy" /\ rel' = rel /\ at[s] # "idle" /\ outcome = "none"
      /\ s # None
  BY StepAlone, NoneAssumption DEF IInv
<1>2. DeployOK
  BY DEF IInv
<1>3. root \/ built = {}
  BY DEF IInv, TypeOK
<1>4. CASE Fetch(s)
  BY <1>1, <1>4 DEF Fetch
<1>5. CASE Mark(s)
  BY <1>1, <1>5 DEF Mark
<1>6. CASE Build(s)
  BY <1>1, <1>6 DEF Build
<1>7. CASE Die(s)
  BY <1>1, <1>7 DEF Die
<1>8. CASE Unmark(s)
  BY <1>1, <1>8 DEF Unmark
<1>9. CASE Link(s)
  BY <1>1, <1>2, <1>9 DEF Link, Linked, folders, links
<1>10. CASE Symlink(s)
  BY <1>1, <1>2, <1>3, <1>10 DEF Symlink, Linked, folders
<1>11. CASE TmpCheck(s)
  BY <1>1, <1>2, <1>11 DEF TmpCheck, folders
<1>12. CASE TmpMake(s)
  BY <1>1, <1>2, <1>3, <1>12 DEF TmpMake, folders
<1>13. CASE Rename(s)
  <2>1. tmp # None
    BY <1>1, <1>2, <1>13 DEF Rename, IInv, TypeOK
  <2> QED BY <1>1, <1>2, <1>13, <2>1 DEF Rename, Linked, folders
<1>14. CASE List(s)
  <2>1. link = rel[s] /\ rel[s] \notin unfinished
    BY <1>1, <1>2, <1>14 DEF List
  <2> QED BY <1>1, <1>3, <1>14, <2>1 DEF List, folders, links
<1>15. ASSUME NEW r \in Releases, Look(s, r)
       PROVE  DeployOK' /\ EndOK' /\ RetrySucceeds' /\ SuccessIsCurrent'
  BY <1>1, <1>2, <1>15 DEF Look, folders, links
<1>16. CASE Strike(s)
  BY <1>1, <1>2, <1>16 DEF Strike, Delete, links
<1>17. CASE StrikeStops(s)
  BY <1>1, <1>17 DEF StrikeStops
<1>18. CASE Rank(s)
  <2>1. rel[s] \notin Excess(rel[s])
    BY DEF Excess
  <2> QED BY <1>1, <1>2, <1>18, <2>1 DEF Rank, folders, links
<1>19. ASSUME NEW r \in Releases, Remove(s, r)
       PROVE  DeployOK' /\ EndOK' /\ RetrySucceeds' /\ SuccessIsCurrent'
  BY <1>1, <1>2, <1>19 DEF Remove, Delete, links
<1>20. CASE Cleaned(s)
  <2>1. unfinished = {} /\ Cardinality(built \ {rel[s]}) <= Keep
    <3>1. built \ todo[s] = built
      BY <1>20 DEF Cleaned
    <3> QED BY <1>1, <1>20, <3>1 DEF Cleaned, IInv, CleanOK
  <2> QED BY <1>1, <1>2, <1>20, <2>1 DEF Cleaned, folders, links
<1> QED
  BY <1>4, <1>5, <1>6, <1>7, <1>8, <1>9, <1>10, <1>11, <1>12, <1>13, <1>14, <1>15, <1>16,
     <1>17, <1>18, <1>19, <1>20
  DEF SessionStep, FinalizeStep, CleanStep

LEMMA NextInv == IInv /\ [Next]_vars => IInv'
<1> SUFFICES ASSUME IInv, [Next]_vars
             PROVE  IInv'
  OBVIOUS
<1>1. TypeOK' /\ OrderOK'
  BY NextType, OrderStep DEF IInv
<1>2. CASE UNCHANGED vars
  BY <1>1, <1>2
  DEF vars, IInv, Alone, DeployOK, CleanOK, EndOK, RetrySucceeds, SuccessIsCurrent
<1>3. ASSUME NEW s \in Sessions, NEW r \in Releases, Present(s, r) \/ Return(s, r)
      PROVE  IInv'
  BY <1>1, <1>3, BeginInv DEF Present, Return
<1>4. ASSUME NEW s \in Sessions, NEW r \in Releases \cup {None}, Clean(s, r)
      PROVE  IInv'
  BY <1>1, <1>4, BeginInv DEF Clean
<1>5. ASSUME NEW s \in Sessions, SessionStep(s)
      PROVE  IInv'
  <2>1. sole' = sole /\ kind' = kind /\ Alone' /\ (sole # None => sole = s)
    BY <1>5, StepAlone
  <2>2. CleanOK'
    BY <1>5, <2>1, CleaningStep DEF CleanOK
  <2>3. CASE sole # None /\ kind[sole] = "deploy"
    BY <1>1, <1>5, <2>1, <2>2, <2>3, SoleStep DEF IInv
  <2>4. CASE ~(sole # None /\ kind[sole] = "deploy")
    BY <1>1, <2>1, <2>2, <2>4 DEF IInv, DeployOK, EndOK, RetrySucceeds, SuccessIsCurrent
  <2> QED BY <2>3, <2>4
<1>6. CASE Absent
  <2>1. sole' = None
    BY <1>6 DEF Absent
  <2> QED
    BY <1>1, <2>1
    DEF IInv, Alone, DeployOK, CleanOK, EndOK, RetrySucceeds, SuccessIsCurrent
<1> QED BY <1>2, <1>3, <1>4, <1>5, <1>6 DEF Next, SessionStep

LEMMA Invariant == Spec => []IInv
BY InitInv, NextInv, PTL DEF Spec

-----------------------------------------------------------------------------
(* Steps.                                                                  *)

\* Only the removal of the project takes the link away.
LEMMA LinkStep == TypeOK /\ [Next]_vars => (link # None /\ root' => link' # None)
<1> SUFFICES ASSUME TypeOK, [Next]_vars, link # None, root'
             PROVE  link' # None
  OBVIOUS
<1>1. CASE UNCHANGED vars
  BY <1>1 DEF vars
<1>2. ASSUME NEW s \in Sessions, FinalizeStep(s)
      PROVE  link' # None
  <2>1. rel[s] # None
    BY <1>2 DEF TypeOK, FinalizeStep, Unmark, Link, Symlink, TmpCheck, TmpMake, Rename
  <2> QED
    BY <1>2, <2>1 DEF FinalizeStep, Unmark, Link, Symlink, TmpCheck, TmpMake, Rename, links
<1>3. ASSUME NEW s \in Sessions, CleanStep(s)
      PROVE  link' # None
  BY <1>3 DEF CleanStep, List, Look, Strike, StrikeStops, Rank, Remove, Cleaned, links
<1>4. CASE Absent
  BY <1>4 DEF Absent
<1> QED
  BY <1>1, <1>2, <1>3, <1>4 DEF Next, Present, Return, Clean, Fetch, Mark, Build, Die, links

\* A deploy links a release that is there, and cleans around the linked one.
LEMMA ServingStep ==
    ASSUME IInv, [Next]_vars, sole # None, sole' = sole, kind'[sole] = "deploy", Served
    PROVE  Served'
<1> USE DEF Served, links, folders
<1>1. TypeOK /\ DeployOK /\ CleanOK /\ link # None
  BY NoneAssumption DEF IInv, TypeOK
<1>2. CASE UNCHANGED vars
  BY <1>2 DEF vars
<1>3. ASSUME NEW s \in Sessions, NEW r \in Releases, Present(s, r) \/ Return(s, r)
      PROVE  Served'
  BY <1>3 DEF Present, Return
<1>4. ASSUME NEW s \in Sessions, NEW r \in Releases \cup {None}, Clean(s, r)
      PROVE  Served'
  BY <1>4 DEF Clean
<1>5. ASSUME NEW s \in Sessions, SessionStep(s)
      PROVE  Served'
  <2>1. sole = s /\ kind[s] = "deploy"
    BY <1>5, StepAlone
  <2>2. CASE Fetch(s)
    BY <2>2 DEF Fetch, Touch
  <2>3. CASE Mark(s)
    BY <2>3 DEF Mark, Touch
  <2>4. CASE Build(s) \/ Die(s)
    BY <2>4 DEF Build, Die
  <2>5. CASE Unmark(s)
    BY <2>5 DEF Unmark, Touch
  <2>6. CASE Link(s) \/ TmpCheck(s) \/ TmpMake(s)
    BY <2>6 DEF Link, TmpCheck, TmpMake
  <2>7. CASE Symlink(s)
    BY <1>1, <2>7 DEF Symlink
  <2>8. CASE Rename(s)
    BY <1>1, <2>1, <2>8 DEF Rename, DeployOK
  <2>9. CASE List(s) \/ Rank(s) \/ Cleaned(s)
    BY <2>9 DEF List, Rank, Cleaned
  <2>10. ASSUME NEW r \in Releases, Look(s, r)
         PROVE  Served'
    BY <2>10 DEF Look
  <2>11. CASE Strike(s)
    <3>1. link \notin unfinished /\ victim[s] \in unfinished
      BY <1>1, <2>1, <2>11 DEF Strike, DeployOK, CleanOK
    <3> QED BY <2>11, <3>1 DEF Strike, Delete
  <2>12. CASE StrikeStops(s)
    BY <2>12 DEF StrikeStops, Touch
  <2>13. ASSUME NEW r \in Releases, Remove(s, r)
         PROVE  Served'
    <3>1. link # r
      BY <1>1, <2>1, <2>13 DEF Remove, DeployOK
    <3> QED BY <2>13, <3>1 DEF Remove, Delete
  <2> QED
    BY <1>5, <2>2, <2>3, <2>4, <2>5, <2>6, <2>7, <2>8, <2>9, <2>10, <2>11, <2>12, <2>13
    DEF SessionStep, FinalizeStep, CleanStep
<1>6. CASE Absent
  BY <1>6 DEF Absent
<1> QED BY <1>2, <1>3, <1>4, <1>5, <1>6 DEF Next, SessionStep

\* What a session that has the project to itself removes was marked, or has
\* enough newer ones that stay.
LEMMA RemovalStep ==
    ASSUME IInv, [Next]_vars, sole # None, sole' = sole, NEW r \in built \ built'
    PROVE  \/ r \in unfinished
           \/ Cardinality({q \in built' : <<q, r>> \in newer}) >= Keep
<1> USE DEF links, folders
<1>1. TypeOK /\ CleanOK /\ OrderOK
  BY DEF IInv
<1>2. PICK s \in Sessions : SessionStep(s)
  BY DEF Next, vars, Present, Return, Clean, Absent, SessionStep
<1>3. sole = s
  BY <1>2, StepAlone
<1>4. \/ Strike(s)
      \/ \E p \in Releases : Remove(s, p)
  BY <1>2 DEF SessionStep, FinalizeStep, CleanStep, Fetch, Mark, Build, Die, Unmark, Link, Symlink,
              TmpCheck, TmpMake, Rename, List, Look, StrikeStops, Rank, Cleaned, Touch
<1>5. CASE Strike(s)
  BY <1>1, <1>3, <1>5 DEF Strike, Delete, CleanOK
<1>6. ASSUME NEW p \in Releases, Remove(s, p)
      PROVE  Cardinality({q \in built' : <<q, r>> \in newer}) >= Keep
  <2>1. built' = built \ {p} /\ r = p /\ r \in todo[s] /\ at[s] = "remove"
    BY <1>6 DEF Remove, Delete
  <2> DEFINE T == {q \in built \ todo[s] : <<q, r>> \in newer}
             U == {q \in built' : <<q, r>> \in newer}
  <2>2. Cardinality(T) >= Keep
    BY <1>1, <1>3, <2>1 DEF CleanOK
  <2>3. IsFiniteSet(U) /\ T \in SUBSET U
    BY <1>1, <2>1, FS_Subset DEF OrderOK
  <2>4. IsFiniteSet(T) /\ Cardinality(T) <= Cardinality(U)
    BY <2>3, FS_Subset
  <2>5. Cardinality(T) \in Nat /\ Cardinality(U) \in Nat
    BY <2>3, <2>4, FS_CardinalityType
  <2> HIDE DEF T, U
  <2>6. Cardinality(U) >= Keep
    BY KeepAssumption, <2>2, <2>4, <2>5
  <2> QED BY <2>6 DEF U
<1> QED BY <1>4, <1>5, <1>6

\* What a cleanup has set out to remove never holds its own release.
ReserveOK == \A s \in Sessions : at[s] = "remove" => rel[s] \notin todo[s]

LEMMA InitReserve == Init => ReserveOK
BY DEF Init, ReserveOK

LEMMA ReserveStep == TypeOK /\ ReserveOK /\ [Next]_vars => ReserveOK'
<1> SUFFICES ASSUME TypeOK, ReserveOK, [Next]_vars
             PROVE  ReserveOK'
  OBVIOUS
<1> USE DEF ReserveOK, task
<1>1. CASE UNCHANGED vars
  BY <1>1 DEF vars
<1>2. ASSUME NEW s \in Sessions, NEW k, NEW r, NEW step \in {"fetch", "unmark", "list"},
             Begin(s, k, r, step)
      PROVE  ReserveOK'
  <2>1. at' = [at EXCEPT ![s] = step] /\ todo' = todo
    BY <1>2 DEF Begin
  <2>2. \A q \in Sessions : q # s /\ at[q] # "idle" => rel'[q] = rel[q]
    BY <1>2 DEF Begin
  <2> QED BY <2>1, <2>2 DEF TypeOK
<1>3. ASSUME NEW s \in Sessions,
             \/ \E step \in Steps \ {"remove"} : GoTo(s, step)
             \/ \E result : Finish(s, result)
             \/ \E T, v : Left(s, T, v, "look") \/ Left(s, T, v, "strike")
      PROVE  ReserveOK'
  BY <1>3 DEF GoTo, Finish, Left, TypeOK
<1>4. ASSUME NEW s \in Sessions, NEW T, rel[s] \notin T, Left(s, T, None, "remove")
      PROVE  ReserveOK'
  BY <1>4 DEF Left, TypeOK
<1>5. ASSUME NEW s \in Sessions, NEW r \in Releases, Present(s, r) \/ Return(s, r)
      PROVE  ReserveOK'
  BY <1>2, <1>5 DEF Present, Return
<1>6. ASSUME NEW s \in Sessions, NEW r \in Releases \cup {None}, Clean(s, r)
      PROVE  ReserveOK'
  BY <1>2, <1>6 DEF Clean
<1>7. ASSUME NEW s \in Sessions, Fetch(s) \/ Mark(s) \/ Build(s) \/ Die(s)
      PROVE  ReserveOK'
  BY <1>3, <1>7 DEF Fetch, Mark, Build, Die, Steps
<1>8. ASSUME NEW s \in Sessions, FinalizeStep(s)
      PROVE  ReserveOK'
  BY <1>3, <1>8
  DEF FinalizeStep, Unmark, Link, Symlink, TmpCheck, TmpMake, Rename, Linked, Steps
<1>9. ASSUME NEW s \in Sessions,
             \/ List(s) \/ Strike(s) \/ StrikeStops(s) \/ Cleaned(s)
             \/ \E r \in Releases : Look(s, r)
      PROVE  ReserveOK'
  BY <1>3, <1>9 DEF List, Strike, StrikeStops, Cleaned, Look
<1>10. ASSUME NEW s \in Sessions, Rank(s)
       PROVE  ReserveOK'
  BY <1>4, <1>10 DEF Rank, Excess
<1>11. ASSUME NEW s \in Sessions, NEW r \in Releases, Remove(s, r)
       PROVE  ReserveOK'
  BY <1>4, <1>11 DEF Remove
<1>12. CASE Absent
  BY <1>12 DEF Absent
<1> QED
  BY <1>1, <1>5, <1>6, <1>7, <1>8, <1>9, <1>10, <1>11, <1>12 DEF Next, CleanStep

\* Only a session that has seen the mark, or that cleans up for another
\* release, takes away what is served.
LEMMA ReservedStep ==
    ASSUME TypeOK, ReserveOK, [Next]_vars, Served, link \notin built', root'
    PROVE  \E s \in Sessions :
              \/ Strike(s) /\ victim[s] = link
              \/ Remove(s, link) /\ rel[s] # link
<1>1. PICK s \in Sessions : SessionStep(s)
  BY DEF Served, Next, vars, Present, Return, Clean, Absent, SessionStep, folders
<1>2. \/ Strike(s)
      \/ \E r \in Releases : Remove(s, r)
  BY <1>1
  DEF Served, SessionStep, FinalizeStep, CleanStep, Fetch, Mark, Build, Die, Unmark, Link, Symlink,
      TmpCheck, TmpMake, Rename, List, Look, StrikeStops, Rank, Cleaned, Touch, folders
<1>3. CASE Strike(s)
  BY <1>3 DEF Strike, Delete, Served
<1>4. ASSUME NEW r \in Releases, Remove(s, r)
      PROVE  Remove(s, link) /\ rel[s] # link
  <2>1. r = link
    BY <1>4 DEF Remove, Delete, Served
  <2> QED BY <1>4, <2>1 DEF Remove, ReserveOK
<1> QED BY <1>2, <1>3, <1>4

-----------------------------------------------------------------------------
(* The theorems.                                                           *)

\* Every variable has its type; the steps of state=finalize are those of a
\* deploy with a release, and a folder is removed only after it was chosen.
THEOREM TypeCorrect == Spec => []TypeOK
BY Invariant, PTL DEF IInv

\* However many sessions overlap or die between two system calls, current is
\* never missing again once it is there, until the project is removed.
THEOREM LinkAlwaysStays == Spec => LinkStays
<1>1. TypeOK /\ [Next]_vars => [link # None /\ root' => link' # None]_vars
  BY LinkStep
<1> QED BY <1>1, TypeCorrect, PTL DEF Spec, LinkStays

\* A deploy that has the project to itself never takes away what is served,
\* whatever sessions that died have left behind.
THEOREM DeployAlwaysServes == Spec => DeployKeepsServing
<1>1. IInv /\ [Next]_vars =>
        [sole # None /\ sole' = sole /\ kind'[sole] = "deploy" /\ Served => Served']_vars
  BY ServingStep
<1> QED BY <1>1, Invariant, PTL DEF Spec, DeployKeepsServing

\* A finalize that has the project to itself and succeeds serves its release,
\* with clean without an unfinished build and without one release too many; it
\* fails only for a release that is not there, because the temporary link of a
\* dead session does no harm.
THEOREM OutcomeIsAlwaysTrue == Spec => []OutcomeIsTrue
BY Invariant, PTL DEF IInv, OutcomeIsTrue

\* cleanup and remove_unfinished_builds, run by a session that has the project
\* to itself, keep the keep_releases latest that are finished, whichever folder
\* goes first and wherever the session dies.
THEOREM OldReleasesGo == Spec => OnlyOldOnesGo
<1> DEFINE Removes == sole # None /\ sole' = sole =>
                        \A r \in built \ built' :
                           \/ r \in unfinished
                           \/ Cardinality({q \in built' : <<q, r>> \in newer}) >= Keep
<1>1. IInv /\ [Next]_vars => [Removes]_vars
  BY RemovalStep
<1> QED BY <1>1, Invariant, PTL DEF Spec, OnlyOldOnesGo

\* Whatever sessions overlap, and wherever one dies, no cleanup removes its own
\* release: what is served goes as a build that was seen marked, or in a
\* cleanup for another release.
THEOREM ReservedAlwaysStays == Spec => ReservedStays
<1> DEFINE Reserved == Served /\ link \notin built' /\ root' =>
                         \E s \in Sessions :
                            \/ Strike(s) /\ victim[s] = link
                            \/ Remove(s, link) /\ rel[s] # link
<1>1. TypeOK /\ ReserveOK /\ [Next]_vars => [Reserved]_vars
  BY ReservedStep
<1> QED BY <1>1, InitReserve, ReserveStep, TypeCorrect, PTL DEF Spec, ReservedStays
=============================================================================
