------------------------- MODULE ChunkUpload_proofs -------------------------
(***************************************************************************)
(* Theorems about putChunksHandle() (ChunkUpload).  The types hold for any *)
(* number of requests at once.  The promises about resuming an upload hold *)
(* when the requests for one file come one at a time, as a client sends    *)
(* them that waits for each answer; the code does not enforce it.          *)
(* MaxInFlight = 1 is a hypothesis of their theorems, for any number of    *)
(* requests after one another.                                             *)
(***************************************************************************)
EXTENDS ChunkUpload, FiniteSetTheorems, WellFoundedInduction, TLAPS

-----------------------------------------------------------------------------
(* Sums.  SumFunctionOnSet(f, S), the sum of f[x] over the x in S, is      *)
(* defined by recursion over the subsets of S.  The number of pairs        *)
(* <<x, n>> with x in S and n in 1 .. f[x] solves that recursion, and the  *)
(* least subset on which another solution would differ from it leads to a  *)
(* contradiction: so the sum is that number.                               *)

Pick(s) == CHOOSE x \in s : TRUE

(* g solves the recursion that defines the sum.                            *)
Partial(f, S, g) ==
  g = [s \in SUBSET S |-> IF s = {} THEN 0 ELSE f[Pick(s)] + g[s \ {Pick(s)}]]

Summands(f, S) == \A x \in S : f[x] \in Nat

Pairs(f, S) == UNION {{x} \X (1 .. f[x]) : x \in S}
CountOf(f, S) == Cardinality(Pairs(f, S))

(* The definition of the community modules, with its recursion named.      *)
LEMMA SumUnfold ==
  ASSUME NEW f, NEW S
  PROVE  SumFunctionOnSet(f, S) = (CHOOSE g : Partial(f, S, g))[S]
BY DEF SumFunctionOnSet, FoldFunctionOnSet, MapThenFoldSet, Partial, Pick

(* One summand has as many pairs as its value.                             *)
LEMMA PairsOfOne ==
  ASSUME NEW x, NEW n \in Nat
  PROVE  IsFiniteSet({x} \X (1 .. n)) /\ Cardinality({x} \X (1 .. n)) = n
<1>1. IsFiniteSet({x}) /\ Cardinality({x}) = 1
  BY FS_Singleton
<1>2. IsFiniteSet(1 .. n) /\ Cardinality(1 .. n) = n
  <2>1. 1 \in Int /\ n \in Int
    OBVIOUS
  <2>2. IsFiniteSet(1 .. n) /\ Cardinality(1 .. n) = IF 1 > n THEN 0 ELSE n - 1 + 1
    BY <2>1, FS_Interval
  <2> QED BY <2>2
<1>3. IsFiniteSet({x} \X (1 .. n))
      /\ Cardinality({x} \X (1 .. n)) = Cardinality({x}) * Cardinality(1 .. n)
  BY <1>1, <1>2, FS_Product
<1> QED BY <1>1, <1>2, <1>3

(* The pairs of a finite set are finitely many.                            *)
LEMMA PairsFinite ==
  ASSUME NEW S, IsFiniteSet(S), NEW f, Summands(f, S)
  PROVE  IsFiniteSet(Pairs(f, S))
<1> DEFINE T == {{x} \X (1 .. f[x]) : x \in S}
           h == [x \in S |-> {x} \X (1 .. f[x])]
<1>1. h \in Surjection(S, T)
  BY DEF Surjection
<1>2. IsFiniteSet(T)
  <2> HIDE DEF T, h
  <2> QED BY <1>1, FS_Surjection
<1>3. ASSUME NEW p \in T PROVE IsFiniteSet(p)
  <2>1. PICK x \in S : p = {x} \X (1 .. f[x])
    OBVIOUS
  <2>2. f[x] \in Nat
    BY DEF Summands
  <2> QED BY <2>1, <2>2, PairsOfOne
<1>4. IsFiniteSet(UNION T)
  <2> HIDE DEF T
  <2> QED BY <1>2, <1>3, FS_UNION
<1> QED BY <1>4 DEF Pairs

(* No element has no pair.                                                 *)
LEMMA CountEmpty == ASSUME NEW f PROVE CountOf(f, {}) = 0
<1>1. Pairs(f, {}) = {}
  BY DEF Pairs
<1> QED BY <1>1, FS_EmptySet DEF CountOf

(* The pairs are counted by a natural number.                              *)
LEMMA CountType ==
  ASSUME NEW S, IsFiniteSet(S), NEW f, Summands(f, S)
  PROVE  CountOf(f, S) \in Nat
BY PairsFinite, FS_CardinalityType DEF CountOf

(* One more element adds as many pairs as its value.                       *)
LEMMA CountAdd ==
  ASSUME NEW S, IsFiniteSet(S), NEW f, Summands(f, S),
         NEW x, x \notin S, f[x] \in Nat
  PROVE  CountOf(f, S \cup {x}) = f[x] + CountOf(f, S)
<1> DEFINE one == {x} \X (1 .. f[x])
<1>1. Pairs(f, S \cup {x}) = Pairs(f, S) \cup one
  BY DEF Pairs
<1>2. Pairs(f, S) \cap one = {}
  BY DEF Pairs
<1>3. IsFiniteSet(Pairs(f, S)) /\ IsFiniteSet(one) /\ Cardinality(one) = f[x]
  BY PairsFinite, PairsOfOne
<1> HIDE DEF one
<1>4. Cardinality(Pairs(f, S) \cup one) =
        Cardinality(Pairs(f, S)) + Cardinality(one) - Cardinality(Pairs(f, S) \cap one)
  BY <1>3, FS_Union
<1>5. Cardinality({}) = 0
  BY FS_EmptySet
<1>6. Cardinality(Pairs(f, S)) \in Nat
  BY <1>3, FS_CardinalityType
<1>7. CountOf(f, S \cup {x}) = Cardinality(Pairs(f, S)) + f[x] - 0
  BY <1>1, <1>2, <1>3, <1>4, <1>5 DEF CountOf
<1> QED BY <1>6, <1>7 DEF CountOf

(* Taking the picked element away and adding it again.                     *)
LEMMA CountPick ==
  ASSUME NEW S, IsFiniteSet(S), NEW f, Summands(f, S),
         NEW s \in SUBSET S, s # {}
  PROVE  CountOf(f, s) = f[Pick(s)] + CountOf(f, s \ {Pick(s)})
<1>1. Pick(s) \in s
  BY DEF Pick
<1> DEFINE x == Pick(s)  t == s \ {Pick(s)}
<1>2. IsFiniteSet(t) /\ Summands(f, t) /\ x \notin t /\ f[x] \in Nat
      /\ s = t \cup {x}
  BY <1>1, FS_Subset DEF Summands
<1> HIDE DEF x, t
<1>3. CountOf(f, t \cup {x}) = f[x] + CountOf(f, t)
  BY <1>2, CountAdd
<1> QED BY <1>2, <1>3 DEF x, t

(* The number of pairs solves the recursion of the sum.                    *)
LEMMA CountSolves ==
  ASSUME NEW S, IsFiniteSet(S), NEW f, Summands(f, S)
  PROVE  Partial(f, S, [s \in SUBSET S |-> CountOf(f, s)])
<1> DEFINE g == [s \in SUBSET S |-> CountOf(f, s)]
<1>1. ASSUME NEW s \in SUBSET S
      PROVE  CountOf(f, s) = IF s = {} THEN 0
                             ELSE f[Pick(s)] + g[s \ {Pick(s)}]
  <2>1. g[s \ {Pick(s)}] = CountOf(f, s \ {Pick(s)})
    OBVIOUS
  <2>2. CASE s = {}
    BY <2>2, CountEmpty
  <2>3. CASE s # {}
    <3>1. CountOf(f, s) = f[Pick(s)] + CountOf(f, s \ {Pick(s)})
      BY <2>3, CountPick
    <3> QED BY <2>1, <2>3, <3>1
  <2> QED BY <2>2, <2>3
<1> QED BY <1>1 DEF Partial

(* No other function does.                                                 *)
LEMMA CountAlone ==
  ASSUME NEW S, IsFiniteSet(S), NEW f, Summands(f, S),
         NEW g, Partial(f, S, g)
  PROVE  \A s \in SUBSET S : g[s] = CountOf(f, s)
<1> DEFINE Bad == {s \in SUBSET S : g[s] # CountOf(f, s)}
           R == StrictSubsetOrdering(S)
<1> SUFFICES ASSUME Bad # {} PROVE FALSE
  OBVIOUS
<1>1. PICK s \in Bad : \A t \in Bad : <<t, s>> \notin R
  <2>1. IsWellFoundedOn(R, SUBSET S)
    BY FS_StrictSubsetOrderingWellFounded, FS_FiniteSubsetsOfFinite
  <2>2. Bad \subseteq SUBSET S
    OBVIOUS
  <2> HIDE DEF Bad, R
  <2> QED BY <2>1, <2>2, WFMin
<1>2. s \in SUBSET S /\ g[s] # CountOf(f, s)
  OBVIOUS
<1>3. g[s] = IF s = {} THEN 0 ELSE f[Pick(s)] + g[s \ {Pick(s)}]
  BY <1>2 DEF Partial
<1>4. CASE s = {}
  BY <1>2, <1>3, <1>4, CountEmpty
<1>5. CASE s # {}
  <2> DEFINE t == s \ {Pick(s)}
  <2>1. Pick(s) \in s
    BY <1>5 DEF Pick
  <2>2. t \in SUBSET S /\ <<t, s>> \in R
    BY <1>2, <2>1 DEF StrictSubsetOrdering
  <2>3. t \notin Bad
    BY <1>1, <2>2
  <2>4. g[t] = CountOf(f, t)
    BY <2>2, <2>3
  <2> QED BY <1>2, <1>3, <1>5, <2>4, CountPick
<1> QED BY <1>4, <1>5

(* The sum is the number of pairs.                                         *)
LEMMA SumIsCount ==
  ASSUME NEW S, IsFiniteSet(S), NEW f, Summands(f, S)
  PROVE  SumFunctionOnSet(f, S) = CountOf(f, S)
<1>1. \E g : Partial(f, S, g)
  BY CountSolves
<1> DEFINE g == CHOOSE g : Partial(f, S, g)
<1>2. Partial(f, S, g)
  BY <1>1
<1> HIDE DEF g
<1>3. g[S] = CountOf(f, S)
  BY <1>2, CountAlone
<1> QED BY <1>3, SumUnfold DEF g

(* The sum over no element is zero.                                        *)
THEOREM SumEmpty == ASSUME NEW f PROVE SumFunctionOnSet(f, {}) = 0
<1>1. IsFiniteSet({}) /\ Summands(f, {})
  BY FS_EmptySet DEF Summands
<1> QED BY <1>1, SumIsCount, CountEmpty

(* The sum of natural numbers is one.                                      *)
THEOREM SumType ==
  ASSUME NEW S, IsFiniteSet(S), NEW f, \A x \in S : f[x] \in Nat
  PROVE  SumFunctionOnSet(f, S) \in Nat
BY SumIsCount, CountType DEF Summands

(* One more element adds its value.                                        *)
THEOREM SumAdd ==
  ASSUME NEW S, IsFiniteSet(S), NEW f, \A x \in S : f[x] \in Nat,
         NEW x, x \notin S, f[x] \in Nat
  PROVE  SumFunctionOnSet(f, S \cup {x}) = f[x] + SumFunctionOnSet(f, S)
<1>1. Summands(f, S) /\ Summands(f, S \cup {x}) /\ IsFiniteSet(S \cup {x})
  BY FS_AddElement DEF Summands
<1> QED BY <1>1, SumIsCount, CountAdd

(* The sum depends on the values on S only.                                *)
THEOREM SumSame ==
  ASSUME NEW S, IsFiniteSet(S), NEW f, NEW g, \A x \in S : f[x] \in Nat,
         \A x \in S : f[x] = g[x]
  PROVE  SumFunctionOnSet(f, S) = SumFunctionOnSet(g, S)
<1>1. Summands(f, S) /\ Summands(g, S)
  BY DEF Summands
<1>2. Pairs(f, S) = Pairs(g, S)
  BY DEF Pairs
<1> QED BY <1>1, <1>2, SumIsCount DEF CountOf

-----------------------------------------------------------------------------
(* Types                                                                   *)

(* The larger of two natural numbers is one of them.                       *)
LEMMA MaxOfTwo ==
  ASSUME NEW a \in Nat, NEW b \in Nat
  PROVE  /\ Max({a, b}) \in Nat
         /\ Max({a, b}) = IF a >= b THEN a ELSE b
<1>1. \E x \in {a, b} : \A y \in {a, b} : x >= y
  OBVIOUS
<1>2. Max({a, b}) \in {a, b} /\ \A y \in {a, b} : Max({a, b}) >= y
  BY <1>1 DEF Max
<1> QED BY <1>2

(* Zero is the smaller one.                                                *)
LEMMA MaxOfZero == ASSUME NEW n \in Nat PROVE Max({0, n}) = n
  BY MaxOfTwo

(* An open file that is still in the directory is the chunk or the         *)
(* assembled file its request is writing.                                  *)
LinkedInv ==
  \A r \in linked :
    /\ pc[r] \in {"copy", "join"}
    /\ pc[r] = "copy" => chunk[idx[r]] \in Nat
    /\ pc[r] = "join" => whole \in Nat

TypeInv == TypeOK /\ LinkedInv

(* A chunk-info without marks is well formed.                              *)
LEMMA NewInfoType == NewInfo \in ChunksInfo
  BY DEF NewInfo, ChunksInfo

(* A process starts without a file on its disk.                            *)
LEMMA InitTypeInv == Init => TypeInv
<1> SUFFICES ASSUME Init PROVE TypeInv
  OBVIOUS
<1> USE DEF Init
<1>1. 0 \in Blocks /\ 0 \in 0 .. BlockNum /\ faults \in 0 .. MaxFaults
  BY BlockNumAssumption, FaultsAssumption DEF Blocks
<1>2. TypeOK
  BY <1>1, NewInfoType DEF TypeOK
<1> QED BY <1>2 DEF TypeInv, LinkedInv

(* Removing the directory keeps the types, whatever else the step does.    *)
LEMMA RemoveType ==
  ASSUME TypeInv, RemoveSavedir
  PROVE  /\ savedir' \in BOOLEAN
         /\ info' \in ChunksInfo \cup {NoFile, Torn}
         /\ chunk' \in [Blocks -> Nat \cup {NoFile}]
         /\ whole' \in Nat \cup {NoFile}
         /\ linked' = {} /\ answered' \subseteq Blocks /\ emptied' \in BOOLEAN
         /\ LinkedInv'
  BY DEF RemoveSavedir, Empty, LinkedInv

(* So does taking files out of it.                                         *)
LEMMA LoseType ==
  ASSUME TypeInv, NEW S \in SUBSET Blocks, LoseSome(S)
  PROVE  /\ savedir' \in BOOLEAN
         /\ info' \in ChunksInfo \cup {NoFile, Torn}
         /\ chunk' \in [Blocks -> Nat \cup {NoFile}]
         /\ whole' \in Nat \cup {NoFile}
         /\ answered' \subseteq Blocks /\ emptied' \in BOOLEAN
  BY DEF LoseSome, TypeInv, TypeOK

(* A fault is counted within its bound.                                    *)
LEMMA FaultType == TypeOK /\ (Fault \/ NoFault) => faults' \in 0 .. MaxFaults
  BY FaultsAssumption DEF TypeOK, Fault, NoFault

(* Every step of a request, and a crash, keeps the types.                  *)
LEMMA TypeStep == TypeInv /\ [Next]_vars => TypeInv'
<1> SUFFICES ASSUME TypeInv, [Next]_vars PROVE TypeInv'
  OBVIOUS
<1> USE BlockNumAssumption, SizesAssumption
    DEF TypeInv, TypeOK, NoFault, At, Goto, disk, locals, history, Steps
<1>1. CASE Expire
  BY <1>1, RemoveType, FaultType DEF Expire
<1>2. CASE Crash
  <2>1. faults' \in 0 .. MaxFaults /\ linked' = {} /\ UNCHANGED <<locals, fids>>
        /\ pc' \in [Requests -> Steps \cup {"idle", "done"}]
    BY <1>2, FaultType DEF Crash
  <2>2. CASE UNCHANGED <<disk, answered, emptied>>
    BY <2>1, <2>2 DEF LinkedInv
  <2>3. CASE info' = Torn /\ UNCHANGED <<savedir, chunk, whole, answered, emptied>>
    BY <2>1, <2>3 DEF LinkedInv
  <2>4. CASE \E S \in SUBSET Blocks : LoseSome(S)
    BY <2>1, <2>4, LoseType DEF LinkedInv
  <2> QED BY <1>2, <2>2, <2>3, <2>4 DEF Crash
<1>3. ASSUME NEW r \in Requests, Handle(r) PROVE TypeInv'
  <2>1. CASE Begin(r) \/ TooMany(r)
    <3>1. CASE Begin(r)
      BY <3>1 DEF Begin, LinkedInv
    <3>2. CASE TooMany(r)
      BY <3>2 DEF TooMany, LinkedInv
    <3> QED BY <2>1, <3>1, <3>2
  <2>2. CASE MakeSavedir(r)
    BY <2>2, FaultType DEF MakeSavedir, LinkedInv
  <2>3. CASE ReadInfo(r)
    <3>1. faults' \in 0 .. MaxFaults
          /\ pc' \in [Requests -> Steps \cup {"idle", "done"}]
          /\ UNCHANGED <<disk, linked, idx, len, sum, next, fids>>
      BY <2>3, FaultType DEF ReadInfo, StartUpload
    <3>2. mine' \in [Requests -> ChunksInfo]
          /\ answered' \subseteq Blocks /\ emptied' \in BOOLEAN
      BY <2>3, NewInfoType, ZenonT(40) DEF ReadInfo, StartUpload
    <3>3. LinkedInv'
      BY <2>3, <3>1 DEF LinkedInv, ReadInfo, StartUpload
    <3> QED BY <3>1, <3>2, <3>3
  <2>4. CASE AlreadySaved(r)
    BY <2>4 DEF AlreadySaved, Answer200, LinkedInv
  <2>5. CASE CheckSize(r)
    BY <2>5 DEF CheckSize, LinkedInv
  <2>6. CASE CreateChunk(r)
    BY <2>6, FaultType DEF CreateChunk, LinkedInv
  <2>7. CASE CopyChunk(r)
    <3>1. len[r] \in Nat /\ idx[r] \in Blocks /\ pc[r] = "copy"
          /\ (r \in linked => chunk[idx[r]] \in Nat)
      BY <2>7 DEF CopyChunk, LinkedInv
    <3>2. r \in linked => Max({chunk[idx[r]], len[r]}) \in Nat
      BY <3>1, MaxOfTwo
    <3>3. chunk' \in [Blocks -> Nat \cup {NoFile}]
          /\ \A i \in Blocks : chunk[i] \in Nat => chunk'[i] \in Nat
      BY <2>7, <3>1, <3>2 DEF CopyChunk
    <3>4. LinkedInv'
      BY <2>7, <3>3 DEF CopyChunk, LinkedInv
    <3>5. pc' \in [Requests -> Steps \cup {"idle", "done"}]
      BY <2>7 DEF CopyChunk
    <3> QED BY <2>7, <3>3, <3>4, <3>5, FaultType DEF CopyChunk
  <2>8. CASE SaveInfo(r)
    BY <2>8, FaultType DEF SaveInfo, Answer200, LinkedInv, ChunksInfo
  <2>9. CASE CreateWhole(r)
    BY <2>9, FaultType DEF CreateWhole, LinkedInv
  <2>10. CASE JoinChunk(r)
    <3>0. faults' \in 0 .. MaxFaults
      BY <2>10, FaultType DEF JoinChunk
    <3>1. CASE RemoveWhole(r) /\ UNCHANGED <<sum, next>>
      BY <2>10, <3>0, <3>1 DEF JoinChunk, RemoveWhole, LinkedInv
    <3>2. CASE ~(RemoveWhole(r) /\ UNCHANGED <<sum, next>>)
      <4>1. chunk[next[r]] \in Nat /\ next[r] + 1 \in 0 .. BlockNum
        BY <2>10, <3>2 DEF JoinChunk, Blocks
      <4>2. sum' \in [Requests -> Nat] /\ next' \in [Requests -> 0 .. BlockNum]
        BY <2>10, <3>2, <4>1 DEF JoinChunk
      <4>3. whole' \in Nat \cup {NoFile} /\ (linked # {} /\ whole \in Nat => whole' \in Nat)
        BY <2>10, <3>2, <4>2, MaxOfTwo, SMTT(30) DEF JoinChunk, LinkedInv
      <4> QED BY <2>10, <3>0, <3>2, <4>2, <4>3 DEF JoinChunk, LinkedInv
    <3> QED BY <3>1, <3>2
  <2>11. CASE CheckWhole(r)
    BY <2>11 DEF CheckWhole, RemoveWhole, LinkedInv
  <2>12. CASE Process(r)
    BY <2>12 DEF Process, LinkedInv
  <2>13. CASE MoveSome(r)
    <3>1. PICK S \in SUBSET Blocks :
            /\ LoseSome(S)
            /\ linked' = {s \in linked : IF At(s, "copy") THEN idx[s] \notin S
                                         ELSE whole' # NoFile}
      BY <2>13 DEF MoveSome
    <3>2. LinkedInv'
      BY <2>13, <3>1 DEF MoveSome, LoseSome, LinkedInv
    <3> QED BY <2>13, <3>1, <3>2, LoseType DEF MoveSome
  <2>14. CASE MoveRest(r)
    <3>1. faults' \in 0 .. MaxFaults /\ UNCHANGED <<locals, fids>>
          /\ pc' = [pc EXCEPT ![r] = "leave"] /\ pc[r] = "moving"
      BY <2>14, FaultType DEF MoveRest
    <3>2. CASE RemoveSavedir
      BY <3>1, <3>2, RemoveType
    <3>3. CASE UNCHANGED <<disk, linked, answered, emptied>>
      BY <3>1, <3>3 DEF LinkedInv
    <3> QED BY <2>14, <3>2, <3>3 DEF MoveRest
  <2>15. CASE Leave(r)
    BY <2>15, RemoveType DEF Leave
  <2> QED BY <1>3, <2>1, <2>2, <2>3, <2>4, <2>5, <2>6, <2>7, <2>8, <2>9,
             <2>10, <2>11, <2>12, <2>13, <2>14, <2>15 DEF Handle
<1>4. CASE UNCHANGED vars
  BY <1>4 DEF vars, LinkedInv
<1> QED BY <1>1, <1>2, <1>3, <1>4 DEF Next

(* What the directory holds and what each request has of it keep their     *)
(* types, for any number of requests at once.                              *)
THEOREM TypeCorrect == Spec => []TypeOK
<1>1. TypeInv => TypeOK
  BY DEF TypeInv
<1> QED BY InitTypeInv, TypeStep, <1>1, PTL DEF Spec

-----------------------------------------------------------------------------
(* One request at a time                                                   *)

Flying(r) == pc[r] \notin {"idle", "done"}

OneAtATime == \A r, s \in Requests : Flying(r) /\ Flying(s) => r = s

(* Without the directory there is nothing in it and nothing was promised;  *)
(* without chunk-info no chunk was answered yet, unless it was taken out.  *)
DirInv ==
  /\ ~savedir => /\ info = NoFile /\ whole = NoFile /\ linked = {}
                 /\ \A i \in Blocks : chunk[i] = NoFile
                 /\ ~emptied
  /\ info = NoFile /\ ~emptied => answered = {}

(* What the request that is being handled knows: its copy of chunk-info is *)
(* the file, unless the directory has expired since; it writes a chunk     *)
(* that is not marked; what it copied is what it finds by the file's name. *)
(* It begins a new upload in a directory that counts as new.               *)
Knows(r) ==
  /\ pc[r] \in {"check", "create", "copy", "save"} /\ savedir =>
       /\ mine[r] = IF info = NoFile THEN NewInfo ELSE info
       /\ info = NoFile => ~emptied
  /\ pc[r] \in {"create", "copy", "save"} => idx[r] \notin mine[r].saved
  /\ pc[r] = "copy" /\ savedir => r \in linked /\ chunk[idx[r]] = 0
  /\ pc[r] = "save" /\ savedir => chunk[idx[r]] = len[r]
  /\ pc[r] = "join" => IF r \in linked THEN whole = sum[r] ELSE ~savedir
  /\ pc[r] = "process" => whole \in {NoFile, TotalSize}

AloneInv == \A r \in Requests : Knows(r)

Promises ==
  ProcessedIsWhole /\ AnsweredStaysSaved /\ InfoMatchesDisk

AloneIInv == TypeInv /\ OneAtATime /\ DirInv /\ AloneInv /\ Promises

(* Nothing is promised yet.                                                *)
LEMMA InitAlone == Init => AloneIInv
<1> SUFFICES ASSUME Init PROVE AloneIInv
  OBVIOUS
<1>1. TypeInv
  BY InitTypeInv
<1>2. OneAtATime /\ DirInv /\ AloneInv
  BY DEF Init, OneAtATime, Flying, DirInv, AloneInv, Knows
<1>3. info \notin ChunksInfo /\ fids = {}
  BY FilesAssumption DEF Init
<1> QED BY <1>1, <1>2, <1>3 DEF AloneIInv, Promises, ProcessedIsWhole,
           AnsweredStaysSaved, InfoMatchesDisk, MarkedOnDisk, CountOfMarked,
           SizeOfMarked

(* With one token nobody is in flight when a request gets it.              *)
LEMMA TokenMeansAlone ==
  ASSUME MaxInFlight = 1, OneAtATime, Cardinality(InFlight) < MaxInFlight
  PROVE  \A r \in Requests : ~Flying(r)
<1> SUFFICES ASSUME NEW r \in Requests, Flying(r) PROVE FALSE
  OBVIOUS
<1>1. InFlight = {r}
  BY DEF InFlight, OneAtATime, Flying
<1>2. Cardinality({r}) = 1
  BY FS_Singleton
<1> QED BY <1>1, <1>2

(* While one request is handled, only what it knows can be disturbed.      *)
LEMMA OnlyThisOne ==
  ASSUME TypeInv, OneAtATime, NEW r \in Requests, Flying(r),
         pc' \in [Requests -> Steps \cup {"idle", "done"}],
         \A s \in Requests \ {r} : pc'[s] = pc[s],
         Knows(r)'
  PROVE  OneAtATime' /\ AloneInv'
<1>1. \A s \in Requests \ {r} : pc'[s] \in {"idle", "done"}
  BY DEF OneAtATime, Flying
<1>2. OneAtATime'
  BY <1>1 DEF OneAtATime, Flying
<1>3. \A s \in Requests \ {r} : Knows(s)'
  BY <1>1 DEF Knows
<1> QED BY <1>2, <1>3 DEF AloneInv

(* Once the directory is removed nothing is promised any more.             *)
LEMMA RemoveAlone ==
  ASSUME RemoveSavedir
  PROVE  DirInv' /\ AnsweredStaysSaved' /\ InfoMatchesDisk'
BY FilesAssumption DEF RemoveSavedir, Empty, DirInv, AnsweredStaysSaved,
   InfoMatchesDisk, MarkedOnDisk, CountOfMarked, SizeOfMarked

(* A file has finitely many chunks.                                        *)
LEMMA FewChunks == ASSUME NEW S \in SUBSET Blocks PROVE IsFiniteSet(S)
<1>1. IsFiniteSet(Blocks)
  <2>1. 0 \in Int /\ BlockNum - 1 \in Int
    BY BlockNumAssumption
  <2> QED BY <2>1, FS_Interval DEF Blocks
<1> QED BY <1>1, FS_Subset

(* Marking one more chunk of a file.                                       *)
LEMMA MarkOne ==
  ASSUME NEW i \in Blocks, NEW S \in SUBSET Blocks, i \notin S
  PROVE  Cardinality(S \cup {i}) = Cardinality(S) + 1
BY FewChunks, FS_AddElement

(* Nothing is marked in a new chunk-info.                                  *)
LEMMA NewInfoCount ==
  /\ Cardinality(NewInfo.saved) = NewInfo.finished
  /\ \A f : SumFunctionOnSet(f, NewInfo.saved) = NewInfo.size
BY FS_EmptySet, SumEmpty DEF NewInfo

(* Writing a chunk that is not marked leaves the marked ones as they are.  *)
LEMMA WriteUnmarked ==
  ASSUME TypeOK, InfoMatchesDisk, UNCHANGED <<info, emptied>>,
         NEW j, NEW n \in Nat,
         info \in ChunksInfo => j \notin info.saved,
         chunk' = [chunk EXCEPT ![j] = n]
  PROVE  InfoMatchesDisk'
<1> SUFFICES ASSUME info \in ChunksInfo, ~emptied
             PROVE  MarkedOnDisk' /\ CountOfMarked' /\ SizeOfMarked'
  BY DEF InfoMatchesDisk
<1>1. info.saved \in SUBSET Blocks
  BY DEF ChunksInfo
<1>2. \A i \in info.saved : chunk'[i] = chunk[i] /\ chunk[i] \in Nat
  BY <1>1 DEF InfoMatchesDisk, MarkedOnDisk, TypeOK
<1>3. SumFunctionOnSet(chunk, info.saved) = SumFunctionOnSet(chunk', info.saved)
  BY <1>1, <1>2, FewChunks, SumSame
<1> QED BY <1>2, <1>3
        DEF InfoMatchesDisk, MarkedOnDisk, CountOfMarked, SizeOfMarked

(* A step of a request that is alone, before it assembles the file.        *)
LEMMA SaveStep ==
  ASSUME AloneIInv, TypeInv', NEW r \in Requests,
         \/ TooMany(r) \/ MakeSavedir(r) \/ ReadInfo(r) \/ AlreadySaved(r)
         \/ CheckSize(r) \/ CreateChunk(r) \/ CopyChunk(r) \/ SaveInfo(r)
  PROVE  AloneIInv'
<1> USE DEF AloneIInv, TypeInv, TypeOK, At, Goto, disk, locals, history
<1>1. Flying(r) /\ \A s \in Requests \ {r} : pc'[s] = pc[s]
  BY DEF Flying, TooMany, MakeSavedir, ReadInfo, StartUpload, AlreadySaved,
         Answer200, CheckSize, CreateChunk, CopyChunk, SaveInfo
<1>2. SUFFICES DirInv' /\ Knows(r)' /\ Promises'
  BY <1>1, OnlyThisOne
<1>3. Knows(r)
  BY DEF AloneInv
<1> USE FilesAssumption DEF DirInv, Knows, Promises, ProcessedIsWhole,
        AnsweredStaysSaved
<1>a. UNCHANGED <<info, chunk, emptied>> => InfoMatchesDisk'
  BY DEF InfoMatchesDisk, MarkedOnDisk, CountOfMarked, SizeOfMarked
<1>b. info' \notin ChunksInfo => InfoMatchesDisk'
  BY DEF InfoMatchesDisk
<1>c. CASE TooMany(r)
  BY <1>3, <1>a, <1>c DEF TooMany
<1>4. CASE MakeSavedir(r)
  BY <1>3, <1>a, <1>4 DEF MakeSavedir
<1>5. CASE ReadInfo(r)
  <2>1. CASE info = NoFile
    BY <1>3, <1>b, <1>5, <2>1 DEF ReadInfo, StartUpload
  <2>2. CASE info # NoFile
    BY <1>3, <1>a, <1>5, <2>2 DEF ReadInfo
  <2> QED BY <2>1, <2>2
<1>6. CASE AlreadySaved(r)
  BY <1>3, <1>a, <1>6 DEF AlreadySaved, Answer200, NewInfo
<1>7. CASE CheckSize(r)
  BY <1>3, <1>a, <1>7 DEF CheckSize
<1>8. CASE CreateChunk(r)
  <2>1. CASE pc'[r] = "done" /\ UNCHANGED <<chunk, linked>>
    BY <1>3, <1>a, <1>8, <2>1 DEF CreateChunk
  <2>2. CASE ~(pc'[r] = "done" /\ UNCHANGED <<chunk, linked>>)
    <3>1. chunk' = [chunk EXCEPT ![idx[r]] = 0] /\ linked' = linked \cup {r}
          /\ pc'[r] = "copy" /\ savedir
          /\ UNCHANGED <<savedir, info, whole, locals, answered, emptied, fids>>
      BY <1>8, <2>2 DEF CreateChunk
    <3>2. DirInv' /\ Knows(r)'
      BY <1>3, <1>8, <3>1 DEF CreateChunk
    <3>3. info \in ChunksInfo => idx[r] \notin info.saved
      BY <1>3, <1>8, <3>1 DEF CreateChunk
    <3>4. InfoMatchesDisk'
      BY <3>1, <3>3, WriteUnmarked
    <3> QED BY <3>1, <3>2, <3>4
  <2> QED BY <2>1, <2>2
<1>9. CASE CopyChunk(r)
  <2>1. UNCHANGED <<savedir, info, whole, locals, answered, emptied, fids>>
        /\ linked' = linked \ {r} /\ pc'[r] \in {"assemble", "save", "done"}
    BY <1>9 DEF CopyChunk
  <2>2. CASE chunk' = chunk /\ (pc'[r] = "done" \/ r \notin linked)
    BY <1>3, <1>a, <1>9, <2>1, <2>2 DEF CopyChunk
  <2>3. CASE r \in linked /\ chunk' = [chunk EXCEPT ![idx[r]] = Max({@, len[r]})]
    <3>1. savedir /\ chunk[idx[r]] = 0 /\ len[r] \in Nat /\ idx[r] \in Blocks
      BY <1>3, <1>9, <2>3 DEF CopyChunk
    <3>2. chunk' = [chunk EXCEPT ![idx[r]] = len[r]]
      <4>1. Max({0, len[r]}) = len[r]
        BY <3>1, MaxOfZero
      <4> QED BY <2>3, <3>1, <4>1
    <3>3. DirInv' /\ Knows(r)'
      BY <1>3, <1>9, <2>1, <3>1, <3>2 DEF CopyChunk
    <3>4. info \in ChunksInfo => idx[r] \notin info.saved
      BY <1>3, <1>9, <3>1 DEF CopyChunk
    <3>5. InfoMatchesDisk'
      BY <2>1, <3>1, <3>2, <3>4, WriteUnmarked
    <3> QED BY <2>1, <3>3, <3>5
  <2> QED BY <1>9, <2>2, <2>3 DEF CopyChunk
<1>10. CASE SaveInfo(r)
  <2>1. CASE info' \in {info, Torn} /\ UNCHANGED answered /\ pc'[r] = "done"
    BY <1>3, <1>a, <1>b, <1>10, <2>1 DEF SaveInfo
  <2>2. CASE ~(info' \in {info, Torn} /\ UNCHANGED answered /\ pc'[r] = "done")
    <3>1. /\ info' = [saved |-> mine[r].saved \cup {idx[r]},
                      finished |-> mine[r].finished + 1,
                      size |-> mine[r].size + len[r]]
          /\ answered' = answered \cup {idx[r]} /\ pc'[r] = "done" /\ savedir
          /\ UNCHANGED <<savedir, chunk, whole, linked, emptied, fids>>
      BY <1>10, <2>2 DEF SaveInfo, Answer200
    <3>2. idx[r] \notin mine[r].saved /\ chunk[idx[r]] = len[r]
          /\ idx[r] \in Blocks /\ len[r] \in Nat
          /\ mine[r] \in ChunksInfo /\ mine[r].saved \in SUBSET Blocks
      BY <1>3, <1>10, <3>1 DEF SaveInfo, ChunksInfo
    <3>3. info' \in ChunksInfo
      BY <3>1, <3>2 DEF ChunksInfo
    <3>4. /\ mine[r] = IF info = NoFile THEN NewInfo ELSE info
          /\ info = NoFile => ~emptied
      BY <1>3, <1>10, <3>1 DEF SaveInfo
    <3>10. DirInv' /\ Knows(r)'
      BY <3>1, <3>3
    <3>11. CASE emptied
      BY <3>1, <3>10, <3>11 DEF InfoMatchesDisk
    <3>12. CASE ~emptied
      <4>5. answered \subseteq mine[r].saved
        BY <3>2, <3>4, <3>12
      <4>6. /\ \A i \in mine[r].saved : chunk[i] # NoFile
            /\ mine[r].finished = Cardinality(mine[r].saved)
            /\ mine[r].size = SumFunctionOnSet(chunk, mine[r].saved)
        <5>1. CASE info = NoFile
          BY <3>4, <5>1, NewInfoCount DEF NewInfo
        <5>2. CASE info # NoFile
          BY <3>2, <3>4, <3>12, <5>2
          DEF InfoMatchesDisk, MarkedOnDisk, CountOfMarked, SizeOfMarked
        <5> QED BY <5>1, <5>2
      <4>7. Cardinality(info'.saved) = info'.finished
        BY <3>1, <3>2, <4>6, MarkOne
      <4>8. SumFunctionOnSet(chunk, info'.saved) = info'.size
        <5>1. \A i \in mine[r].saved : chunk[i] \in Nat
          BY <3>2, <4>6
        <5>2. SumFunctionOnSet(chunk, mine[r].saved \cup {idx[r]})
                = chunk[idx[r]] + SumFunctionOnSet(chunk, mine[r].saved)
          BY <3>2, <5>1, FewChunks, SumAdd
        <5>3. mine[r].size \in Nat
          BY <3>2 DEF ChunksInfo
        <5> QED BY <3>1, <3>2, <4>6, <5>2, <5>3
      <4>9. InfoMatchesDisk' /\ AnsweredStaysSaved'
        BY <3>1, <3>2, <4>5, <4>6, <4>7, <4>8
        DEF InfoMatchesDisk, MarkedOnDisk, CountOfMarked, SizeOfMarked
      <4> QED BY <3>1, <3>10, <4>9
    <3> QED BY <3>11, <3>12
  <2> QED BY <2>1, <2>2
<1> QED BY <1>c, <1>4, <1>5, <1>6, <1>7, <1>8, <1>9, <1>10

(* A step of the request that assembles the file, has it processed and     *)
(* leaves.                                                                 *)
LEMMA AssembleStep ==
  ASSUME AloneIInv, TypeInv', NEW r \in Requests,
         \/ CreateWhole(r) \/ JoinChunk(r) \/ CheckWhole(r) \/ Process(r)
         \/ MoveSome(r) \/ MoveRest(r) \/ Leave(r)
  PROVE  AloneIInv'
<1> USE DEF AloneIInv, TypeInv, TypeOK, At, Goto, disk, locals, history
<1>1. Flying(r) /\ Knows(r)
  BY DEF Flying, CreateWhole, JoinChunk, CheckWhole, Process, MoveSome,
         MoveRest, Leave, AloneInv
<1>2. \A s \in Requests \ {r} : pc'[s] = pc[s]
  BY DEF CreateWhole, JoinChunk, CheckWhole, RemoveWhole, Process, MoveSome,
         MoveRest, Leave
<1>3. SUFFICES DirInv' /\ Knows(r)' /\ Promises'
  BY <1>1, <1>2, OnlyThisOne
<1> USE DEF DirInv, Knows
<1>a. UNCHANGED <<info, chunk, answered, emptied, fids>> => Promises'
  BY DEF Promises, ProcessedIsWhole, AnsweredStaysSaved, InfoMatchesDisk,
         MarkedOnDisk, CountOfMarked, SizeOfMarked
<1>4. CASE CreateWhole(r)
  BY <1>1, <1>a, <1>4 DEF CreateWhole
<1>5. CASE JoinChunk(r)
  <2>1. CASE RemoveWhole(r)
    BY <1>1, <1>a, <1>5, <2>1 DEF JoinChunk, RemoveWhole
  <2>2. CASE ~RemoveWhole(r)
    <3>1. /\ next[r] \in Blocks /\ chunk[next[r]] \in Nat
          /\ sum'[r] = sum[r] + chunk[next[r]] /\ sum[r] \in Nat
          /\ whole' = IF r \in linked THEN Max({whole, sum'[r]}) ELSE whole
          /\ pc[r] = "join"
          /\ UNCHANGED <<savedir, info, chunk, linked, pc, answered, emptied, fids>>
      BY <1>5, <2>2, BlockNumAssumption DEF JoinChunk, Blocks
    <3>2. r \in linked => whole' = sum'[r]
      BY <1>1, <3>1, MaxOfTwo
    <3>3. r \in linked
      BY <1>1, <3>1, FilesAssumption
    <3> QED BY <1>a, <3>1, <3>2, <3>3
  <2> QED BY <2>1, <2>2
<1>6. CASE CheckWhole(r)
  <2>1. CASE RemoveWhole(r)
    BY <1>1, <1>a, <1>6, <2>1 DEF CheckWhole, RemoveWhole
  <2>2. CASE ~RemoveWhole(r)
    <3>1. sum[r] = TotalSize /\ pc[r] = "join" /\ pc'[r] = "process"
          /\ linked' = linked \ {r} /\ UNCHANGED <<disk, history>>
      BY <1>6, <2>2 DEF CheckWhole
    <3> QED BY <1>1, <1>a, <3>1
  <2> QED BY <2>1, <2>2
<1>7. CASE Process(r)
  <2>1. whole \in {NoFile, TotalSize} /\ pc'[r] \in {"leave", "moving"}
        /\ UNCHANGED <<disk, linked, answered, emptied>>
    BY <1>1, <1>7 DEF Process
  <2>2. fids' \subseteq {TotalSize}
    BY <1>7, <2>1 DEF Process, Promises, ProcessedIsWhole
  <2>3. Promises'
    BY <2>1, <2>2 DEF Promises, ProcessedIsWhole, AnsweredStaysSaved,
       InfoMatchesDisk, MarkedOnDisk, CountOfMarked, SizeOfMarked
  <2> QED BY <2>1, <2>3
<1>8. CASE MoveSome(r)
  <2>1. PICK S \in SUBSET Blocks : LoseSome(S)
    BY <1>8 DEF MoveSome
  <2>2. pc[r] = "moving" /\ UNCHANGED <<pc, fids>> /\ linked' \subseteq linked
    BY <1>8 DEF MoveSome
  <2>3. savedir
    BY <1>8, <2>2 DEF DirInv, MoveSome
  <2> QED BY <2>1, <2>2, <2>3 DEF LoseSome, Promises, ProcessedIsWhole,
          AnsweredStaysSaved, InfoMatchesDisk
<1>9. CASE MoveRest(r)
  <2>1. pc'[r] = "leave" /\ UNCHANGED fids
    BY <1>9 DEF MoveRest
  <2>2. CASE RemoveSavedir
    BY <2>1, <2>2, RemoveAlone DEF Promises, ProcessedIsWhole
  <2>3. CASE UNCHANGED <<disk, linked, answered, emptied>>
    BY <1>a, <2>1, <2>3
  <2> QED BY <1>9, <2>2, <2>3 DEF MoveRest
<1>10. CASE Leave(r)
  BY <1>10, RemoveAlone DEF Leave, Promises, ProcessedIsWhole
<1> QED BY <1>4, <1>5, <1>6, <1>7, <1>8, <1>9, <1>10

(* With one token, every step of every actor keeps the invariant.          *)
LEMMA AloneStep ==
  ASSUME MaxInFlight = 1
  PROVE  AloneIInv /\ [Next]_vars => AloneIInv'
<1> SUFFICES ASSUME AloneIInv, [Next]_vars PROVE AloneIInv'
  OBVIOUS
<1>1. TypeInv'
  BY TypeStep DEF AloneIInv
<1>2. CASE Expire
  <2>1. OneAtATime'
    BY <1>2 DEF Expire, OneAtATime, Flying, AloneIInv
  <2>2. AloneInv'
    BY <1>2 DEF Expire, RemoveSavedir, Empty, locals, AloneInv, Knows,
                AloneIInv
  <2> QED BY <1>1, <1>2, <2>1, <2>2, RemoveAlone
          DEF Expire, AloneIInv, Promises, ProcessedIsWhole
<1>3. CASE Crash
  <2>1. \A r \in Requests : pc'[r] \in {"idle", "done"}
    BY <1>3 DEF Crash, InFlight
  <2>2. OneAtATime' /\ AloneInv'
    BY <2>1 DEF OneAtATime, Flying, AloneInv, Knows
  <2>3. linked' = {} /\ UNCHANGED fids
    BY <1>3 DEF Crash
  <2>4. DirInv' /\ Promises'
    <3> USE DEF AloneIInv, DirInv, Promises, ProcessedIsWhole,
                AnsweredStaysSaved, InfoMatchesDisk
    <3>1. CASE UNCHANGED <<disk, answered, emptied>>
      BY <2>3, <3>1 DEF disk, MarkedOnDisk, CountOfMarked, SizeOfMarked
    <3>2. CASE /\ savedir /\ info' = Torn
               /\ UNCHANGED <<savedir, chunk, whole, answered, emptied>>
      BY <2>3, <3>2, FilesAssumption
    <3>3. CASE savedir /\ \E S \in SUBSET Blocks : LoseSome(S)
      BY <2>3, <3>3 DEF LoseSome
    <3> QED BY <1>3, <3>1, <3>2, <3>3 DEF Crash
  <2> QED BY <1>1, <2>2, <2>4 DEF AloneIInv
<1>4. ASSUME NEW r \in Requests, Handle(r) PROVE AloneIInv'
  <2>1. CASE Begin(r)
    <3>1. \A s \in Requests : ~Flying(s)
      BY <2>1, TokenMeansAlone DEF Begin, AloneIInv
    <3>2. pc' = [pc EXCEPT ![r] = "dir"] /\ UNCHANGED <<disk, linked, history>>
      BY <2>1 DEF Begin, Goto
    <3>3. OneAtATime' /\ AloneInv'
      BY <3>1, <3>2 DEF OneAtATime, Flying, AloneInv, Knows, AloneIInv,
                        TypeInv, TypeOK
    <3>4. DirInv' /\ Promises'
      BY <3>2 DEF AloneIInv, DirInv, Promises, ProcessedIsWhole,
                  AnsweredStaysSaved, InfoMatchesDisk, MarkedOnDisk,
                  CountOfMarked, SizeOfMarked, disk, history
    <3> QED BY <1>1, <3>3, <3>4 DEF AloneIInv
  <2>2. CASE ~Begin(r)
    BY <1>1, <1>4, <2>2, SaveStep, AssembleStep DEF Handle
  <2> QED BY <2>1, <2>2
<1>5. CASE UNCHANGED vars
  BY <1>1, <1>5
  DEF vars, disk, locals, history, AloneIInv, OneAtATime, Flying, DirInv, AloneInv,
      Knows, Promises, ProcessedIsWhole, AnsweredStaysSaved, InfoMatchesDisk,
      MarkedOnDisk, CountOfMarked, SizeOfMarked
<1> QED BY <1>2, <1>3, <1>4, <1>5 DEF Next

(* With one request at a time the invariant holds throughout.              *)
LEMMA AloneInvariance ==
  ASSUME MaxInFlight = 1
  PROVE  Spec => []AloneIInv
<1>1. AloneIInv /\ [Next]_vars => AloneIInv'
  BY AloneStep
<1> QED BY InitAlone, <1>1, PTL DEF Spec

(* What fileProcess takes over is exactly as long as the client said: the  *)
(* bytes the request copied are the bytes it finds by the file's name.     *)
THEOREM WholeFilesOnly ==
  ASSUME MaxInFlight = 1
  PROVE  Spec => []ProcessedIsWhole
<1>1. AloneIInv => ProcessedIsWhole
  BY DEF AloneIInv, Promises
<1> QED BY AloneInvariance, <1>1, PTL

(* A chunk that was answered 200 is still marked in chunk-info, through    *)
(* crashes, failed writes, expiry and requests that fail, until files are  *)
(* taken out of the directory, by the move to the directory of the root    *)
(* hash or by a removal that a crash cuts short.                           *)
THEOREM ResumeLosesNothing ==
  ASSUME MaxInFlight = 1
  PROVE  Spec => []AnsweredStaysSaved
<1>1. AloneIInv => AnsweredStaysSaved
  BY DEF AloneIInv, Promises
<1> QED BY AloneInvariance, <1>1, PTL

(* Until then, what chunk-info says of the chunks is what is on disk:      *)
(* which there are, how many, and how many bytes.                          *)
THEOREM InfoIsTrue ==
  ASSUME MaxInFlight = 1
  PROVE  Spec => []InfoMatchesDisk
<1>1. AloneIInv => InfoMatchesDisk
  BY DEF AloneIInv, Promises
<1> QED BY AloneInvariance, <1>1, PTL
=============================================================================
