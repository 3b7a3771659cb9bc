--------------------------- MODULE Restore_proofs ---------------------------
(***************************************************************************)
(* Theorems about syncBlock() and GET /restore (Restore), for any chain    *)
(* and any number of crashes and failed calls.                             *)
(***************************************************************************)
EXTENDS Restore, FiniteSetTheorems, TLAPS

(* The larger of two natural numbers is one of them.                       *)
LEMMA MaxOfTwo ==
  ASSUME NEW a \in Nat, NEW b \in Nat
  PROVE  /\ Max({a, b}) \in Nat
         /\ Max({a, b}) = IF a >= b THEN a ELSE b
<1>1. \E x \in {a, b} : \A y \in {a, b} : x >= y
  OBVIOUS
<1>2. Max({a, b}) \in {a, b} /\ \A y \in {a, b} : Max({a, b}) >= y
  BY <1>1 DEF Max
<1> QED BY <1>2

(* The largest of three numbers is one of them.                            *)
LEMMA MaxOfThree ==
  ASSUME NEW a \in Nat, NEW b \in Nat, NEW c \in Nat
  PROVE  Max({a, b, c}) \in {a, b, c} /\ \A x \in {a, b, c} : Max({a, b, c}) >= x
<1>1. \E x \in {a, b, c} : \A y \in {a, b, c} : x >= y
  OBVIOUS
<1> QED BY <1>1 DEF Max

InBlock == {"retrieve", "save", "file", "want", "position"}

(* A block is entered only when the chain has its successor; the events    *)
(* being entered are those of the block, or none.                          *)
PlaceInv ==
  /\ known <= height
  /\ pc \in InBlock => pos < known
  /\ pc = "file" => i <= Len(events)
  /\ pc = "want" => kind = "user"
  /\ pc = "position" => kind = "deleted"
  /\ pc \in {"save", "file"} => events = Chain[pos][kind] \/ events = <<>>

TypeInv == TypeOK /\ PlaceInv

(* The blocks of the chain.                                                *)
LEMMA ChainType ==
  /\ Len(Chain) \in Nat \ {0}
  /\ \A b \in Blocks, k \in Kinds : Chain[b][k] \in Seq(Files)
<1>1. Len(Chain) \in Nat /\ Len(Chain) # 0
  BY ChainAssumption
<1>2. \A b \in Blocks : Chain[b] \in [Kinds -> Seq(Files)]
  BY ChainAssumption DEF Blocks
<1> QED BY <1>1, <1>2

(* Where the retrieval starts, with leveldb's position or without it.      *)
LEMMA StartType ==
  ASSUME posDb \in Blocks \cup {NoPosition}, posFile \in Blocks \cup {NoPosition}
  PROVE  Max({First, posDb, posFile}) \in Blocks /\ Max({First, posFile}) \in Blocks
<1>1. posDb \in Nat /\ posFile \in Nat /\ First \in Nat /\ First \in Blocks
  BY ChainType DEF First, NoPosition, Blocks
<1>2. Max({First, posDb, posFile}) \in {First, posDb, posFile}
      /\ Max({First, posDb, posFile}) >= First
  BY <1>1, MaxOfThree
<1>3. Max({First, posFile}) = IF First >= posFile THEN First ELSE posFile
  BY <1>1, MaxOfTwo
<1> QED BY <1>1, <1>2, <1>3 DEF First, NoPosition

(* The initial state is well typed.                                        *)
LEMMA InitTypeInv == Init => TypeInv
<1> SUFFICES ASSUME Init PROVE TypeInv
  OBVIOUS
<1> USE DEF Init
<1>1. 1 \in Blocks /\ 1 \in 1 .. Len(<<>>) + 1
  BY ChainType DEF Blocks
<1>2. crashes \in 0 .. MaxCrashes /\ failures \in 0 .. MaxFailures
  BY BoundsAssumption
<1>3. TypeOK
  BY <1>1, <1>2 DEF TypeOK, First, Kinds
<1> QED BY <1>3 DEF TypeInv, PlaceInv, InBlock

(* The counters keep their bounds whether or not a call fails.             *)
LEMMA CountersType ==
  ASSUME TypeInv, Fails \/ Succeeds
  PROVE  crashes' \in 0 .. MaxCrashes /\ failures' \in 0 .. MaxFailures
<1> USE BoundsAssumption DEF TypeInv, TypeOK
<1>1. CASE Fails
  BY <1>1 DEF Fails
<1>2. CASE Succeeds
  BY <1>2 DEF Succeeds, counters
<1> QED BY <1>1, <1>2

(* Every step keeps the types.                                             *)
LEMMA TypeStep == TypeInv /\ [Next]_vars => TypeInv'
<1> SUFFICES ASSUME TypeInv, [Next]_vars PROVE TypeInv'
  OBVIOUS
<1> USE ChainType DEF TypeInv, TypeOK, PlaceInv, InBlock, store, locals, Blocks
<1>1. CASE Start
  <2>1. pos' \in Blocks
    BY <1>1, StartType DEF Start
  <2> QED BY <1>1, <2>1, CountersType DEF Start
<1>2. CASE RefreshHeight
  BY <1>2 DEF RefreshHeight, counters
<1>3. CASE NextBlock
  BY <1>3 DEF NextBlock, counters, Kinds
<1>4. CASE RetrieveEvents
  <2>1. Chain[pos][kind] \in Seq(Files) /\ <<>> \in Seq(Files)
    BY ChainType DEF TypeOK
  <2>2. events' \in Seq(Files) /\ events' \in {Chain[pos][kind], <<>>}
    BY <1>4, <2>1 DEF RetrieveEvents
  <2>3. 1 \in 1 .. Len(events') + 1
    BY <2>2
  <2>4. crashes' \in 0 .. MaxCrashes /\ failures' \in 0 .. MaxFailures
    BY <1>4, CountersType DEF RetrieveEvents
  <2> QED BY <1>4, <2>2, <2>3, <2>4 DEF RetrieveEvents
<1>5. CASE SaveEvent
  <2>1. i \in 1 .. Len(events) /\ events[i] \in Files
    BY <1>5 DEF SaveEvent
  <2>2. db' \in [Kinds -> Seq(Files)]
    <3>1. Append(db[kind], events[i]) \in Seq(Files)
      BY <2>1
    <3> QED BY <1>5, <3>1 DEF SaveEvent
  <2>3. crashes' \in 0 .. MaxCrashes /\ failures' \in 0 .. MaxFailures
    BY <1>5, CountersType DEF SaveEvent
  <2>4. i' \in 1 .. Len(events) + 1 /\ pc' \in {"save", "file"}
        /\ (pc' = "file" => i' = i)
    BY <1>5, <2>1, SMTT(30) DEF SaveEvent
  <2> QED BY <1>5, <2>1, <2>2, <2>3, <2>4 DEF SaveEvent
<1>6. CASE SaveToFile
  <2>1. i \in 1 .. Len(events) /\ events[i] \in Files
    BY <1>6 DEF SaveToFile
  <2>2. dir' \in [Kinds -> {Torn} \cup Seq(Files)]
    <3>1. dir[kind] # Torn => Append(dir[kind], events[i]) \in Seq(Files)
      BY <2>1
    <3>2. \A l \in {Torn} \cup Seq(Files) :
            [dir EXCEPT ![kind] = l] \in [Kinds -> {Torn} \cup Seq(Files)]
      OBVIOUS
    <3>3. \/ \E l \in {dir[kind], Torn, <<events[i]>>} :
                dir' = [dir EXCEPT ![kind] = l]
          \/ dir' = [dir EXCEPT ![kind] =
                       IF dir[kind] = Torn THEN Torn ELSE Append(dir[kind], events[i])]
      BY <1>6 DEF SaveToFile, AppendToFile
    <3>4. <<events[i]>> \in Seq(Files)
      BY <2>1
    <3> QED BY <3>1, <3>2, <3>3, <3>4
  <2>3. crashes' \in 0 .. MaxCrashes /\ failures' \in 0 .. MaxFailures
    BY <1>6, CountersType DEF SaveToFile, AppendToFile
  <2> QED BY <1>6, <2>1, <2>2, <2>3, SMTT(30) DEF SaveToFile
<1>7. CASE EndOfEvents
  BY <1>7 DEF EndOfEvents, counters, Kinds
<1>8. CASE SaveWanted
  <2>1. ToSet(events) \subseteq Files
    BY DEF ToSet
  <2> QED BY <1>8, <2>1, CountersType DEF SaveWanted, Kinds
<1>9. CASE SavePosition
  <2>1. pos + 1 \in Blocks
    BY <1>9 DEF SavePosition
  <2> QED BY <1>9, <2>1, CountersType DEF SavePosition
<1>10. CASE NewBlock
  BY <1>10 DEF NewBlock, counters
<1>11. CASE Crash
  <2>1. dir' \in [Kinds -> {Torn} \cup Seq(Files)]
    BY <1>11 DEF Crash
  <2> QED BY <1>11, <2>1, BoundsAssumption DEF Crash, First, Kinds
<1>12. CASE UNCHANGED vars
  BY <1>12 DEF vars, counters
<1> QED BY <1>1, <1>2, <1>3, <1>4, <1>5, <1>6, <1>7, <1>8, <1>9, <1>10,
           <1>11, <1>12 DEF Next, SyncBlock

(* The lists, the positions and the progress keep their types.             *)
THEOREM TypeCorrect == Spec => []TypeOK
<1>1. TypeInv => TypeOK
  BY DEF TypeInv
<1> QED BY InitTypeInv, TypeStep, <1>1, PTL DEF Spec

-----------------------------------------------------------------------------
(* Without failed calls                                                    *)

Listed(k) == ToSet(db[k])

(* No list is in a file, and none says what the chain does not say.        *)
ListsInv ==
  /\ dir = [k \in Kinds |-> <<>>] /\ pc # "file"
  /\ \A k \in Kinds : Listed(k) \subseteq Said(k, Blocks)

(* The position is that of the running process, unless it has just         *)
(* started; the blocks before it have been entered, and of its block what  *)
(* the place in the loop says.                                             *)
PositionInv ==
  /\ \A k \in Kinds : Said(k, Passed) \subseteq Listed(k)
  /\ pc # "start" => Max({First, posDb, posFile}) = pos
  /\ pc = "save" => /\ events = Chain[pos][kind]
                    /\ \A n \in 1 .. i - 1 : events[n] \in Listed(kind)
  /\ pc = "want" \/ (pc \in InBlock /\ kind = "deleted") =>
       ToSet(Chain[pos]["user"]) \subseteq Listed("user")
  /\ pc = "position" => ToSet(Chain[pos]["deleted"]) \subseteq Listed("deleted")

NoFailureInv == failures = 0 => ListsInv /\ PositionInv

(* Appending an event lists it, and keeps what is listed.                  *)
LEMMA AppendLists ==
  ASSUME NEW s \in Seq(Files), NEW e \in Files
  PROVE  ToSet(Append(s, e)) = ToSet(s) \cup {e}
<1>1. \A x \in ToSet(s) : x \in ToSet(Append(s, e))
  BY DEF ToSet
<1>2. e = Append(s, e)[Len(s) + 1] /\ Len(s) + 1 \in DOMAIN Append(s, e)
  OBVIOUS
<1>3. e \in ToSet(Append(s, e))
  BY <1>2 DEF ToSet
<1>4. \A x \in ToSet(Append(s, e)) : x \in ToSet(s) \cup {e}
  BY DEF ToSet
<1> QED BY <1>1, <1>3, <1>4

(* The blocks up to one are those before it and itself.                    *)
LEMMA UpToBlock ==
  ASSUME NEW b \in Nat \ {0}
  PROVE  1 .. b = (1 .. b - 1) \cup {b} /\ b \notin 1 .. b - 1
OBVIOUS

(* Before the first block nothing is passed, and nothing is listed.        *)
LEMMA InitNoFailure == Init => NoFailureInv
<1> SUFFICES ASSUME Init PROVE ListsInv /\ PositionInv
  BY DEF NoFailureInv
<1>1. Max({1, 0, 0}) = 1
  <2>1. Max({1, 0, 0}) \in {1, 0, 0} /\ Max({1, 0, 0}) >= 1
    BY MaxOfThree
  <2> QED BY <2>1
<1>2. Passed = {}
  BY <1>1 DEF Init, Passed, First, NoPosition
<1>3. Said("user", {}) = {} /\ Said("deleted", {}) = {}
  BY DEF Said
<1>4. ToSet(<<>>) = {}
  BY DEF ToSet
<1> QED BY <1>2, <1>3, <1>4
        DEF Init, ListsInv, PositionInv, Listed, Kinds, InBlock

(* A step with no failure so far was one with no failure before.           *)
LEMMA FailuresGrow == TypeInv /\ [Next]_vars /\ failures' = 0 => failures = 0
BY DEF TypeInv, TypeOK, Next, SyncBlock, Start, RefreshHeight, NextBlock,
   RetrieveEvents, SaveEvent, SaveToFile, AppendToFile, EndOfEvents, SaveWanted,
   SavePosition, NewBlock, Crash, Fails, Succeeds, counters, vars

(* The positions are numbers.                                              *)
LEMMA PositionType ==
  ASSUME TypeInv
  PROVE  First \in Nat /\ posDb \in Nat /\ posFile \in Nat /\ pos \in Nat
<1>1. Blocks \subseteq Nat
  BY ChainType DEF Blocks
<1>2. posDb \in Blocks \cup {NoPosition} /\ posFile \in Blocks \cup {NoPosition}
      /\ pos \in Blocks
  BY DEF TypeInv, TypeOK
<1> QED BY <1>1, <1>2 DEF First, NoPosition

(* Every step that no failed call has preceded keeps lists and position.   *)
LEMMA NoFailureStep ==
  TypeInv /\ TypeInv' /\ NoFailureInv /\ [Next]_vars => NoFailureInv'
<1> SUFFICES ASSUME TypeInv, TypeInv', [Next]_vars, failures = 0, failures' = 0,
                    ListsInv, PositionInv
             PROVE  ListsInv' /\ PositionInv'
  BY FailuresGrow DEF NoFailureInv
<1>0. ~Fails
  BY DEF Fails
<1> USE <1>0 DEF TypeInv, TypeOK, PlaceInv, InBlock, store, locals
<1> USE DEF ListsInv, PositionInv, Listed, Passed, Kinds
<1>1. CASE Start
  BY <1>1 DEF Start
<1>2. CASE RefreshHeight
  BY <1>2 DEF RefreshHeight
<1>3. CASE NextBlock
  BY <1>3 DEF NextBlock
<1>4. CASE RetrieveEvents
  <2>1. /\ events' = Chain[pos][kind] /\ i' = 1 /\ pc = "retrieve" /\ pc' = "save"
        /\ UNCHANGED <<posDb, posFile, db, dir, pos, kind>>
    BY <1>4 DEF RetrieveEvents
  <2>2. 1 .. i' - 1 = {}
    BY <2>1
  <2> QED BY <2>1, <2>2
<1>5. CASE SaveEvent
  <2>1. /\ i \in 1 .. Len(events) /\ events[i] \in Files
        /\ pc = "save" /\ pc' = "save" /\ i' = i + 1
        /\ db' = [db EXCEPT ![kind] = Append(db[kind], events[i])]
        /\ UNCHANGED <<posDb, posFile, dir, pos, kind, events>>
    BY <1>5 DEF SaveEvent
  <2>2. ToSet(db'[kind]) = ToSet(db[kind]) \cup {events[i]}
        /\ \A k \in Kinds \ {kind} : db'[k] = db[k]
    BY <2>1, AppendLists
  <2>3. events[i] \in Said(kind, Blocks)
    BY <2>1 DEF Said, ToSet
  <2>4. \A k \in Kinds : Listed(k) \subseteq Listed(k)'
    BY <2>2
  <2>5. ListsInv'
    <3>1. \A k \in Kinds : Listed(k)' \subseteq Said(k, Blocks)
      BY <2>2, <2>3
    <3>2. \A k \in Kinds : Said(k, Blocks)' = Said(k, Blocks)
      BY DEF Said, Blocks
    <3> QED BY <2>1, <3>1, <3>2
  <2>6. \A n \in 1 .. i' - 1 : events[n] \in Listed(kind)'
    <3>1. /\ i \in Int /\ i' = i + 1 /\ kind' = kind
          /\ \A n \in 1 .. i - 1 : events[n] \in ToSet(db[kind])
      BY <2>1
    <3>2. ToSet(db'[kind]) = ToSet(db[kind]) \cup {events[i]}
      BY <2>2
    <3> HIDE DEF TypeInv, TypeOK, PlaceInv, InBlock, ListsInv, PositionInv, Passed
    <3>3. \A n \in 1 .. i' - 1 : n \in 1 .. i - 1 \/ n = i
      BY <3>1
    <3> QED BY <3>1, <3>2, <3>3
  <2>7. (\A k \in Kinds : Said(k, Passed) \subseteq Listed(k))'
    BY <2>1, <2>4 DEF Said
  <2>8. kind = "deleted" => ToSet(Chain[pos]["user"]) \subseteq Listed("user")'
    BY <2>1, <2>4
  <2> QED BY <2>1, <2>5, <2>6, <2>7, <2>8
<1>6. CASE SaveToFile
  BY <1>6 DEF SaveToFile, AppendToFile
<1>7. CASE EndOfEvents
  <2>1. ToSet(Chain[pos][kind]) \subseteq Listed(kind)
    <3>1. \A n \in DOMAIN events : n \in 1 .. i - 1
      BY <1>7 DEF EndOfEvents
    <3> QED BY <1>7, <3>1 DEF EndOfEvents, ToSet
  <2> QED BY <1>7, <2>1 DEF EndOfEvents
<1>8. CASE SaveWanted
  BY <1>8 DEF SaveWanted
<1>9. CASE SavePosition
  <2>1. /\ posDb' = pos + 1 /\ posFile' = posFile /\ pos' = pos + 1
        /\ pc = "position" /\ pc' = "head" /\ UNCHANGED <<db, dir>>
    BY <1>9 DEF SavePosition
  <2>2. First \in Nat /\ posDb \in Nat /\ posFile \in Nat /\ pos \in Nat
    BY PositionType
  <2>3. First <= pos /\ posFile <= pos
    <3>1. Max({First, posDb, posFile}) >= First /\ Max({First, posDb, posFile}) >= posFile
      BY <2>2, MaxOfThree
    <3> QED BY <2>1, <3>1
  <2>4. Max({First, posDb', posFile'}) = pos + 1
    <3>0. pos + 1 \in Nat
      BY <2>2
    <3>1. Max({First, pos + 1, posFile}) \in {First, pos + 1, posFile}
          /\ Max({First, pos + 1, posFile}) >= pos + 1
      BY <2>2, <3>0, MaxOfThree
    <3> QED BY <2>1, <2>2, <2>3, <3>1
  <2>5. Passed = 1 .. pos - 1 /\ Passed' = (1 .. pos - 1) \cup {pos}
    <3>1. Passed' = 1 .. (pos + 1) - 1
      BY <2>4
    <3>2. pos \in Nat \ {0} /\ (pos + 1) - 1 = pos
      BY <2>2, <2>3 DEF First
    <3>3. 1 .. pos = (1 .. pos - 1) \cup {pos}
      BY <3>2, UpToBlock
    <3> QED BY <2>1, <3>1, <3>2, <3>3
  <2>6. \A k \in Kinds : Said(k, Passed)' = Said(k, Passed) \cup ToSet(Chain[pos][k])
    <3>1. \A k \in Kinds : \A S : Said(k, S \cup {pos})
                                   = Said(k, S) \cup ToSet(Chain[pos][k])
      <4> HIDE DEF TypeInv, ListsInv, PositionInv
      <4> QED BY DEF Said
    <3>2. \A k \in Kinds : Said(k, Passed)' = Said(k, Passed')
      BY DEF Said
    <3> QED BY <2>5, <3>1, <3>2
  <2>7. \A k \in Kinds : ToSet(Chain[pos][k]) \subseteq Listed(k)
    BY <2>1
  <2>8. (\A k \in Kinds : Said(k, Passed) \subseteq Listed(k))'
    BY <2>1, <2>6, <2>7
  <2> QED BY <2>1, <2>4, <2>8
<1>10. CASE NewBlock
  BY <1>10 DEF NewBlock
<1>11. CASE Crash
  BY <1>11 DEF Crash
<1>12. CASE UNCHANGED vars
  BY <1>12 DEF vars
<1> QED BY <1>1, <1>2, <1>3, <1>4, <1>5, <1>6, <1>7, <1>8, <1>9, <1>10,
           <1>11, <1>12 DEF Next, SyncBlock

(* The two invariants hold together.                                       *)
LEMMA NoFailureInvariance == Spec => [](TypeInv /\ NoFailureInv)
<1>1. TypeInv /\ NoFailureInv /\ [Next]_vars => (TypeInv /\ NoFailureInv)'
  BY TypeStep, NoFailureStep
<1> QED BY InitTypeInv, InitNoFailure, <1>1, PTL DEF Spec

(* Without failures the lists are those in leveldb.                        *)
LEMMA ListsAreListed ==
  ListsInv => \A k \in Kinds : FileList(k) = <<>> /\ Entered(k) = Listed(k)
BY DEF ListsInv, FileList, Entered, Listed, ToSet

(* The position never runs ahead of the lists, through any crashes.        *)
THEOREM PositionIsSafe == Spec => []CrashLosesNothing
<1>1. TypeInv /\ NoFailureInv => CrashLosesNothing
  BY ListsAreListed DEF NoFailureInv, PositionInv, CrashLosesNothing
<1> QED BY NoFailureInvariance, <1>1, PTL

(* While no call has failed, GET /restore lists what it should, through    *)
(* any crashes.                                                            *)
THEOREM RestoreIsTruthful == Spec => []RestoreTruthful
<1>1. TypeInv /\ NoFailureInv => RestoreTruthful
  <2> SUFFICES ASSUME TypeInv, ListsInv, PositionInv PROVE RestoreTruthful
    BY DEF NoFailureInv, RestoreTruthful
  <2>1. ~Panics
    BY ListsAreListed DEF Panics, Kinds
  <2>2. /\ Entered("user") = Listed("user") /\ Entered("deleted") = Listed("deleted")
        /\ Said("user", Passed) \subseteq Listed("user")
        /\ Said("deleted", Passed) \subseteq Listed("deleted")
        /\ Listed("deleted") \subseteq Said("deleted", Blocks)
    BY ListsAreListed DEF ListsInv, PositionInv, Kinds
  <2>3. \A blk \in Passed : ToSet(Chain[blk]["deleted"]) \subseteq Entered("deleted")
    BY <2>2 DEF Said
  <2> QED BY <2>1, <2>2, <2>3 DEF RestoreTruthful, GetRestore
<1> QED BY NoFailureInvariance, <1>1, PTL

-----------------------------------------------------------------------------
(* Without crashes                                                         *)

Upto(s, j, f) == Cardinality({n \in 1 .. j : s[n] = f})

(* How many of the block's events of kind k have been taken.               *)
Taken(k, f) ==
  IF pc \in {"start", "head"} THEN 0
  ELSE IF k = kind
       THEN IF pc = "retrieve" THEN 0
            ELSE IF pc \in {"save", "file"} THEN Upto(events, i - 1, f)
            ELSE Occurrences(Chain[pos][k], f)
       ELSE IF k = "user" THEN Occurrences(Chain[pos][k], f) ELSE 0

Total(k, f) == Occurrences(db[k], f) + Occurrences(FileList(k), f)

NoCrashInv ==
  crashes = 0 =>
    /\ pc = "start" => pos = First /\ posDb = NoPosition /\ posFile = NoPosition
    /\ \A k \in Kinds, f \in Files :
         Total(k, f) <= Cardinality(Events(k, f, 1 .. pos - 1)) + Taken(k, f)

(* Counting along a sequence                                               *)
LEMMA UptoType ==
  ASSUME NEW s, NEW j \in Nat, NEW f
  PROVE  IsFiniteSet({n \in 1 .. j : s[n] = f}) /\ Upto(s, j, f) \in Nat
<1>1. IsFiniteSet(1 .. j)
  <2>1. 1 \in Int /\ j \in Int
    OBVIOUS
  <2> QED BY <2>1, FS_Interval
<1>2. IsFiniteSet({n \in 1 .. j : s[n] = f})
  BY <1>1, FS_Subset
<1> QED BY <1>2, FS_CardinalityType DEF Upto

(* None is among no events.                                                *)
LEMMA UptoZero == ASSUME NEW s, NEW f PROVE Upto(s, 0, f) = 0
<1>1. {n \in 1 .. 0 : s[n] = f} = {}
  OBVIOUS
<1> QED BY <1>1, FS_EmptySet DEF Upto

(* The next event counts if it is of the file.                             *)
LEMMA UptoNext ==
  ASSUME NEW s, NEW j \in Nat, NEW f
  PROVE  Upto(s, j + 1, f) = Upto(s, j, f) + IF s[j + 1] = f THEN 1 ELSE 0
<1> DEFINE D == {n \in 1 .. j : s[n] = f}  E == {n \in 1 .. j + 1 : s[n] = f}
<1>1. IsFiniteSet(D) /\ Cardinality(D) \in Nat /\ j + 1 \notin D
  <2>1. IsFiniteSet(D) /\ Upto(s, j, f) \in Nat
    BY UptoType
  <2> QED BY <2>1 DEF Upto
<1>2. E = IF s[j + 1] = f THEN D \cup {j + 1} ELSE D
  <2>1. 1 .. j + 1 = (1 .. j) \cup {j + 1}
    OBVIOUS
  <2> QED BY <2>1
<1> HIDE DEF D, E
<1>3. Cardinality(D \cup {j + 1}) = Cardinality(D) + 1
  BY <1>1, FS_AddElement
<1>4. Cardinality(E) = Cardinality(D) + IF s[j + 1] = f THEN 1 ELSE 0
  BY <1>1, <1>2, <1>3
<1> QED BY <1>4 DEF Upto, D, E

(* All events are the events up to the last.                               *)
LEMMA OccurrencesUpto ==
  ASSUME NEW s \in Seq(Files), NEW f
  PROVE  Occurrences(s, f) = Upto(s, Len(s), f) /\ Occurrences(s, f) \in Nat
<1>1. DOMAIN s = 1 .. Len(s) /\ Len(s) \in Nat
  OBVIOUS
<1>2. {n \in DOMAIN s : s[n] = f} = {n \in 1 .. Len(s) : s[n] = f}
  BY <1>1
<1>3. Occurrences(s, f) = Upto(s, Len(s), f)
  BY <1>2, Zenon DEF Occurrences, Upto
<1>4. Upto(s, Len(s), f) \in Nat
  BY <1>1, UptoType
<1> QED BY <1>3, <1>4

(* A list that gets an event has it once more.                             *)
LEMMA OccurrencesAppend ==
  ASSUME NEW s \in Seq(Files), NEW e \in Files, NEW f
  PROVE  Occurrences(Append(s, e), f) =
           Occurrences(s, f) + IF e = f THEN 1 ELSE 0
<1> DEFINE t == Append(s, e)
<1>1. /\ t \in Seq(Files) /\ Len(t) = Len(s) + 1 /\ t[Len(s) + 1] = e
      /\ Len(s) \in Nat
      /\ \A n \in 1 .. Len(s) : t[n] = s[n]
  OBVIOUS
<1> HIDE DEF t
<1>2. Upto(t, Len(s), f) = Upto(s, Len(s), f)
  <2>1. {n \in 1 .. Len(s) : t[n] = f} = {n \in 1 .. Len(s) : s[n] = f}
    BY <1>1
  <2> QED BY <2>1 DEF Upto
<1>3. Upto(t, Len(s) + 1, f) = Upto(t, Len(s), f) + IF t[Len(s) + 1] = f THEN 1 ELSE 0
  BY <1>1, UptoNext
<1>4. Occurrences(t, f) = Upto(t, Len(s) + 1, f)
      /\ Occurrences(s, f) = Upto(s, Len(s), f)
  BY <1>1, OccurrencesUpto
<1> QED BY <1>1, <1>2, <1>3, <1>4 DEF t

(* An empty list has no event.                                             *)
LEMMA NoOccurrence == \A f : Occurrences(<<>>, f) = 0
<1>1. \A f : {n \in DOMAIN <<>> : <<>>[n] = f} = {}
  OBVIOUS
<1> QED BY <1>1, FS_EmptySet DEF Occurrences

(* The events of one block, as pairs and as places in its sequence.        *)
LEMMA EventsOfOne ==
  ASSUME NEW k \in Kinds, NEW f, NEW b \in Blocks
  PROVE  /\ IsFiniteSet(Events(k, f, {b}))
         /\ Cardinality(Events(k, f, {b})) = Occurrences(Chain[b][k], f)
         /\ Occurrences(Chain[b][k], f) \in Nat
<1> DEFINE places == {n \in DOMAIN Chain[b][k] : Chain[b][k][n] = f}
<1>1. IsFiniteSet(places)
  <2> DEFINE s == Chain[b][k]
  <2>1. s \in Seq(Files)
    BY ChainType
  <2> HIDE DEF s
  <2>2. DOMAIN s = 1 .. Len(s) /\ Len(s) \in Nat
    BY <2>1
  <2>3. IsFiniteSet({n \in 1 .. Len(s) : s[n] = f})
    BY <2>2, UptoType, ZenonT(40)
  <2> QED BY <2>2, <2>3 DEF s
<1>2. IsFiniteSet({b}) /\ Cardinality({b}) = 1
  BY FS_Singleton
<1>3. Events(k, f, {b}) = {b} \X places
  BY DEF Events
<1>4. Cardinality(places) = Occurrences(Chain[b][k], f)
  BY DEF Occurrences
<1> HIDE DEF places
<1>5. /\ IsFiniteSet({b} \X places)
      /\ Cardinality({b} \X places) = Cardinality({b}) * Cardinality(places)
  BY <1>1, <1>2, FS_Product
<1>6. Cardinality(places) \in Nat
  BY <1>1, FS_CardinalityType
<1>7. Cardinality({b} \X places) = Cardinality(places)
  <2>1. \A n \in Nat : 1 * n = n
    OBVIOUS
  <2> QED BY <1>2, <1>5, <1>6, <2>1
<1> QED BY <1>3, <1>4, <1>5, <1>6, <1>7

(* Finitely many blocks have finitely many events.                         *)
LEMMA EventsFinite ==
  ASSUME NEW k \in Kinds, NEW f, NEW S \in SUBSET Blocks, IsFiniteSet(S)
  PROVE  IsFiniteSet(Events(k, f, S))
<1> DEFINE T == {Events(k, f, {b}) : b \in S}
           h == [b \in S |-> Events(k, f, {b})]
<1>1. IsFiniteSet(T)
  <2>1. h \in Surjection(S, T)
    BY DEF Surjection
  <2> HIDE DEF T, h
  <2> QED BY <2>1, FS_Surjection
<1>2. \A e \in T : IsFiniteSet(e)
  BY EventsOfOne
<1>3. Events(k, f, S) = UNION T
  BY DEF Events
<1> HIDE DEF T
<1> QED BY <1>1, <1>2, <1>3, FS_UNION

(* One block more adds its own.                                            *)
LEMMA SumOfBlocks ==
  ASSUME NEW k \in Kinds, NEW f, NEW b \in Blocks
  PROVE  /\ Cardinality(Events(k, f, 1 .. b - 1)) \in Nat
         /\ Cardinality(Events(k, f, 1 .. b))
              = Cardinality(Events(k, f, 1 .. b - 1))
                  + Occurrences(Chain[b][k], f)
<1> DEFINE old == Events(k, f, 1 .. b - 1)
           new == Events(k, f, {b})
<1>1. /\ b \in Nat \ {0} /\ 1 .. b = (1 .. b - 1) \cup {b}
      /\ b \notin 1 .. b - 1 /\ 1 .. b - 1 \subseteq Blocks
  BY ChainType, UpToBlock DEF Blocks
<1>2. IsFiniteSet(1 .. b - 1)
  <2>1. 1 \in Int /\ b - 1 \in Int
    BY <1>1
  <2> QED BY <2>1, FS_Interval
<1>3. IsFiniteSet(old) /\ Cardinality(old) \in Nat
  BY <1>1, <1>2, EventsFinite, FS_CardinalityType
<1>4. /\ IsFiniteSet(new) /\ Cardinality(new) = Occurrences(Chain[b][k], f)
      /\ Cardinality(new) \in Nat
  BY EventsOfOne
<1>5. Events(k, f, 1 .. b) = old \cup new
  <2> DEFINE part(x) == {x} \X {n \in DOMAIN Chain[x][k] : Chain[x][k][n] = f}
  <2>1. ASSUME NEW z, NEW S
        PROVE  z \in Events(k, f, S) <=> \E x \in S : z \in part(x)
    BY DEF Events
  <2> HIDE DEF part
  <2>2. \A z : z \in Events(k, f, 1 .. b) <=> z \in old \/ z \in new
    BY <1>1, <2>1
  <2> HIDE DEF old, new
  <2> QED BY <2>2
<1>6. old \cap new = {}
  BY <1>1 DEF Events
<1> HIDE DEF old, new
<1>7. Cardinality(old \cup new)
        = Cardinality(old) + Cardinality(new) - Cardinality(old \cap new)
  BY <1>3, <1>4, FS_Union
<1>8. Cardinality(old \cap new) = 0
  BY <1>6, FS_EmptySet
<1>9. Cardinality(old \cup new) = Cardinality(old) + Occurrences(Chain[b][k], f)
  BY <1>3, <1>4, <1>7, <1>8
<1>10. Cardinality(Events(k, f, 1 .. b)) = Cardinality(old) + Occurrences(Chain[b][k], f)
  BY <1>5, <1>9
<1> QED BY <1>3, <1>10 DEF old

(* What has been taken of a block's events are no more than it has.        *)
LEMMA TakenBound ==
  ASSUME TypeInv, NEW k \in Kinds, NEW f
  PROVE  /\ Taken(k, f) \in Nat
         /\ Taken(k, f) <= Occurrences(Chain[pos][k], f)
<1>1. Chain[pos][k] \in Seq(Files) /\ events \in Seq(Files)
      /\ i \in 1 .. Len(events) + 1 /\ Len(events) \in Nat
  BY ChainType DEF TypeInv, TypeOK
<1>2. Occurrences(Chain[pos][k], f) \in Nat
  BY <1>1, OccurrencesUpto
<1>3. CASE pc \in {"save", "file"} /\ k = kind
  <2>1. Upto(events, i - 1, f) \in Nat
    <3>1. i - 1 \in Nat
      BY <1>1
    <3> QED BY <3>1, UptoType
  <2>2. Upto(events, i - 1, f) <= Occurrences(events, f)
    <3>1. {n \in 1 .. i - 1 : events[n] = f} \subseteq {n \in DOMAIN events : events[n] = f}
      BY <1>1
    <3>2. IsFiniteSet({n \in DOMAIN events : events[n] = f})
      <4>1. DOMAIN events = 1 .. Len(events)
        BY <1>1
      <4> QED BY <1>1, <4>1, UptoType
    <3> QED BY <3>1, <3>2, FS_Subset DEF Upto, Occurrences
  <2>3. Occurrences(events, f) <= Occurrences(Chain[pos][k], f)
    <3>1. CASE events = Chain[pos][k]
      BY <1>2, <3>1
    <3>2. CASE events = <<>>
      BY <1>2, <3>2, NoOccurrence
    <3> QED BY <1>3, <3>1, <3>2 DEF TypeInv, PlaceInv
  <2>4. Occurrences(events, f) \in Nat
    BY <1>1, OccurrencesUpto
  <2> QED BY <1>2, <1>3, <2>1, <2>2, <2>3, <2>4 DEF Taken
<1>4. CASE ~(pc \in {"save", "file"} /\ k = kind)
  BY <1>2, <1>4 DEF Taken
<1> QED BY <1>3, <1>4

(* The lists are counted by natural numbers.                               *)
LEMMA TotalType ==
  ASSUME TypeInv, NEW k \in Kinds, NEW f
  PROVE  /\ Occurrences(db[k], f) \in Nat
         /\ FileList(k) \in Seq(Files) /\ Occurrences(FileList(k), f) \in Nat
<1>1. db[k] \in Seq(Files) /\ FileList(k) \in Seq(Files)
  BY DEF TypeInv, TypeOK, FileList
<1> QED BY <1>1, OccurrencesUpto

(* Before the first block nothing is counted.                              *)
LEMMA InitNoCrash == Init => NoCrashInv
<1> SUFFICES ASSUME Init, NEW k \in Kinds, NEW f \in Files
             PROVE  Total(k, f) <= Cardinality(Events(k, f, 1 .. pos - 1))
                                     + Taken(k, f)
  BY DEF Init, NoCrashInv
<1>1. Total(k, f) = 0
  BY NoOccurrence DEF Init, Total, FileList
<1>2. 1 \in Blocks
  BY ChainType DEF Blocks
<1>3. Cardinality(Events(k, f, 1 .. 1 - 1)) \in Nat
  BY <1>2, SumOfBlocks
<1>4. Taken(k, f) = 0 /\ pos = 1
  BY DEF Init, Taken, First
<1> QED BY <1>1, <1>3, <1>4

(* A step with no crash so far was one with no crash before.               *)
LEMMA CrashesGrow ==
  TypeInv /\ [Next]_vars /\ crashes' = 0 => crashes = 0 /\ ~Crash
BY DEF TypeInv, TypeOK, Next, SyncBlock, Start, RefreshHeight, NextBlock,
   RetrieveEvents, SaveEvent, SaveToFile, AppendToFile, EndOfEvents, SaveWanted,
   SavePosition, NewBlock, Crash, Fails, Succeeds, counters, vars

(* What the lists have of a file is no more than what was taken for them.  *)
LEMMA NoCrashStep ==
  TypeInv /\ TypeInv' /\ NoCrashInv /\ [Next]_vars => NoCrashInv'
<1> SUFFICES ASSUME TypeInv, TypeInv', [Next]_vars, NoCrashInv, crashes' = 0
             PROVE  NoCrashInv'
  BY DEF NoCrashInv
<1>0. crashes = 0 /\ ~Crash
  BY CrashesGrow
<1>1. pc = "start" => pos = First /\ posDb = NoPosition /\ posFile = NoPosition
  BY <1>0 DEF NoCrashInv
<1>2. pc' = "start" => pc = "start" /\ UNCHANGED <<pos, posDb, posFile>>
  BY <1>0 DEF Next, SyncBlock, Start, RefreshHeight, NextBlock, RetrieveEvents,
     SaveEvent, SaveToFile, EndOfEvents, SaveWanted, SavePosition, NewBlock,
     vars, store, locals
<1>3. SUFFICES ASSUME NEW k \in Kinds, NEW f \in Files
      PROVE (Total(k, f) <= Cardinality(Events(k, f, 1 .. pos - 1)) + Taken(k, f))'
  BY <1>1, <1>2 DEF NoCrashInv
<1> DEFINE Before(p) == Cardinality(Events(k, f, 1 .. p - 1))
<1>4. Total(k, f) <= Before(pos) + Taken(k, f)
  BY <1>0 DEF NoCrashInv
<1>5. /\ Taken(k, f) \in Nat /\ Before(pos) \in Nat
      /\ Occurrences(db[k], f) \in Nat /\ Occurrences(FileList(k), f) \in Nat
  <2>1. pos \in Blocks
    BY DEF TypeInv, TypeOK
  <2>2. Before(pos) \in Nat
    BY <2>1, SumOfBlocks
  <2>3. Taken(k, f) \in Nat
    BY TakenBound
  <2> QED BY <2>2, <2>3, TotalType
<1>6. /\ Total(k, f) = Occurrences(db[k], f) + Occurrences(FileList(k), f)
      /\ Total(k, f)' = Occurrences(db'[k], f) + Occurrences(FileList(k)', f)
      /\ Occurrences(db'[k], f) \in Nat /\ Occurrences(FileList(k)', f) \in Nat
  <2>1. db'[k] \in Seq(Files) /\ FileList(k)' \in Seq(Files)
    BY DEF TypeInv, TypeOK, FileList
  <2> QED BY <2>1, OccurrencesUpto DEF Total, FileList
<1>7. SUFFICES Total(k, f)' <= Before(pos') + Taken(k, f)'
  OBVIOUS
<1> HIDE DEF Before
<1>8. UNCHANGED <<db, dir>> => Total(k, f)' = Total(k, f)
  BY DEF Total, FileList
<1>9. ASSUME UNCHANGED <<db, dir, pos>>, Taken(k, f)' = Taken(k, f)
      PROVE  Total(k, f)' <= Before(pos') + Taken(k, f)'
  BY <1>4, <1>8, <1>9
<1>10. CASE Start
  <2>1. pos' = pos
    <3>1. Max({1, 0, 0}) \in {1, 0, 0} /\ Max({1, 0, 0}) >= 1
      BY MaxOfThree
    <3>2. Max({1, 0}) = 1
      BY MaxOfTwo
    <3> QED BY <1>1, <1>10, <3>1, <3>2 DEF Start, First, NoPosition
  <2> QED BY <1>9, <1>10, <2>1 DEF Start, store, Taken
<1>11. CASE RefreshHeight \/ NextBlock \/ NewBlock \/ UNCHANGED vars
  <2>1. UNCHANGED <<db, dir, pos>>
    BY <1>11 DEF RefreshHeight, NextBlock, NewBlock, vars, store, locals
  <2>2. Taken(k, f)' = Taken(k, f)
    BY <1>11 DEF RefreshHeight, NextBlock, NewBlock, vars, store, locals, Taken,
                 Kinds
  <2> QED BY <1>9, <2>1, <2>2
<1>12. CASE RetrieveEvents
  <2>1. Upto(events', i' - 1, f) = 0
    BY <1>12, UptoZero DEF RetrieveEvents
  <2>2. UNCHANGED <<db, dir, pos, kind>> /\ pc = "retrieve" /\ pc' = "save"
    BY <1>12 DEF RetrieveEvents, store
  <2>3. Taken(k, f)' = Taken(k, f)
    BY <2>1, <2>2 DEF Taken
  <2> QED BY <1>9, <2>2, <2>3
<1>13. ASSUME pc \in {"save", "file"}, pc' = "save", i' = i + 1,
              UNCHANGED <<pos, kind, events>>,
              Total(k, f)' <= Total(k, f) + IF k = kind /\ events[i] = f THEN 1 ELSE 0
       PROVE  Total(k, f)' <= Before(pos') + Taken(k, f)'
  <2>1. i \in Nat \ {0}
    BY DEF TypeInv, TypeOK
  <2>2. Upto(events, i' - 1, f) = Upto(events, i - 1, f) + IF events[i] = f THEN 1 ELSE 0
    <3>1. i - 1 \in Nat /\ (i - 1) + 1 = i /\ i' - 1 = i
      BY <1>13, <2>1
    <3>2. Upto(events, (i - 1) + 1, f)
            = Upto(events, i - 1, f) + IF events[(i - 1) + 1] = f THEN 1 ELSE 0
      BY <3>1, UptoNext
    <3> QED BY <3>1, <3>2
  <2>3. Taken(k, f)' = Taken(k, f)
                         + IF k = kind /\ events[i] = f THEN 1 ELSE 0
    BY <1>5, <1>13, <2>2 DEF Taken
  <2> QED BY <1>4, <1>5, <1>6, <1>13, <2>3
<1>14. ASSUME pc \in {"save", "file"}, i <= Len(events),
              k # kind, db'[k] = db[k], dir'[k] = dir[k]
       PROVE  Total(k, f)' = Total(k, f)
  BY <1>6, <1>14 DEF FileList
<1>15. i <= Len(events) => events[i] \in Files
  BY SMTT(30) DEF TypeInv, TypeOK
<1>16. CASE SaveEvent
  <2>1. /\ pc = "save" /\ i <= Len(events) /\ db \in [Kinds -> Seq(Files)]
        /\ UNCHANGED <<dir, pos, kind, events>>
    BY <1>16 DEF SaveEvent, TypeInv, TypeOK
  <2>2. CASE db' = [db EXCEPT ![kind] = Append(@, events[i])] /\ i' = i + 1
             /\ UNCHANGED pc
    <3>1. CASE k # kind
      BY <1>6, <1>13, <1>14, <2>1, <2>2, <3>1
    <3>2. CASE k = kind
      <4>1. db'[k] = Append(db[k], events[i]) /\ FileList(k)' = FileList(k)
        BY <2>1, <2>2, <3>2 DEF FileList
      <4>2. Occurrences(db'[k], f) = Occurrences(db[k], f)
                                      + IF events[i] = f THEN 1 ELSE 0
        BY <1>15, <2>1, <4>1, OccurrencesAppend
      <4>3. Total(k, f)' <= Total(k, f) + IF k = kind /\ events[i] = f THEN 1 ELSE 0
        BY <1>5, <1>6, <3>2, <4>1, <4>2
      <4> QED BY <1>13, <2>1, <2>2, <4>3
    <3> QED BY <3>1, <3>2
  <2>3. CASE pc' = "file" /\ UNCHANGED <<db, i>>
    <3>1. Taken(k, f)' = Taken(k, f)
      BY <2>1, <2>3 DEF Taken
    <3> QED BY <1>9, <2>1, <2>3, <3>1
  <2>4. CASE i' = i + 1 /\ UNCHANGED <<db, pc>>
    BY <1>5, <1>6, <1>8, <1>13, <2>1, <2>4
  <2> QED BY <1>16, <2>2, <2>3, <2>4 DEF SaveEvent
<1>17. CASE SaveToFile
  <2>1. /\ pc = "file" /\ pc' = "save" /\ i' = i + 1 /\ i <= Len(events)
        /\ dir \in [Kinds -> {Torn} \cup Seq(Files)]
        /\ UNCHANGED <<db, pos, kind, events>>
    BY <1>17 DEF SaveToFile, TypeInv, TypeOK, PlaceInv
  <2>2. PICK l \in {dir[kind], Torn, <<events[i]>>} \cup
                   (IF dir[kind] = Torn THEN {} ELSE {Append(dir[kind], events[i])}) :
          dir' = [dir EXCEPT ![kind] = l]
    BY <1>17, <2>1 DEF SaveToFile, AppendToFile, TypeInv, TypeOK
  <2>3. CASE k # kind
    BY <1>6, <1>13, <1>14, <2>1, <2>2, <2>3
  <2>4. CASE k = kind
    <3>1. dir'[k] = l
      BY <2>1, <2>2, <2>4
    <3>2. Occurrences(FileList(k)', f) <= Occurrences(FileList(k), f)
                                            + IF events[i] = f THEN 1 ELSE 0
      <4>1. CASE dir'[k] = Torn
        <5>1. Occurrences(FileList(k)', f) = 0
          BY <4>1, NoOccurrence DEF FileList
        <5> QED BY <1>5, <5>1
      <4>2. CASE dir'[k] = dir[k]
        BY <1>5, <4>2 DEF FileList
      <4>3. CASE dir'[k] # Torn /\ dir[k] # Torn /\ dir'[k] = Append(dir[k], events[i])
        <5>1. dir[k] \in Seq(Files) /\ FileList(k) = dir[k] /\ FileList(k)' = dir'[k]
          BY <2>1, <4>3 DEF FileList
        <5> QED BY <1>5, <1>15, <2>1, <4>3, <5>1, OccurrencesAppend
      <4>4. CASE dir'[k] = <<events[i]>> /\ dir'[k] # Torn
        <5>1. FileList(k)' = Append(<<>>, events[i]) /\ <<>> \in Seq(Files)
          BY <4>4 DEF FileList
        <5> DEFINE none == <<>>
        <5>2. PICK e \in Files : e = events[i]
          BY <1>15, <2>1
        <5>3. none \in Seq(Files) /\ FileList(k)' = Append(none, e)
          BY <5>1, <5>2
        <5>4. Occurrences(Append(none, e), f)
                = Occurrences(none, f) + IF e = f THEN 1 ELSE 0
          <6> HIDE DEF none
          <6> QED BY <5>3, OccurrencesAppend
        <5>5. Occurrences(FileList(k)', f)
                = Occurrences(none, f) + IF events[i] = f THEN 1 ELSE 0
          BY <5>2, <5>3, <5>4
        <5> QED BY <1>5, <5>5, NoOccurrence
      <4> QED BY <2>2, <2>4, <3>1, <4>1, <4>2, <4>3, <4>4
    <3>3. Total(k, f)' <= Total(k, f) + IF k = kind /\ events[i] = f THEN 1 ELSE 0
      BY <1>5, <1>6, <2>1, <2>4, <3>2
    <3> QED BY <1>13, <2>1, <3>3
  <2> QED BY <2>3, <2>4
<1>18. CASE EndOfEvents
  <2>1. UNCHANGED <<db, dir, pos, kind>> /\ pc = "save"
        /\ pc' = IF kind = "user" THEN "want" ELSE "position"
    BY <1>18 DEF EndOfEvents, store, locals
  <2>2. Taken(k, f) <= Taken(k, f)' /\ Taken(k, f)' \in Nat
    <3>1. CASE k = kind
      <4>1. Taken(k, f)' = Occurrences(Chain[pos][k], f)
        BY <2>1, <3>1 DEF Taken, Kinds
      <4>2. Chain[pos][k] \in Seq(Files)
        BY ChainType DEF TypeInv, TypeOK
      <4> QED BY <4>1, <4>2, TakenBound, OccurrencesUpto
    <3>2. CASE k # kind
      BY <1>5, <2>1, <3>2 DEF Taken, Kinds
    <3> QED BY <3>1, <3>2
  <2> QED BY <1>4, <1>5, <1>6, <1>8, <2>1, <2>2
<1>19. CASE SaveWanted
  <2>1. /\ UNCHANGED <<db, dir, pos>> /\ pc = "want" /\ kind = "user"
        /\ pc' = "retrieve" /\ kind' = "deleted"
    BY <1>19 DEF SaveWanted, TypeInv, PlaceInv
  <2>2. Taken(k, f)' = Taken(k, f)
    BY <2>1 DEF Taken, Kinds
  <2> QED BY <1>9, <2>1, <2>2
<1>20. CASE SavePosition
  <2>1. UNCHANGED <<db, dir>> /\ pos' = pos + 1 /\ pc' = "head" /\ pos \in Blocks
    BY <1>20 DEF SavePosition, TypeInv, TypeOK
  <2>2. (pos + 1) - 1 = pos
    BY <2>1, ChainType DEF Blocks
  <2>3. Before(pos') = Cardinality(Events(k, f, 1 .. pos))
    BY <2>1, <2>2 DEF Before
  <2>4. Before(pos') = Before(pos) + Occurrences(Chain[pos][k], f)
    BY <2>1, <2>3, SumOfBlocks DEF Before
  <2>5. Chain[pos][k] \in Seq(Files)
    BY <2>1, ChainType
  <2>6. Occurrences(Chain[pos][k], f) \in Nat
    BY <2>5, OccurrencesUpto
  <2>7. Taken(k, f) <= Occurrences(Chain[pos][k], f)
    BY TakenBound
  <2>8. Taken(k, f)' = 0
    BY <2>1 DEF Taken
  <2> QED BY <1>4, <1>5, <1>6, <1>8, <2>1, <2>4, <2>6, <2>7, <2>8
<1> QED BY <1>0, <1>10, <1>11, <1>12, <1>16, <1>17, <1>18, <1>19, <1>20
        DEF Next, SyncBlock

(* In one life of the process no event is entered twice: a failed write to *)
(* leveldb sends an event to the file, never to both.                      *)
THEOREM EnteredOnce == Spec => []OncePerLife
<1>1. TypeInv /\ NoCrashInv /\ [Next]_vars => (TypeInv /\ NoCrashInv)'
  BY TypeStep, NoCrashStep
<1>2. TypeInv /\ NoCrashInv => OncePerLife
  <2> SUFFICES ASSUME TypeInv, NoCrashInv, crashes = 0,
                      NEW k \in Kinds, NEW f \in Files
               PROVE  Total(k, f) <= Cardinality(Events(k, f, 1 .. pos))
    BY DEF OncePerLife, Total
  <2>1. pos \in Blocks
    BY DEF TypeInv, TypeOK
  <2>2. Cardinality(Events(k, f, 1 .. pos))
          = Cardinality(Events(k, f, 1 .. pos - 1)) + Occurrences(Chain[pos][k], f)
        /\ Cardinality(Events(k, f, 1 .. pos - 1)) \in Nat
    BY <2>1, SumOfBlocks
  <2>3. Total(k, f) <= Cardinality(Events(k, f, 1 .. pos - 1)) + Taken(k, f)
    BY DEF NoCrashInv
  <2>4. Taken(k, f) \in Nat /\ Taken(k, f) <= Occurrences(Chain[pos][k], f)
    BY TakenBound
  <2>5. Chain[pos][k] \in Seq(Files)
    BY <2>1, ChainType
  <2>6. Occurrences(Chain[pos][k], f) \in Nat /\ Total(k, f) \in Nat
    BY <2>5, OccurrencesUpto, TotalType DEF Total
  <2> QED BY <2>2, <2>3, <2>4, <2>6
<1> QED BY InitTypeInv, InitNoCrash, <1>1, <1>2, PTL DEF Spec
=============================================================================
