------------------------- MODULE ForeignKeysProofs -------------------------
(***************************************************************************)
(* For any constraints, definitions, runs and faults: no definition of a   *)
(* local foreign key is lost before it is reported or superseded.          *)
(***************************************************************************)
EXTENDS ForeignKeys, TLAPS

USE KeysAssumption

\* What the store and the schema hold in each part of a run.
PhaseInv ==
  \A k \in Keys :
    /\ pc = "save" =>
         /\ captured[k] = schema[k]
         /\ merged[k] = IF schema[k] # None THEN schema[k] ELSE store[k]
         /\ k \notin todo /\ merged[k] # None => store[k] = merged[k]
    /\ pc = "drop" /\ schema[k] # None => k \in todo /\ store[k] = schema[k]
    /\ pc = "body" => schema[k] = None
    /\ pc \in {"restore", "apply"} /\ k \in todo => schema[k] = None
    /\ pc = "restore" =>
         /\ merged[k] = store[k]
         /\ k \notin todo /\ k \notin failed => schema[k] = store[k]
         /\ schema[k] # None => schema[k] = store[k]
    /\ pc = "apply" /\ schema[k] # None => k \in given

FkInv == TypeOK /\ PhaseInv /\ DefinitionsSurvive /\ SuccessRestores

\* The invariant of the foreign keys holds before the first run.
LEMMA FkInit == Init => FkInv
BY DEF Init, FkInv, TypeOK, PhaseInv, DefinitionsSurvive, SuccessRestores,
   Catalog, Empty, Dom

\* Every statement of a run, every stop and every edit of the user keeps it.
LEMMA FkStep == FkInv /\ [Next]_vars => FkInv'
<1> SUFFICES ASSUME FkInv, [Next]_vars PROVE FkInv'
  OBVIOUS
<1> USE DEF FkInv, TypeOK, PhaseInv, DefinitionsSurvive, SuccessRestores,
            Catalog, Empty, Dom, mem, hist
<1>1. CASE BeginRun
  BY <1>1 DEF BeginRun, Merge
<1>2. ASSUME NEW k \in Keys, SaveOne(k) PROVE FkInv'
  BY <1>2 DEF SaveOne
<1>3. CASE SaveEnd
  BY <1>3 DEF SaveEnd
<1>4. ASSUME NEW k \in Keys, DropOne(k) PROVE FkInv'
  BY <1>4 DEF DropOne
<1>5. CASE DropEnd
  BY <1>5 DEF DropEnd
<1>6. CASE BodyOkRestore
  BY <1>6 DEF BodyOkRestore, ReplayStore
<1>7. ASSUME NEW r \in Reports, BodyOkApply(r) PROVE FkInv'
  BY <1>7 DEF BodyOkApply
<1>8. ASSUME NEW k \in Keys, AddOne(k) PROVE FkInv'
  BY <1>8 DEF AddOne
<1>9. CASE RestoreEnd
  BY <1>9 DEF RestoreEnd
<1>10. CASE Discard
  BY <1>10 DEF Discard
<1>11. CASE Stop
  BY <1>11 DEF Stop
<1>12. ASSUME NEW k \in Keys, NEW d \in Defs \cup {None}, UserEdit(k, d)
       PROVE  FkInv'
  BY <1>12 DEF UserEdit
<1>13. CASE UNCHANGED vars
  BY <1>13 DEF vars
<1> QED
  BY <1>1, <1>2, <1>3, <1>4, <1>5, <1>6, <1>7, <1>8, <1>9, <1>10, <1>11,
     <1>12, <1>13 DEF Next, Run

\* The inductive invariant holds at every moment.
THEOREM FkInvariant == Spec => []FkInv
<1> QED
  BY FkInit, FkStep, PTL DEF Spec

\* A run may stop between any two of its statements, any number of times: the
\* user's definitions survive in the schema or in the store.
THEOREM DefinitionsAreSafe == Spec => []DefinitionsSurvive
<1>1. FkInv => DefinitionsSurvive
  BY DEF FkInv
<1> QED
  BY <1>1, FkInvariant, PTL

\* A successful run without constraints of the source puts back everything
\* it, or an interrupted run before it, has dropped.
THEOREM RestoreIsComplete == Spec => []SuccessRestores
<1>1. FkInv => SuccessRestores
  BY DEF FkInv
<1> QED
  BY <1>1, FkInvariant, PTL

\* The variables keep their types, and every statement of a run is about a
\* constraint that the map being worked through defines.
THEOREM KeysTypeCorrect == Spec => []TypeOK
<1>1. FkInv => TypeOK
  BY DEF FkInv
<1> QED
  BY <1>1, FkInvariant, PTL

\* While no run has stopped, the store is empty between runs, and neither it
\* nor the map being replayed knows of a constraint the user has dropped.
DropInv ==
  faults = 0 =>
    \A k \in Keys :
      /\ pc \in {"idle", "success"} => store[k] = None
      /\ k \notin given /\ user[k] = None =>
           /\ schema[k] = None /\ store[k] = None
           /\ pc \in {"save", "restore"} => merged[k] = None

\* It holds before the first run, and every step keeps it.
LEMMA DropStep == DropInv /\ TypeOK /\ [Next]_vars => DropInv'
<1> SUFFICES ASSUME DropInv, TypeOK, [Next]_vars PROVE DropInv'
  OBVIOUS
<1> USE DEF DropInv, TypeOK, Catalog, Empty, Dom, mem, hist
<1>1. CASE BeginRun
  BY <1>1 DEF BeginRun, Merge
<1>2. ASSUME NEW k \in Keys, SaveOne(k) PROVE DropInv'
  BY <1>2 DEF SaveOne
<1>3. CASE SaveEnd
  BY <1>3 DEF SaveEnd
<1>4. ASSUME NEW k \in Keys, DropOne(k) PROVE DropInv'
  BY <1>4 DEF DropOne
<1>5. CASE DropEnd
  BY <1>5 DEF DropEnd
<1>6. CASE BodyOkRestore
  BY <1>6 DEF BodyOkRestore, ReplayStore
<1>7. ASSUME NEW r \in Reports, BodyOkApply(r) PROVE DropInv'
  BY <1>7 DEF BodyOkApply
<1>8. ASSUME NEW k \in Keys, AddOne(k) PROVE DropInv'
  BY <1>8 DEF AddOne
<1>9. CASE RestoreEnd
  BY <1>9 DEF RestoreEnd
<1>10. CASE Discard
  BY <1>10 DEF Discard
<1>11. CASE Stop
  BY <1>11 DEF Stop
<1>12. ASSUME NEW k \in Keys, NEW d \in Defs \cup {None}, UserEdit(k, d)
       PROVE  DropInv'
  BY <1>12 DEF UserEdit
<1>13. CASE UNCHANGED vars
  BY <1>13 DEF vars
<1> QED
  BY <1>1, <1>2, <1>3, <1>4, <1>5, <1>6, <1>7, <1>8, <1>9, <1>10, <1>11,
     <1>12, <1>13 DEF Next, Run

\* Over any number of undisturbed runs, a constraint the user has dropped
\* stays dropped unless the source has it.
THEOREM DroppedConstraintsStay == Spec => []DroppedStaysDropped
<1>1. Init => DropInv
  BY DEF Init, DropInv, Empty
<1>2. DropInv => DroppedStaysDropped
  BY DEF DropInv, DroppedStaysDropped
<1> QED
  BY <1>1, <1>2, DropStep, KeysTypeCorrect, PTL DEF Spec
=============================================================================
