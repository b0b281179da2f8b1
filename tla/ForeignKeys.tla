---------------------------- MODULE ForeignKeys ----------------------------
(***************************************************************************)
(* The foreign keys of the local database around an import or a load       *)
(* (client/src/foreign_keys.rs, called by run_import and run_load): they   *)
(* are captured, written to the _jibs_foreign_keys table, dropped, and     *)
(* restored or superseded by the source's once the run has succeeded.      *)
(*                                                                         *)
(* A run can stop between any two statements; the next one starts from     *)
(* the schema and the table it left.  Between runs the user may change     *)
(* the constraints.                                                        *)
(***************************************************************************)
EXTENDS Naturals

CONSTANTS
  Keys,      \* (table, constraint) pairs
  Defs,      \* definitions a constraint may have
  None,      \* no such constraint
  Reports,   \* the constraint sets a source may report
  MaxFaults, \* bound: failing statements and runs that stop
  MaxEdits   \* bound: changes the user makes between runs

Catalog == [Keys -> Defs \cup {None}]

ASSUME KeysAssumption ==
  /\ None \notin Defs
  /\ Reports \subseteq Catalog
  /\ MaxFaults \in Nat /\ MaxEdits \in Nat

VARIABLES
  schema,    \* the constraints of the local schema
  store,     \* the rows of _jibs_foreign_keys
  pc,
  captured,  \* capture_foreign_keys' result
  merged,    \* the map save() writes, then the one being replayed
  todo,      \* keys the current loop over one of them has still to visit
  failed,    \* constraints this run could not restore, and has said so
  user,      \* history: what the user last wanted
  given,     \* history: constraints given up as reported, or superseded
  faults, edits

mem  == <<captured, merged, todo, failed>>
hist == <<user, given, faults, edits>>
vars == <<schema, store, pc, mem, hist>>

Empty == [k \in Keys |-> None]
Dom(f) == {k \in Keys : f[k] # None}

-----------------------------------------------------------------------------
(* preserve_and_drop_foreign_keys *)

\* Variant: the stored definition wins.
MergeStale(cap, old) == [k \in Keys |-> IF old[k] # None THEN old[k] ELSE cap[k]]

\* Current definitions win over those of an interrupted run.
Merge(cap, old) == [k \in Keys |-> IF cap[k] # None THEN cap[k] ELSE old[k]]

BeginRun ==
  /\ pc \in {"idle", "success"}
  /\ captured' = schema
  /\ merged' = Merge(schema, store)
  /\ todo' = Dom(Merge(schema, store))
  /\ failed' = {}
  /\ pc' = "save"
  /\ UNCHANGED <<schema, store, hist>>

\* One REPLACE INTO of the batch.
SaveOne(k) ==
  /\ pc = "save" /\ k \in todo
  /\ store' = [store EXCEPT ![k] = merged[k]]
  /\ todo' = todo \ {k}
  /\ UNCHANGED <<schema, pc, captured, merged, failed, hist>>

\* Variant: constraints are dropped while the definitions are being written.
SaveEndEarly ==
  /\ pc = "save"
  /\ pc' = "drop" /\ todo' = Dom(captured)
  /\ UNCHANGED <<schema, store, captured, merged, failed, hist>>

SaveEnd ==
  /\ pc = "save" /\ todo = {}
  /\ pc' = "drop" /\ todo' = Dom(captured)
  /\ UNCHANGED <<schema, store, captured, merged, failed, hist>>

\* ALTER TABLE ... DROP FOREIGN KEY.
DropOne(k) ==
  /\ pc = "drop" /\ k \in todo
  /\ schema' = [schema EXCEPT ![k] = None]
  /\ todo' = todo \ {k}
  /\ UNCHANGED <<store, pc, captured, merged, failed, hist>>

DropEnd ==
  /\ pc = "drop" /\ todo = {}
  /\ pc' = "body"
  /\ UNCHANGED <<schema, store, mem, hist>>

-----------------------------------------------------------------------------
(* The import or load succeeded *)

\* Variant: restore works from the constraints this run captured.
ReplayCaptured == merged' = captured /\ todo' = Dom(captured)

\* restore_foreign_keys loads the stored definitions.
ReplayStore == merged' = store /\ todo' = Dom(store)

\* An import falls back to the local constraints if the server reports none,
\* a load if the dump has no record of them.
BodyOkRestore ==
  /\ pc = "body"
  /\ pc' = "restore"
  /\ ReplayStore
  /\ UNCHANGED <<schema, store, captured, failed, hist>>

\* An import is told the source's constraints, or a load finds the record,
\* which may be empty.
BodyOkApply(r) ==
  /\ pc = "body"
  /\ pc' = "apply"
  /\ merged' = r /\ todo' = Dom(r)
  /\ UNCHANGED <<schema, store, captured, failed, hist>>

\* One ALTER TABLE ... ADD CONSTRAINT; a failing one is reported and skipped.
AddOne(k) ==
  /\ pc \in {"restore", "apply"} /\ k \in todo
  /\ todo' = todo \ {k}
  /\ \/ /\ schema' = [schema EXCEPT ![k] = merged[k]]
        /\ given' = IF pc = "apply" THEN given \cup {k} ELSE given
        /\ UNCHANGED <<failed, faults>>
     \/ /\ faults < MaxFaults
        /\ faults' = faults + 1
        /\ failed' = failed \cup {k}
        /\ UNCHANGED <<schema, given>>
  /\ UNCHANGED <<store, pc, captured, merged, user, edits>>

\* Variant: the store is dropped before its constraints are back.
RestoreEndEarly ==
  /\ pc = "restore"
  /\ store' = Empty
  /\ given' = given \cup failed
  /\ pc' = "success"
  /\ UNCHANGED <<schema, mem, user, faults, edits>>

\* Variant: the store is kept.
RestoreEndKeeping ==
  /\ pc = "restore" /\ todo = {}
  /\ given' = given \cup failed
  /\ pc' = "success"
  /\ UNCHANGED <<schema, store, mem, user, faults, edits>>

RestoreEnd ==
  /\ pc = "restore" /\ todo = {}
  /\ store' = Empty
  /\ given' = given \cup failed
  /\ pc' = "success"
  /\ UNCHANGED <<schema, mem, user, faults, edits>>

\* discard_preserved_foreign_keys: the local constraints are superseded.
Discard ==
  /\ pc = "apply" /\ todo = {}
  /\ store' = Empty
  /\ given' = Keys
  /\ pc' = "success"
  /\ UNCHANGED <<schema, mem, user, faults, edits>>

-----------------------------------------------------------------------------
\* The run ends in an error or the process dies.
Stop ==
  /\ pc \notin {"idle", "success"} /\ faults < MaxFaults
  /\ faults' = faults + 1
  /\ pc' = "idle"
  /\ captured' = Empty /\ merged' = Empty /\ todo' = {} /\ failed' = {}
  /\ UNCHANGED <<schema, store, user, given, edits>>

\* Between runs the user adds, changes or drops a constraint.
UserEdit(k, d) ==
  /\ pc \in {"idle", "success"} /\ edits < MaxEdits
  /\ schema' = [schema EXCEPT ![k] = d]
  /\ user' = [user EXCEPT ![k] = d]
  /\ given' = given \ {k}
  /\ edits' = edits + 1
  /\ pc' = "idle"
  /\ UNCHANGED <<store, mem, faults>>

Init ==
  /\ schema \in Catalog /\ user = schema
  /\ store = Empty
  /\ pc = "idle"
  /\ captured = Empty /\ merged = Empty /\ todo = {} /\ failed = {}
  /\ given = {} /\ faults = 0 /\ edits = 0

Run ==
  \/ BeginRun \/ SaveEnd \/ DropEnd \/ RestoreEnd \/ Discard
  \/ BodyOkRestore \/ \E r \in Reports : BodyOkApply(r)
  \/ \E k \in Keys : SaveOne(k) \/ DropOne(k) \/ AddOne(k)

Next ==
  \/ Run \/ Stop
  \/ \E k \in Keys, d \in Defs \cup {None} : UserEdit(k, d)

Spec == Init /\ [][Next]_vars

\* A run that is under way goes on, and the user runs jibs again.
FairSpec == Spec /\ WF_vars(Run)

-----------------------------------------------------------------------------
(* Properties *)

\* The types of the variables; a statement is only issued for a constraint
\* that the map being worked through defines.
TypeOK ==
  /\ schema \in Catalog /\ store \in Catalog
  /\ captured \in Catalog /\ merged \in Catalog /\ user \in Catalog
  /\ pc \in {"idle", "save", "drop", "body", "restore", "apply", "success"}
  /\ todo \in SUBSET Dom(IF pc = "drop" THEN schema ELSE merged)
  /\ failed \in SUBSET Keys /\ given \in SUBSET Keys
  /\ faults \in Nat /\ edits \in Nat

\* The definition the user last gave a constraint is in the schema or, while
\* it is dropped, in the store, over any number of runs that stop anywhere,
\* until it is reported as lost or superseded by the source's
\* (foreign_keys.rs:163, 170).
DefinitionsSurvive ==
  \A k \in Keys \ given : user[k] # None =>
    IF schema[k] # None THEN schema[k] = user[k] ELSE store[k] = user[k]

\* A run that succeeds without constraints of the source leaves every local
\* constraint in the schema as the user defined it, also those that an
\* earlier, interrupted run had dropped (foreign_keys.rs:194).
SuccessRestores ==
  pc = "success" => \A k \in Keys \ given : user[k] # None => schema[k] = user[k]

\* A constraint the user has dropped does not come back by itself: only a run
\* that stopped leaves a store from which a later one could bring it back
\* (foreign_keys.rs:170, 227), and only the source's own adds it afresh.
DroppedStaysDropped ==
  faults = 0 => \A k \in Keys \ given : user[k] = None => schema[k] = None

\* No definition is stranded in the store: runs being repeated, each
\* constraint is back in the schema in the end.
KeysComeBack ==
  \A k \in Keys : [](user[k] # None => <>(schema[k] = user[k] \/ k \in given))
=============================================================================
