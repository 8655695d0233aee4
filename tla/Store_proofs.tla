---------------------------- MODULE Store_proofs ----------------------------
(***************************************************************************)
(* Theorems about ProxyStore and the modules built on it, StoreHistory and *)
(* Service, for all sources, proxies, collectors, configurations and       *)
(* damage: what the store itself keeps, that its two files behave as       *)
(* PublishedList says, what a recovery waits for, that the running process *)
(* is a user of the store to which all of this applies, and that Config    *)
(* accepts only what the store can be opened and run with.                 *)
(***************************************************************************)
EXTENDS Service, StoreHistory, Config, FoldLemmas

USE DEF Damaged, Present, NoReply

(* Lemmas on the operations of the persisted state: each yields a state.   *)
LEMMA EmptyType == Empty \in State
  BY DEF Empty, State

LEMMA RecoveringType ==
  ASSUME StoreAssumption, NEW cfg \in Configs
  PROVE  Recovering(cfg) \in State
  BY DEF StoreAssumption, Recovering, Empty, State

LEMMA PruneType ==
  ASSUME NEW st \in State, NEW cfg
  PROVE  Prune(st, cfg) \in State
  BY DEF State, Prune

LEMMA ReceiveType ==
  ASSUME NEW st \in State, NEW s \in Sources, NEW us \in SUBSET Proxies,
         NEW complete \in BOOLEAN
  PROVE  Receive(st, s, us, complete) \in State
  BY DEF State, Receive

LEMMA AggregateType ==
  ASSUME NEW st \in State
  PROVE  Aggregate(st) \in SUBSET Proxies
  BY DEF State, Aggregate

(* What the alive filter leaves is part of the aggregate. *)
LEMMA SurvivorsType ==
  ASSUME TypeOK
  PROVE  Survivors \subseteq SUBSET Aggregate(mem)
  BY DEF Survivors

LEMMA InitType == Init => TypeOK
<1> SUFFICES ASSUME Init PROVE TypeOK
  OBVIOUS
<1> QED
  BY EmptyType, StoreAssumption DEF Init, TypeOK, StoreAssumption

(* Abort and Finish keep the types of what they assign. *)
LEMMA AbortType ==
  ASSUME TypeOK, Abort
  PROVE  /\ phase' \in {"down", "ready"}
         /\ booting' \in BOOLEAN
         /\ mem' \in State
         /\ reply' \in [accepted : BOOLEAN, published : BOOLEAN, err : BOOLEAN]
         /\ settled' \in BOOLEAN
  BY EmptyType DEF TypeOK, Abort

LEMMA FinishType ==
  ASSUME TypeOK, NEW b \in BOOLEAN, Finish(b)
  PROVE  /\ phase' = "ready"
         /\ booting' \in BOOLEAN
         /\ reply' \in [accepted : BOOLEAN, published : BOOLEAN, err : BOOLEAN]
         /\ settled' \in BOOLEAN
  BY DEF TypeOK, Finish

LEMMA OpenType ==
  ASSUME TypeOK, NEW cfg \in Configs, Open(cfg)
  PROVE  TypeOK'
<1>1. CASE OpenMissing(cfg)
  BY <1>1, RecoveringType, StoreAssumption DEF TypeOK, OpenMissing
<1>2. CASE OpenUnusable(cfg)
  BY <1>2 DEF TypeOK, OpenUnusable
<1>3. CASE OpenUsable(cfg)
  <2>1. mem' \in State
    BY <1>3, RecoveringType, PruneType, StoreAssumption DEF TypeOK, OpenUsable
  <2> QED
    BY <1>3, <2>1 DEF TypeOK, OpenUsable
<1> QED
  BY <1>1, <1>2, <1>3 DEF Open

LEMMA NextType == TypeOK /\ [Next]_vars => TypeOK'
<1> SUFFICES ASSUME TypeOK, [Next]_vars PROVE TypeOK'
  OBVIOUS
<1>1. ASSUME NEW cfg \in Configs, Open(cfg) PROVE TypeOK'
  BY <1>1, OpenType
<1>2. ASSUME NEW s \in Sources, IgnoreZero(s) PROVE TypeOK'
  BY <1>2 DEF TypeOK, IgnoreZero
<1>3. ASSUME NEW s \in Sources, NEW us \in SUBSET Proxies, NEW complete \in BOOLEAN,
             Update(s, us, complete)
      PROVE  TypeOK'
  <2>1. mem' \in State
    BY <1>3, ReceiveType DEF TypeOK, Update
  <2>2. Accepts(mem, us, complete) \in BOOLEAN
    BY DEF Accepts
  <2> QED
    BY <1>3, <2>1, <2>2 DEF TypeOK, Update
<1>4. CASE Quarantine
  BY <1>4, EmptyType, RecoveringType, StoreAssumption DEF TypeOK, Quarantine
<1>5. CASE SaveThenPublish
  BY <1>5 DEF TypeOK, SaveThenPublish
<1>6. CASE SaveInRecovery
  BY <1>6 DEF TypeOK, SaveInRecovery
<1>7. CASE PublishList
  <2>1. list' \in SUBSET Proxies
    BY <1>7, SurvivorsType, AggregateType DEF TypeOK, PublishList
  <2> QED
    BY <1>7, <2>1, FinishType DEF TypeOK, PublishList
<1>8. CASE PublishNothing
  <2>1. list' \in SUBSET Proxies
    BY <1>8 DEF TypeOK, PublishNothing
  <2> QED
    BY <1>8, <2>1, FinishType DEF TypeOK, PublishNothing
<1>9. CASE QuarantineFails
  BY <1>9, AbortType DEF TypeOK, QuarantineFails
<1>10. CASE SaveFails
  BY <1>10, AbortType DEF TypeOK, SaveFails
<1>11. CASE PublishFails
  <2>1. list' \in SUBSET Proxies
    BY <1>11, SurvivorsType, AggregateType DEF TypeOK, PublishFails
  <2> QED
    BY <1>11, <2>1, AbortType DEF TypeOK, PublishFails
<1>12. CASE Kill
  BY <1>12, EmptyType DEF TypeOK, Kill
<1>13. CASE LoseState
  BY <1>13, EmptyType, StoreAssumption DEF TypeOK, LoseState, StoreAssumption
<1>14. CASE UNCHANGED vars
  BY <1>14 DEF TypeOK, vars
<1> QED
  BY <1>1, <1>2, <1>3, <1>4, <1>5, <1>6, <1>7, <1>8, <1>9, <1>10, <1>11, <1>12,
     <1>13, <1>14 DEF Next, Call, Step, Fault

(* Every reachable state of the store is well typed; in particular memory  *)
(* and state file never hold proxies under a key that is not a source.     *)
THEOREM TypeCorrect == Spec => []TypeOK
  BY InitType, NextType, PTL DEF Spec

-----------------------------------------------------------------------------
(* The safety invariants.  Inv adds to them what each phase of a call may  *)
(* rely on, which makes it inductive.                                      *)

(* Recovery is entered with at least one source to wait for, and around    *)
(* nothing that is known.                                                  *)
LEMMA RecoveringState ==
  ASSUME NEW cfg
  PROVE  /\ Recovering(cfg).pending = cfg.expected
         /\ Recovering(cfg).known = {}
  BY DEF Recovering, Empty

LEMMA EmptyState ==
  Empty.pending = {} /\ Empty.known = {} /\ Aggregate(Empty) = {}
  BY DEF Empty, Aggregate

(* Neither a start nor a result adds a source to wait for. *)
LEMMA PendingShrinks ==
  ASSUME NEW st \in State
  PROVE  /\ \A cfg : Prune(st, cfg).pending \subseteq st.pending
         /\ \A s \in Sources, us \in SUBSET Proxies, complete \in BOOLEAN :
              Receive(st, s, us, complete).pending \subseteq st.pending
  BY DEF Prune, Receive, State

LEMMA FileRecord ==
  ASSUME TypeOK, file.status = "present"
  PROVE  file = Present(file.state)
  BY DEF TypeOK

LEMMA InitInv == Init => Inv
<1> SUFFICES ASSUME Init PROVE Inv
  OBVIOUS
<1> USE DEF Init
<1>1. PhaseInv
  BY DEF PhaseInv
<1>2. MemoryServesList /\ RecoveryServesList
  BY EmptyState DEF MemoryServesList, RecoveryServesList, FileInRecovery
<1>3. SettledAgrees /\ PublishedIsOnDisk
  BY DEF SettledAgrees, PublishedIsOnDisk
<1> QED
  BY <1>1, <1>2, <1>3, InitType DEF Inv

LEMMA NextInv == Inv /\ [Next]_vars => Inv'
<1> SUFFICES ASSUME Inv, [Next]_vars PROVE Inv'
  OBVIOUS
<1> DEFINE Safe == /\ PhaseInv /\ MemoryServesList /\ RecoveryServesList
                   /\ SettledAgrees /\ PublishedIsOnDisk
<1> USE DEF Inv, PhaseInv, MemoryServesList, RecoveryServesList, FileInRecovery,
            SettledAgrees, PublishedIsOnDisk
<1>0. TypeOK /\ TypeOK'
  BY NextType
<1>1. ASSUME NEW cfg \in Configs, OpenMissing(cfg) PROVE Safe'
  BY <1>1, <1>0, EmptyState DEF OpenMissing
<1>2. ASSUME NEW cfg \in Configs, OpenUnusable(cfg) PROVE Safe'
  BY <1>2 DEF OpenUnusable
<1>3. ASSUME NEW cfg \in Configs, OpenUsable(cfg) PROVE Safe'
  <2>1. file = Present(file.state)
    BY <1>3, <1>0, FileRecord DEF OpenUsable, Usable
  <2>2. MemoryServesList'
    <3>1. CASE mem' = Recovering(cfg) /\ list # {}
      BY <1>3, <3>1 DEF OpenUsable
    <3>2. CASE mem' = Prune(file.state, cfg)
      <4>1. mem'.pending # {} => file.state.pending # {}
        BY <3>2, <1>0, PendingShrinks DEF TypeOK
      <4> QED
        BY <1>3, <4>1, <2>1 DEF OpenUsable
    <3> QED
      BY <1>3, <3>1, <3>2 DEF OpenUsable
  <2> QED
    BY <1>3, <2>1, <2>2 DEF OpenUsable
<1>4. ASSUME NEW s \in Sources, IgnoreZero(s) PROVE Safe'
  BY <1>4 DEF IgnoreZero
<1>5. ASSUME NEW s \in Sources, NEW us \in SUBSET Proxies, NEW complete \in BOOLEAN,
             Update(s, us, complete)
      PROVE  Safe'
  <2>1. mem'.pending # {} => mem.pending # {}
    BY <1>5, <1>0, PendingShrinks DEF Update, TypeOK
  <2>2. ~reply'.published
    BY <1>5 DEF Update
  <2> QED
    BY <1>5, <2>1, <2>2 DEF Update
<1>6. CASE Quarantine
  BY <1>6, <1>0 DEF Quarantine
<1>7. CASE SaveThenPublish
  BY <1>7, <1>0 DEF SaveThenPublish
<1>8. CASE SaveInRecovery
  BY <1>8, <1>0 DEF SaveInRecovery
<1>9. CASE PublishList
  BY <1>9, <1>0, SurvivorsType DEF PublishList, Finish, Survivors
<1>10. CASE PublishNothing
  BY <1>10, <1>0 DEF PublishNothing, Finish, Survivors
<1>11. CASE QuarantineFails
  BY <1>11, <1>0, EmptyState DEF QuarantineFails, Abort
<1>12. CASE SaveFails
  BY <1>12, <1>0, EmptyState DEF SaveFails, Abort
<1>13. CASE PublishFails
  BY <1>13, <1>0, EmptyState DEF PublishFails, Abort
<1>14. CASE Kill
  BY <1>14, <1>0, EmptyState DEF Kill
<1>15. CASE LoseState
  BY <1>15, <1>0, StoreAssumption DEF LoseState, StoreAssumption
<1>16. CASE UNCHANGED vars
  BY <1>16, <1>0 DEF vars
<1> QED
  BY <1>0, <1>1, <1>2, <1>3, <1>4, <1>5, <1>6, <1>7, <1>8, <1>9, <1>10, <1>11, <1>12,
     <1>13, <1>14, <1>15, <1>16 DEF Next, Call, Step, Fault, Open

(* Wherever the process dies and whichever write fails, a state file that  *)
(* records a recovery has an old list beside it.                           *)
THEOREM OldListIsServed == Spec => []RecoveryServesList
  BY InitInv, NextInv, PTL DEF Spec, Inv

(* A call that completed its writes leaves memory, file and list agreeing. *)
THEOREM SettledStoreAgrees == Spec => []SettledAgrees
  BY InitInv, NextInv, PTL DEF Spec, Inv

(* A result reported as published is on disk. *)
THEOREM PublishedResultIsOnDisk == Spec => []PublishedIsOnDisk
  BY InitInv, NextInv, PTL DEF Spec, Inv

-----------------------------------------------------------------------------
(* What a step may never do to the list.                                   *)

(* Only publishing changes the list, and what it writes is recorded.       *)
LEMMA ListStep ==
  ASSUME Inv, [Next]_vars, list' # list
  PROVE  /\ file = Present(mem) /\ mem.pending = {}
         /\ list' \subseteq Aggregate(mem)
         /\ list' = {} => ~config.alive /\ Aggregate(mem) = {}
<1>0. TypeOK /\ PhaseInv
  BY DEF Inv
<1>1. CASE PublishList
  BY <1>1, <1>0, SurvivorsType DEF PublishList, PhaseInv
<1>2. CASE PublishNothing
  BY <1>2, <1>0, SurvivorsType DEF PublishNothing, PhaseInv, Survivors
<1>3. CASE PublishFails
  BY <1>3, <1>0, SurvivorsType DEF PublishFails, PhaseInv
<1>4. ASSUME ~PublishList, ~PublishNothing, ~PublishFails PROVE FALSE
  BY <1>4 DEF Next, Call, Step, Fault, vars, Open, OpenMissing, OpenUnusable, OpenUsable,
     IgnoreZero, Update, Quarantine, SaveThenPublish, SaveInRecovery, QuarantineFails,
     SaveFails, Kill, LoseState
<1> QED
  BY <1>1, <1>2, <1>3, <1>4

(* The save comes first: the list is only replaced or removed when the     *)
(* state file already records what replaces it.                            *)
THEOREM ListAfterState == Spec => ListFollowsState
<1>1. Inv /\ [Next]_vars =>
        [list' # list => /\ file = Present(mem)
                         /\ mem.pending = {}
                         /\ list' \subseteq Aggregate(file.state)]_vars
  BY ListStep
<1> QED
  BY <1>1, InitInv, NextInv, PTL DEF Spec, ListFollowsState

(* A list goes only with validation off and nothing left to publish.       *)
THEOREM ListIsKept == Spec => ListKept
<1>1. Inv /\ [Next]_vars =>
        [list # {} /\ list' = {} => ~config.alive /\ Aggregate(file.state) = {}]_vars
  BY ListStep
<1> QED
  BY <1>1, InitInv, NextInv, PTL DEF Spec, ListKept

-----------------------------------------------------------------------------
(* ProxyStore implements PublishedList: for every choice of the constants  *)
(* its two files behave as the abstract specification says, and no source  *)
(* is forgotten outside recovery.                                          *)

LEMMA ConfigType ==
  ASSUME TypeOK
  PROVE  config.expected \in SUBSET Sources /\ config.expected # {}
  BY StoreAssumption DEF TypeOK, StoreAssumption

(* A start keeps all that is still configured. *)
LEMMA PruneKeeps ==
  ASSUME NEW st \in State, NEW cfg, cfg.expected \in SUBSET Sources
  PROVE  /\ Prune(st, cfg).known = st.known \cap cfg.expected
         /\ Prune(st, cfg).pending = st.pending \cap cfg.expected
         /\ \A s \in cfg.expected : Prune(st, cfg).urls[s] = st.urls[s]
  BY DEF State, Prune

LEMMA InitLineage == Init => Lineage
  BY DEF Init, Lineage

(* Every step keeps the memory a continuation of the state file. *)
LEMMA NextLineage == Inv /\ Lineage /\ [Next]_vars => Lineage'
<1> SUFFICES ASSUME Inv, Lineage, [Next]_vars PROVE Lineage'
  OBVIOUS
<1>0. TypeOK /\ TypeOK' /\ PhaseInv
  BY NextType DEF Inv
<1>c. config.expected \in SUBSET Sources /\ config'.expected \in SUBSET Sources
  BY <1>0, StoreAssumption DEF TypeOK, StoreAssumption
<1>1. ASSUME NEW cfg \in Configs, OpenMissing(cfg) PROVE Lineage'
  <2>1. file' = file /\ file.state = Empty /\ config' = cfg
    BY <1>1 DEF OpenMissing, Lineage
  <2>2. CASE list # {}
    BY <1>1, <1>0, <1>c, <2>1, <2>2, RecoveringState, EmptyState
    DEF OpenMissing, Lineage, Rebuilding
  <2>3. CASE list = {}
    BY <1>1, <1>0, <1>c, <2>1, <2>3, EmptyState
    DEF OpenMissing, Lineage, Continues, PhaseInv, Empty
  <2> QED
    BY <2>2, <2>3
<1>2. ASSUME NEW cfg \in Configs, OpenUnusable(cfg) PROVE Lineage'
  BY <1>2 DEF OpenUnusable, Lineage
<1>3. ASSUME NEW cfg \in Configs, OpenUsable(cfg) PROVE Lineage'
  <2>1. file' = file /\ file.status = "present" /\ config' = cfg /\ file.state \in State
    BY <1>3, <1>0 DEF OpenUsable, Usable, TypeOK
  <2>p. /\ Prune(file.state, cfg).known = file.state.known \cap cfg.expected
        /\ Prune(file.state, cfg).pending = file.state.pending \cap cfg.expected
        /\ \A s \in cfg.expected : Prune(file.state, cfg).urls[s] = file.state.urls[s]
    BY <1>c, <2>1, PruneKeeps
  <2>2. CASE /\ Prune(file.state, cfg).pending = {} /\ Prune(file.state, cfg).known = {}
             /\ list # {} /\ mem' = Recovering(cfg)
    <3>1. mem' # file.state
      BY <2>2, <2>p, RecoveringState, StoreAssumption DEF StoreAssumption
    <3> QED
      BY <1>3, <2>1, <2>2, <2>p, <3>1, <1>c, RecoveringState DEF OpenUsable, Lineage, Rebuilding
  <2>3. CASE mem' = Prune(file.state, cfg)
    BY <1>3, <2>1, <2>3, <2>p, <1>c DEF OpenUsable, Lineage, Continues
  <2> QED
    BY <1>3, <2>2, <2>3 DEF OpenUsable
<1>4. ASSUME NEW s \in Sources, IgnoreZero(s) PROVE Lineage'
  BY <1>4 DEF IgnoreZero, Lineage, Rebuilding, Continues
<1>5. ASSUME NEW s \in Sources, NEW us \in SUBSET Proxies, NEW complete \in BOOLEAN,
             Update(s, us, complete)
      PROVE  Lineage'
  <2>1. /\ mem.known \subseteq mem'.known
        /\ mem'.known \subseteq mem.known \cup {s}
        /\ mem.pending \ mem'.pending \subseteq mem'.known
        /\ mem'.pending \subseteq mem.pending
        /\ mem.pending = {} =>
             \A t \in Sources : mem.urls[t] # {} => mem'.urls[t] # {}
    <3>1. mem \in State /\ mem' = Receive(mem, s, us, complete)
      BY <1>5, <1>0 DEF Update, TypeOK
    <3> QED
      BY <3>1 DEF State, Receive, Accepts
  <2>2. phase = "ready" /\ s \in config.expected /\ UNCHANGED <<config, file, list>>
    BY <1>5 DEF Update
  <2>3. /\ Continues(file.state) /\ mem.known \cup mem.pending \subseteq config.expected
        /\ file.status = "present" \/ list = {}
        /\ file.status # "present" => file.state = Empty
    BY <2>2 DEF Lineage, Rebuilding
  <2>4. Continues(file.state)'
    BY <2>1, <2>2, <2>3, <1>c DEF Continues
  <2>5. (mem.known \cup mem.pending \subseteq config.expected)'
    BY <2>1, <2>2, <2>3
  <2> QED
    BY <2>2, <2>3, <2>4, <2>5 DEF Lineage
<1>6. CASE Quarantine
  BY <1>6, <1>0, <1>c, RecoveringState, EmptyState
  DEF Quarantine, Lineage, Rebuilding, PhaseInv
<1>7. CASE SaveThenPublish
  BY <1>7, <1>c DEF SaveThenPublish, Lineage, Continues
<1>8. CASE SaveInRecovery
  BY <1>8, <1>c DEF SaveInRecovery, Lineage, Continues
<1>9. CASE PublishList \/ PublishNothing
  BY <1>9, <1>0 DEF PublishList, PublishNothing, Finish, PhaseInv, Lineage, Rebuilding, Continues
<1>10. CASE QuarantineFails
  BY <1>10, <1>0 DEF QuarantineFails, Abort, PhaseInv, Lineage
<1>11. CASE SaveFails
  BY <1>11, <1>c DEF SaveFails, Abort, Lineage, Rebuilding, Continues
<1>12. CASE PublishFails
  BY <1>12, <1>0 DEF PublishFails, Abort, PhaseInv, Lineage, Rebuilding, Continues
<1>13. CASE Kill
  BY <1>13 DEF Kill, Lineage
<1>14. CASE LoseState
  BY <1>14, StoreAssumption DEF LoseState, StoreAssumption, Lineage
<1>15. CASE UNCHANGED vars
  BY <1>15 DEF vars, Lineage, Rebuilding, Continues
<1> QED
  BY <1>1, <1>2, <1>3, <1>4, <1>5, <1>6, <1>7, <1>8, <1>9, <1>10, <1>11, <1>12,
     <1>13, <1>14, <1>15 DEF Next, Call, Step, Fault, Open

-----------------------------------------------------------------------------
(* Every step is a step of PublishedList on the two files, or none.        *)

LEMMA InitFiles == Init => Files!Init
<1> SUFFICES ASSUME Init PROVE Files!Init
  OBVIOUS
<1>1. config.expected \in SUBSET Sources /\ list \in SUBSET Proxies
  BY InitType, ConfigType DEF TypeOK
<1> QED
  BY <1>1 DEF Init, Files!Init, Files!Empty, Empty

(* Saving the memory either records a recovery around a list or records    *)
(* results.                                                                *)
LEMMA SaveStep ==
  ASSUME Inv, Lineage, phase = "save", file' = Present(mem), UNCHANGED <<config, list>>
  PROVE  Files!Recover \/ Files!Record
<1>0. mem \in State /\ file.state \in State
  BY DEF Inv, TypeOK
<1>1. CASE Rebuilding
  BY <1>1 DEF Rebuilding, Recovering, Empty, Files!Recover, Files!Empty
<1>2. CASE ~Rebuilding
  BY <1>2, <1>0 DEF Lineage, Continues, Files!Record, Files!State, State
<1> QED
  BY <1>1, <1>2

LEMMA NextFiles ==
  Inv /\ Lineage /\ [Next]_vars =>
    [Files!Next]_<<config.expected, file.status = "present", file.state, list>>
<1> SUFFICES ASSUME Inv, Lineage, [Next]_vars
             PROVE  Files!Next \/ UNCHANGED <<config.expected, file.status = "present",
                                              file.state, list>>
  OBVIOUS
<1>0. TypeOK /\ TypeOK' /\ PhaseInv
  BY NextType DEF Inv
<1>1. ASSUME NEW cfg \in Configs, Open(cfg) PROVE Files!Next
  <2>1. config'.expected \in SUBSET Sources
    BY <1>0, StoreAssumption DEF TypeOK, StoreAssumption
  <2> QED
    BY <1>1, <2>1 DEF Open, OpenMissing, OpenUnusable, OpenUsable, Files!Next, Files!Configure
<1>2. ASSUME NEW s \in Sources, IgnoreZero(s) PROVE UNCHANGED <<config, file, list>>
  BY <1>2 DEF IgnoreZero
<1>3. ASSUME NEW s \in Sources, NEW us \in SUBSET Proxies, NEW complete \in BOOLEAN,
             Update(s, us, complete)
      PROVE  UNCHANGED <<config, file, list>>
  BY <1>3 DEF Update
<1>4. CASE Quarantine \/ LoseState
  <2>1. file'.status # "present" /\ file'.state = Empty /\ UNCHANGED <<config, list>>
    BY <1>4, StoreAssumption DEF Quarantine, LoseState, StoreAssumption
  <2> QED
    BY <2>1 DEF Files!Next, Files!Lose, Files!Empty, Empty
<1>5. CASE SaveThenPublish \/ SaveInRecovery \/ SaveFails
  <2>1. phase = "save" /\ UNCHANGED <<config, list>>
    BY <1>5 DEF SaveThenPublish, SaveInRecovery, SaveFails
  <2>2. file' = file \/ file' = Present(mem)
    BY <1>5 DEF SaveThenPublish, SaveInRecovery, SaveFails
  <2> QED
    BY <2>1, <2>2, SaveStep DEF Files!Next
<1>6. CASE PublishList \/ PublishNothing \/ PublishFails
  <2>1. phase = "publish" /\ UNCHANGED <<config, file>>
    BY <1>6 DEF PublishList, PublishNothing, PublishFails
  <2>2. CASE list' = list
    BY <2>1, <2>2
  <2>3. CASE list' # list
    BY <2>1, <2>3, ListStep DEF Files!Next, Files!Publish, Aggregate
  <2> QED
    BY <2>2, <2>3
<1>7. CASE QuarantineFails \/ Kill \/ UNCHANGED vars
  BY <1>7 DEF QuarantineFails, Kill, vars
<1> QED
  BY <1>1, <1>2, <1>3, <1>4, <1>5, <1>6, <1>7 DEF Next, Call, Step, Fault

(* The store keeps the promise PublishedList states about its files.       *)
THEOREM StoreImplementsPublishedList == Spec => ImplementsPublishedList
  BY InitInv, NextInv, InitLineage, NextLineage, InitFiles, NextFiles, PTL
  DEF Spec, ImplementsPublishedList, Files!Spec

(* Memory may be ahead of the state file, by results whose save failed or  *)
(* is still due; of what the file records it has forgotten nothing.        *)
THEOREM MemoryForgetsNothing == Spec => []Lineage
  BY InitInv, NextInv, InitLineage, NextLineage, PTL DEF Spec

(* A state file is only ever written by a save. *)
LEMMA FileStep ==
  ASSUME [Next]_vars, file' # file, file'.status = "present"
  PROVE  phase = "save" /\ file' = Present(mem) /\ config' = config
<1>1. CASE SaveThenPublish \/ SaveInRecovery \/ SaveFails
  <2>1. phase = "save" /\ config' = config /\ file' \in {file, Present(mem)}
    BY <1>1 DEF SaveThenPublish, SaveInRecovery, SaveFails
  <2> QED
    BY <2>1
<1>2. CASE Quarantine
  BY <1>2 DEF Quarantine
<1>3. CASE PublishList \/ PublishNothing \/ QuarantineFails \/ PublishFails
  BY <1>3 DEF PublishList, PublishNothing, QuarantineFails, PublishFails
<1>4. CASE LoseState
  BY <1>4, StoreAssumption DEF LoseState, StoreAssumption
<1>5. CASE Kill \/ UNCHANGED vars
  BY <1>5 DEF Kill, vars
<1>6. CASE Call
  <2>1. ASSUME NEW cfg \in Configs, Open(cfg) PROVE file' = file
    BY <2>1 DEF Open, OpenMissing, OpenUnusable, OpenUsable
  <2>2. ASSUME NEW s \in Sources, IgnoreZero(s) PROVE file' = file
    BY <2>2 DEF IgnoreZero
  <2>3. ASSUME NEW s \in Sources, NEW us \in SUBSET Proxies, NEW complete \in BOOLEAN,
               Update(s, us, complete)
        PROVE  file' = file
    BY <2>3 DEF Update
  <2> QED
    BY <1>6, <2>1, <2>2, <2>3 DEF Call
<1> QED
  BY <1>1, <1>2, <1>3, <1>4, <1>5, <1>6 DEF Next, Step, Fault

(* Outside recovery no source loses its last proxies while it is configured.*)
THEOREM NoSourceForgotten == Spec => SourceNotForgotten
<1>1. Inv /\ Lineage /\ [Next]_vars =>
        [\A s \in Sources :
           /\ file.status = "present" /\ file.state.pending = {}
           /\ file.state.urls[s] # {}
           /\ file'.status = "present" /\ s \in config'.expected
           => file'.state.urls[s] # {}]_vars
  <2> SUFFICES ASSUME Inv, Lineage, [Next]_vars, file' # file,
                      NEW s \in Sources,
                      file.status = "present", file.state.pending = {},
                      file.state.urls[s] # {},
                      file'.status = "present", s \in config'.expected
               PROVE  file'.state.urls[s] # {}
    OBVIOUS
  <2>0. file.state \in State
    BY DEF Inv, TypeOK
  <2>1. phase = "save" /\ file' = Present(mem) /\ config' = config
    BY FileStep
  <2>2. CASE Rebuilding
    BY <2>0, <2>1, <2>2 DEF Rebuilding, State
  <2>3. CASE Continues(file.state)
    BY <2>1, <2>3 DEF Continues
  <2> QED
    BY <2>1, <2>2, <2>3 DEF Lineage
<1> QED
  BY <1>1, InitInv, NextInv, InitLineage, NextLineage, PTL DEF Spec, SourceNotForgotten

-----------------------------------------------------------------------------
(* A recovery waits for every source it began with.                        *)

(* The history only watches: its steps are the store's. *)
LEMMA HistoryStep == [HistoryNext]_historyVars => [Next]_vars
  BY DEF HistoryNext, historyVars, Next, Call

(* Whatever is remembered, the sources that came back stay remembered and  *)
(* nobody new has to be waited for, unless everybody is awaited anew.      *)
LEMMA Remembered ==
  ASSUME NEW back, Remember(back)
  PROVE  \/ /\ file'.status = "present" /\ steady' = file'.state.pending /\ file' # file
         \/ /\ completed' = completed \cup back
            /\ steady' \subseteq steady /\ steady' \subseteq config'.expected
  BY DEF Remember, AllAwaited

LEMMA OpenAwaits ==
  ASSUME Inv, AwaitedOrBack, NEW cfg \in Configs, Open(cfg), Remember({})
  PROVE  AwaitedOrBack'
<1>1. /\ file' = file /\ config' = cfg /\ completed' = completed
      /\ steady' \subseteq steady /\ steady' \subseteq cfg.expected
  BY Remembered DEF Open, OpenMissing, OpenUnusable, OpenUsable
<1>2. CASE OpenMissing(cfg)
  BY <1>1, <1>2, EmptyState, RecoveringState
     DEF OpenMissing, AwaitedOrBack, FileInRecovery, Inv, PhaseInv
<1>3. CASE OpenUnusable(cfg)
  BY <1>1, <1>3 DEF OpenUnusable, AwaitedOrBack, FileInRecovery
<1>4. CASE OpenUsable(cfg)
  <2>1. CASE mem' = Recovering(cfg)
    BY <1>1, <1>4, <2>1, RecoveringState DEF OpenUsable, AwaitedOrBack, FileInRecovery
  <2>2. CASE mem' = Prune(file.state, cfg)
    <3>1. mem'.pending = file.state.pending \cap cfg.expected /\ file.status = "present"
      BY <1>4, <2>2 DEF Prune, OpenUsable, Usable
    <3> QED
      BY <1>1, <3>1 DEF AwaitedOrBack, FileInRecovery
  <2> QED
    BY <1>4, <2>1, <2>2 DEF OpenUsable
<1> QED
  BY <1>2, <1>3, <1>4 DEF Open

LEMMA UpdateAwaits ==
  ASSUME Inv, AwaitedOrBack, NEW s \in Sources, NEW us \in SUBSET Proxies,
         NEW complete \in BOOLEAN, Update(s, us, complete),
         Remember(IF complete THEN {s} ELSE {})
  PROVE  AwaitedOrBack'
<1>1. /\ file' = file /\ steady' \subseteq steady /\ phase = "ready"
      /\ completed' = completed \cup (IF complete THEN {s} ELSE {})
  BY Remembered DEF Update
<1>2. /\ mem'.pending \subseteq mem.pending
      /\ mem.pending \ mem'.pending \subseteq IF complete THEN {s} ELSE {}
  BY DEF Update, Receive, Inv, TypeOK, State
<1> QED
  BY <1>1, <1>2 DEF AwaitedOrBack, FileInRecovery

LEMMA NextAwaits == Inv /\ AwaitedOrBack /\ [HistoryNext]_historyVars => AwaitedOrBack'
<1> SUFFICES ASSUME Inv, AwaitedOrBack, [HistoryNext]_historyVars PROVE AwaitedOrBack'
  OBVIOUS
<1> USE DEF AwaitedOrBack, FileInRecovery
<1>1. ASSUME NEW s \in Sources, NEW us \in SUBSET Proxies, NEW complete \in BOOLEAN,
             Update(s, us, complete), Remember(IF complete THEN {s} ELSE {})
      PROVE  AwaitedOrBack'
  BY <1>1, UpdateAwaits
<1>2. ASSUME NEW cfg \in Configs, Open(cfg), Remember({}) PROVE AwaitedOrBack'
  BY <1>2, OpenAwaits
<1>3. ASSUME SaveThenPublish \/ SaveInRecovery \/ SaveFails, Remember({}) PROVE AwaitedOrBack'
  <2>1. /\ phase = "save" /\ file' \in {file, Present(mem)}
        /\ phase' # "down" => mem' = mem
        /\ phase' = "down" \/ phase' = "ready" \/ file' = Present(mem)
    BY <1>3 DEF SaveThenPublish, SaveInRecovery, SaveFails, Abort
  <2>2. CASE file' # file /\ steady' = file'.state.pending
    BY <2>1, <2>2
  <2>3. CASE completed' = completed /\ steady' \subseteq steady
    BY <2>1, <2>3
  <2> QED
    BY <1>3, <2>2, <2>3, Remembered
<1>4. ASSUME Quarantine, Remember({}) PROVE AwaitedOrBack'
  BY <1>4, Remembered, RecoveringState DEF Quarantine
<1>5. ASSUME QuarantineFails \/ Kill \/ LoseState, Remember({}) PROVE AwaitedOrBack'
  <2>1. phase' \in {"down", "ready"} /\ (file' = file \/ file'.status # "present")
    BY <1>5, StoreAssumption DEF QuarantineFails, Abort, Kill, LoseState, StoreAssumption
  <2>2. phase' = "down"
    BY <1>5 DEF QuarantineFails, Abort, Kill, LoseState, Inv, PhaseInv
  <2> QED
    BY <1>5, <2>1, <2>2, Remembered
<1>6. ASSUME (\E s \in Sources : IgnoreZero(s)) \/ PublishList \/ PublishNothing \/ PublishFails,
             Remember({})
      PROVE  AwaitedOrBack'
  <2>1. /\ file' = file /\ phase \in {"publish", "ready"}
        /\ phase' = "down" \/ mem' = mem
    BY <1>6 DEF IgnoreZero, PublishList, PublishNothing, PublishFails, Finish, Abort
  <2> QED
    BY <1>6, <2>1, Remembered
<1>7. CASE UNCHANGED historyVars
  BY <1>7 DEF historyVars, vars
<1> QED
  BY <1>1, <1>2, <1>3, <1>4, <1>5, <1>6, <1>7 DEF HistoryNext, Step, Fault

(* A recovery recorded on disk is only declared over when every source it  *)
(* began with, and that every start since has named, came back complete:   *)
(* across partial results, failed saves, kills and changes of the          *)
(* configuration.                                                          *)
THEOREM WaitsForAll == HistorySpec => RecoveryWaitsForAll
<1>1. HistoryInit => Inv /\ AwaitedOrBack
  BY InitInv DEF HistoryInit, AwaitedOrBack, Init, FileInRecovery
<1>2. Inv /\ AwaitedOrBack /\ [HistoryNext]_historyVars => Inv' /\ AwaitedOrBack'
  BY HistoryStep, NextInv, NextAwaits
<1>3. Inv /\ AwaitedOrBack /\ [HistoryNext]_historyVars =>
        [RecoveryEnded => steady \subseteq completed]_historyVars
  <2> SUFFICES ASSUME Inv, AwaitedOrBack, [HistoryNext]_historyVars, RecoveryEnded
               PROVE  steady \subseteq completed
    OBVIOUS
  <2>1. file' # file /\ file'.status = "present"
    BY DEF RecoveryEnded, FileInRecovery
  <2>2. CASE SaveThenPublish \/ SaveInRecovery \/ SaveFails
    <3>1. phase = "save" /\ file' = Present(mem)
      BY <2>1, <2>2 DEF SaveThenPublish, SaveInRecovery, SaveFails
    <3> QED
      BY <3>1 DEF RecoveryEnded, AwaitedOrBack
  <2>3. ASSUME ~SaveThenPublish, ~SaveInRecovery, ~SaveFails PROVE FALSE
    <3>1. ~LoseState /\ ~Quarantine
      BY <2>1, StoreAssumption DEF LoseState, Quarantine, StoreAssumption
    <3>2. [Next]_vars
      BY HistoryStep
    <3> QED
      BY <2>1, <2>3, <3>1, <3>2 DEF Next, Call, Step, Fault, vars, Open, OpenMissing,
         OpenUnusable, OpenUsable, IgnoreZero, Update, PublishList, PublishNothing,
         QuarantineFails, PublishFails, Kill
  <2> QED
    BY <2>2, <2>3
<1> QED
  BY <1>1, <1>2, <1>3, PTL DEF HistorySpec, RecoveryWaitsForAll

-----------------------------------------------------------------------------
(* The running process uses the store one call at a time: for any number   *)
(* of collectors and sources its behaviours are behaviours of ProxyStore,  *)
(* whose theorems therefore hold of it.                                    *)

Busy == {"quarantine", "save", "publish"}

LEMMA SourceType ==
  ASSUME NEW c \in Collectors, NEW i \in 1 .. Len(Keys[c])
  PROVE  Keys[c] \in Seq(Sources) /\ Keys[c][i] \in Sources
  BY ServiceAssumption DEF ServiceAssumption

(* Every step of the process is a step of the store or leaves it alone.    *)
LEMMA ServiceStep ==
  ASSUME ServiceTypeOK, [ServiceNext]_serviceVars
  PROVE  [Next]_vars
<1>1. CASE Start
  BY <1>1 DEF Start, Next, Call
<1>2. CASE Exit \/ Crash \/ Damage
  BY <1>2 DEF Exit, Crash, Damage, Next, Fault
<1>3. CASE InStore \/ OpenFails
  BY <1>3 DEF InStore, OpenFails, WriteFails, Next, Fault
<1>4. CASE Serve \/ Signal \/ StopWeb
  BY <1>4 DEF Serve, Signal, StopWeb
<1>5. ASSUME NEW c \in Collectors, Loop(c) PROVE [Next]_vars
  <2>1. CASE Lock(c)
    <3>1. Keys[c][result[c]] \in Sources /\ round[c][result[c]] \in Result
      <4>1. /\ result[c] \in 1 .. Len(Keys[c])
            /\ round[c] \in Seq(Result) /\ Len(round[c]) = Len(Keys[c])
        BY <2>1 DEF Lock, Pending, ServiceTypeOK
      <4> QED
        BY <4>1, SourceType
    <3>2. round[c][result[c]].urls \in SUBSET Proxies /\ round[c][result[c]].complete \in BOOLEAN
      BY <3>1 DEF Result
    <3> QED
      BY <2>1, <3>1, <3>2 DEF Lock, Next, Call
  <2>2. CASE Collect(c) \/ UseRound(c) \/ EndRound(c) \/ Wake(c)
    BY <2>2 DEF Collect, UseRound, EndRound, Wake
  <2> QED
    BY <1>5, <2>1, <2>2 DEF Loop
<1>6. CASE UNCHANGED serviceVars
  BY <1>6 DEF serviceVars, vars
<1> QED
  BY <1>1, <1>2, <1>3, <1>4, <1>5, <1>6 DEF ServiceNext

LEMMA InitService == ServiceInit => Inv /\ ServiceInv
<1> SUFFICES ASSUME ServiceInit PROVE Inv /\ ServiceInv
  OBVIOUS
<1>1. Inv
  BY InitInv DEF ServiceInit
<1>2. \A c \in Collectors : 1 \in 1 .. Len(Keys[c]) + 1
  BY ServiceAssumption DEF ServiceAssumption
<1>3. ServiceTypeOK
  <2>1. \A c \in Collectors : <<>> \in Seq(Result) /\ Len(<<>>) = 0
    OBVIOUS
  <2> QED
    BY <1>2, <2>1 DEF ServiceInit, ServiceTypeOK, AllLoops
<1> QED
  BY <1>1, <1>3 DEF ServiceInit, Init, ServiceInv, ProcessInv, HandedOver, CallOwned,
     CutRoundNotStored, OrderlyStop, AllLoops

(* HandedOver is a matter of the rounds and of the memory alone.           *)
LEMMA HandedOverKept ==
  ASSUME HandedOver, UNCHANGED <<mem, loop, round, result, holder>>
  PROVE  HandedOver'
  BY DEF HandedOver, Has

(* Who holds the store is at a result. *)
LEMMA HolderPending ==
  ASSUME Inv, ProcessInv
  PROVE  \A c \in holder : c \in Collectors /\ Pending(c)
<1>1. phase \in Busy \cup {"down", "ready"}
  BY DEF Inv, TypeOK, Busy
<1> QED
  BY <1>1 DEF ProcessInv, CallOwned, Busy

(* Update puts a result under its own name and touches no other.           *)
LEMMA UpdateHas ==
  ASSUME Inv, NEW s \in Sources, NEW r \in Result,
         mem' = Receive(mem, s, r.urls, r.complete),
         mem.pending # {} \/ r.urls # {}
  PROVE  /\ r.urls # {} => mem'.urls[s] = r.urls
         /\ r.complete => s \notin mem'.pending
         /\ \A t \in Sources \ {s} : mem'.urls[t] = mem.urls[t]
         /\ mem'.pending \subseteq mem.pending
<1>1. mem.urls \in [Sources -> SUBSET Proxies]
  BY DEF Inv, TypeOK, State
<1>2. CASE Accepts(mem, r.urls, r.complete)
  <2>1. /\ mem'.urls = [mem.urls EXCEPT ![s] = r.urls]
        /\ mem'.pending = IF r.complete THEN mem.pending \ {s} ELSE mem.pending
    BY <1>2 DEF Receive
  <2> QED
    BY <1>1, <2>1
<1>3. CASE ~Accepts(mem, r.urls, r.complete)
  BY <1>3 DEF Receive, Accepts
<1> QED
  BY <1>2, <1>3

(* What a call of the store does to its phase. *)
LEMMA OpenPhase ==
  ASSUME Inv, NEW cfg, Open(cfg)
  PROVE  /\ phase = "down"
         /\ phase' \in Busy => booting'
         /\ phase' \in Busy \cup {"ready", "down"}
  BY DEF Inv, PhaseInv, Busy, Open, OpenMissing, OpenUnusable, OpenUsable

LEMMA CallPhase ==
  ASSUME Inv, Step \/ WriteFails
  PROVE  /\ phase \in Busy
         /\ phase' \in Busy \cup {"ready", "down"}
         /\ phase' \in Busy => booting' = booting
         /\ phase' = "down" => booting
  BY DEF Inv, PhaseInv, Busy, Step, WriteFails, Quarantine, SaveThenPublish, SaveInRecovery,
     PublishList, PublishNothing, QuarantineFails, SaveFails, PublishFails, Abort, Finish

(* A process that is gone has nothing in the store. *)
LEMMA GoneInv ==
  ASSUME Gone, phase' = "down"
  PROVE  ProcessInv'
<1>1. \A c \in Collectors : 1 \in 1 .. Len(Keys[c]) + 1
  BY ServiceAssumption DEF ServiceAssumption
<1>2. <<>> \in Seq(Result) /\ Len(<<>>) = 0
  OBVIOUS
<1>3. ServiceTypeOK'
  <2>1. /\ main' = "down" /\ cancelled' = FALSE /\ holder' = {}
        /\ loop' = [c \in Collectors |-> "off"] /\ round' = [c \in Collectors |-> <<>>]
        /\ result' = [c \in Collectors |-> 1] /\ cut' = [c \in Collectors |-> FALSE]
    BY DEF Gone, AllLoops
  <2>2. round' \in [Collectors -> Seq(Result)] /\ \A c \in Collectors : Len(round'[c]) = 0
    BY <1>2, <2>1
  <2> QED
    BY <1>1, <2>1, <2>2 DEF ServiceTypeOK
<1> QED
  BY <1>3 DEF Gone, ProcessInv, CallOwned, CutRoundNotStored, OrderlyStop, AllLoops

LEMMA StoreInv ==
  ASSUME Inv, ProcessInv, InStore
  PROVE  ProcessInv'
<1>1. /\ phase \in Busy
      /\ phase' \in Busy \cup {"ready"}
      /\ phase' \in Busy => booting' = booting
  BY CallPhase DEF InStore
<1>2. main # "down" /\ main # "closing" /\ UNCHANGED <<main, cancelled, loop, round, cut>>
  BY <1>1 DEF ProcessInv, OrderlyStop, InStore, Busy
<1>3. CASE phase' \in Busy
  <2>1. UNCHANGED <<holder, result>>
    BY <1>3 DEF InStore, Unlock, Busy
  <2> QED
    BY <1>1, <1>2, <1>3, <2>1 DEF ProcessInv, ServiceTypeOK, CallOwned, CutRoundNotStored,
       OrderlyStop, Pending, Busy
<1>4. CASE phase' = "ready"
  <2>1. /\ holder' = {}
        /\ result' = [c \in Collectors |-> IF c \in holder THEN result[c] + 1 ELSE result[c]]
    BY <1>4 DEF InStore, Unlock
  <2>2. \A c \in Collectors : result'[c] \in 1 .. Len(Keys[c]) + 1
    <3> SUFFICES ASSUME NEW c \in Collectors
                 PROVE  result'[c] \in 1 .. Len(Keys[c]) + 1
      OBVIOUS
    <3>1. Len(Keys[c]) \in Nat /\ result[c] \in 1 .. Len(Keys[c]) + 1
      BY ServiceAssumption DEF ServiceAssumption, ProcessInv, ServiceTypeOK
    <3>2. c \in holder => result[c] <= Len(Keys[c])
      BY <1>1 DEF ProcessInv, CallOwned, Pending, Busy
    <3> QED
      BY <2>1, <3>1, <3>2
  <2>3. ServiceTypeOK'
    BY <1>2, <2>1, <2>2 DEF ProcessInv, ServiceTypeOK
  <2> QED
    BY <1>2, <1>4, <2>1, <2>3 DEF ProcessInv, CallOwned, CutRoundNotStored, OrderlyStop
<1> QED
  BY <1>1, <1>3, <1>4

(* The round changes as a whole: all results at once, or none. *)
LEMMA RoundType ==
  ASSUME ServiceTypeOK, NEW c \in Collectors,
         Collect(c) \/ UseRound(c) \/ EndRound(c) \/ Wake(c)
  PROVE  /\ round' \in [Collectors -> Seq(Result)]
         /\ \A d \in Collectors : Len(round'[d]) = IF loop'[d] = "store" THEN Len(Keys[d]) ELSE 0
<1>0. /\ round \in [Collectors -> Seq(Result)]
      /\ \A d \in Collectors : Len(round[d]) = IF loop[d] = "store" THEN Len(Keys[d]) ELSE 0
      /\ loop \in [Collectors -> {"off", "collect", "collected", "store", "sleep", "done"}]
  BY DEF ServiceTypeOK
<1>1. CASE UNCHANGED round /\ loop[c] # "store" /\ loop'[c] # "store"
  BY <1>0, <1>1 DEF Collect, UseRound, EndRound, Wake
<1>2. CASE UseRound(c) /\ ~cancelled
  <2>1. PICK results \in [DOMAIN Keys[c] -> Result] : round' = [round EXCEPT ![c] = results]
    BY <1>2 DEF UseRound
  <2>2. Keys[c] \in Seq(Sources)
    BY ServiceAssumption DEF ServiceAssumption
  <2>3. results \in Seq(Result) /\ Len(results) = Len(Keys[c])
    BY <2>1, <2>2
  <2>4. loop' = [loop EXCEPT ![c] = "store"]
    BY <1>2 DEF UseRound
  <2> QED
    BY <1>0, <2>1, <2>3, <2>4
<1>3. CASE EndRound(c)
  <2>1. <<>> \in Seq(Result) /\ Len(<<>>) = 0
    OBVIOUS
  <2>2. round' = [round EXCEPT ![c] = <<>>] /\ loop'[c] # "store"
        /\ \A d \in Collectors \ {c} : loop'[d] = loop[d]
    BY <1>0, <1>3 DEF EndRound
  <2> QED
    BY <1>0, <2>1, <2>2
<1> QED
  BY <1>0, <1>1, <1>2, <1>3 DEF Collect, UseRound, Wake

LEMMA LoopInv ==
  ASSUME Inv, ProcessInv, NEW c \in Collectors, Loop(c)
  PROVE  ProcessInv'
<1>0. /\ c \in Collectors /\ loop[c] # "off" /\ loop[c] # "done"
      /\ main = "serving"
      /\ Len(Keys[c]) \in Nat
  BY ServiceAssumption DEF Loop, Collect, UseRound, Lock, EndRound, Wake, Pending,
     ServiceAssumption, ProcessInv, ServiceTypeOK, OrderlyStop, AllLoops
<1>1. CASE Lock(c)
  <2>1. phase = "ready" /\ ~booting /\ holder = {} /\ Pending(c)
    BY <1>1 DEF Lock, IgnoreZero, Update, Inv, PhaseInv, ProcessInv, CallOwned
  <2>2. CASE result' = [result EXCEPT ![c] = @ + 1] /\ UNCHANGED <<holder, phase>>
    <3>1. \A d \in Collectors : result'[d] \in 1 .. Len(Keys[d]) + 1
      BY <2>1, <2>2, <1>0 DEF Pending, ProcessInv, ServiceTypeOK
    <3>2. ServiceTypeOK'
      BY <1>1, <2>2, <3>1 DEF Lock, ProcessInv, ServiceTypeOK
    <3> QED
      BY <1>1, <2>1, <2>2, <3>2 DEF Lock, ProcessInv, CallOwned, CutRoundNotStored, OrderlyStop
  <2>3. CASE /\ phase' = "save" /\ UNCHANGED booting
             /\ holder' = {c} /\ UNCHANGED result
    BY <1>0, <1>1, <2>1, <2>3 DEF Lock, ProcessInv, ServiceTypeOK, CallOwned,
       CutRoundNotStored, OrderlyStop, Pending
  <2> QED
    BY <1>1, <2>2, <2>3 DEF Lock, IgnoreZero, Update
<1>2. CASE Collect(c) \/ UseRound(c) \/ EndRound(c) \/ Wake(c)
  <2>1. /\ UNCHANGED <<phase, booting, main, cancelled, holder>>
        /\ ~Pending(c)
    BY <1>2 DEF Collect, UseRound, EndRound, Wake, Pending, vars, ProcessInv, ServiceTypeOK
  <2>2. /\ \A d \in Collectors \ {c} : /\ loop'[d] = loop[d] /\ cut'[d] = cut[d]
                                      /\ result'[d] = result[d]
        /\ cut'[c] \in BOOLEAN
        /\ result'[c] \in {1, result[c]}
        /\ loop'[c] \in {"collect", "collected", "store", "sleep", "done"}
        /\ loop'[c] = "store" => ~cut'[c]
        /\ loop'[c] = "collected" /\ cut'[c] => cancelled
    BY <1>2 DEF Collect, UseRound, EndRound, Wake, ProcessInv, ServiceTypeOK
  <2>3. ServiceTypeOK'
    <3>1. \A d \in Collectors : result'[d] \in 1 .. Len(Keys[d]) + 1
      <4> SUFFICES ASSUME NEW d \in Collectors PROVE result'[d] \in 1 .. Len(Keys[d]) + 1
        OBVIOUS
      <4>1. result[d] \in 1 .. Len(Keys[d]) + 1 /\ Len(Keys[d]) \in Nat
        BY ServiceAssumption DEF ServiceAssumption, ProcessInv, ServiceTypeOK
      <4> QED
        BY <2>2, <4>1
    <3>2. result' \in [Collectors -> Nat] /\ cut' \in [Collectors -> BOOLEAN]
      <4>1. /\ result' \in {result, [result EXCEPT ![c] = 1]}
            /\ cut' \in {cut, [cut EXCEPT ![c] = cancelled]}
        BY <1>2 DEF Collect, UseRound, EndRound, Wake
      <4>2. /\ result \in [Collectors -> Nat] /\ cut \in [Collectors -> BOOLEAN]
            /\ cancelled \in BOOLEAN
        BY DEF ProcessInv, ServiceTypeOK
      <4> QED
        BY <4>1, <4>2
    <3>4. /\ round' \in [Collectors -> Seq(Result)]
          /\ \A d \in Collectors : Len(round'[d]) = IF loop'[d] = "store" THEN Len(Keys[d]) ELSE 0
      BY <1>2, RoundType DEF ProcessInv
    <3>3. loop' \in [Collectors -> {"off", "collect", "collected", "store", "sleep", "done"}]
      BY <1>2 DEF Collect, UseRound, EndRound, Wake, ProcessInv, ServiceTypeOK
    <3> QED
      BY <2>1, <3>1, <3>2, <3>3, <3>4 DEF ProcessInv, ServiceTypeOK
  <2>4. CallOwned'
    BY <1>0, <2>1, <2>2 DEF ProcessInv, CallOwned, Pending
  <2> QED
    BY <1>0, <2>1, <2>2, <2>3, <2>4 DEF ProcessInv, CutRoundNotStored, OrderlyStop
<1> QED
  BY <1>1, <1>2 DEF Loop

LEMMA NextProcess ==
  Inv /\ ProcessInv /\ [ServiceNext]_serviceVars => Inv' /\ ProcessInv'
<1> SUFFICES ASSUME Inv, ProcessInv, [ServiceNext]_serviceVars PROVE Inv' /\ ProcessInv'
  OBVIOUS
<1>0. Inv'
  BY ServiceStep, NextInv DEF ProcessInv
<1>1. CASE Start
  <2>1. PICK cfg \in Configs : Open(cfg)
    BY <1>1 DEF Start
  <2> QED
    BY <1>0, <1>1, <2>1, OpenPhase DEF Start, ProcessInv, ServiceTypeOK, CallOwned,
       CutRoundNotStored, OrderlyStop, AllLoops, Busy
<1>2. CASE Serve
  BY <1>0, <1>2 DEF Serve, vars, ProcessInv, ServiceTypeOK, CallOwned, CutRoundNotStored,
     OrderlyStop, AllLoops
<1>3. CASE Signal
  BY <1>0, <1>3 DEF Signal, vars, ProcessInv, ServiceTypeOK, CallOwned, CutRoundNotStored,
     OrderlyStop, AllLoops, Pending
<1>4. CASE StopWeb
  <2>1. phase = "ready"
    BY <1>4, <1>0 DEF StopWeb, Inv, TypeOK, ProcessInv, CallOwned, Pending
  <2> QED
    BY <1>4, <1>0, <2>1 DEF StopWeb, vars, ProcessInv, ServiceTypeOK, CallOwned,
       CutRoundNotStored, OrderlyStop
<1>5. CASE Exit \/ Crash \/ OpenFails
  BY <1>5, <1>0, GoneInv DEF Exit, Crash, OpenFails, Kill
<1>6. CASE Damage
  BY <1>6, <1>0 DEF Damage, LoseState, procVars, ProcessInv, ServiceTypeOK, CallOwned,
     CutRoundNotStored, OrderlyStop, Pending
<1>7. CASE InStore
  BY <1>7, <1>0, StoreInv
<1>8. ASSUME NEW c \in Collectors, Loop(c) PROVE Inv' /\ ProcessInv'
  BY <1>8, <1>0, LoopInv
<1>9. CASE UNCHANGED serviceVars
  BY <1>9, <1>0 DEF serviceVars, procVars, vars, ProcessInv, ServiceTypeOK, CallOwned,
     CutRoundNotStored, OrderlyStop, Pending
<1> QED
  BY <1>0, <1>1, <1>2, <1>3, <1>4, <1>5, <1>6, <1>7, <1>8, <1>9 DEF ServiceNext


-----------------------------------------------------------------------------
(* What has been handed over *)

(* The result a loop is at, and its name. *)
LEMMA ResultType ==
  ASSUME ServiceInv, NEW c \in Collectors, loop[c] = "store", NEW i \in DOMAIN Keys[c]
  PROVE  /\ Keys[c][i] \in Sources /\ i \in Nat
         /\ round[c][i] \in Result
         /\ result[c] \in Nat
<1>1. /\ Keys[c] \in Seq(Sources) /\ round[c] \in Seq(Result) /\ result[c] \in Nat
      /\ Len(round[c]) = Len(Keys[c])
  BY ServiceAssumption DEF ServiceAssumption, ServiceInv, ProcessInv, ServiceTypeOK
<1> QED
  BY <1>1

LEMMA LockHandsOver ==
  ASSUME Inv, ServiceInv, NEW c \in Collectors, Lock(c)
  PROVE  HandedOver'
<1> DEFINE k == result[c]
           s == Keys[c][k]
           r == round[c][k]
<1>1. loop[c] = "store" /\ k \in DOMAIN Keys[c]
  <2>1. k \in 1 .. Len(Keys[c]) + 1 /\ Keys[c] \in Seq(Sources)
    BY ServiceAssumption DEF ServiceAssumption, ServiceInv, ProcessInv, ServiceTypeOK
  <2> QED
    BY <2>1 DEF Lock, Pending
<1>2. s \in Sources /\ r \in Result /\ k \in Nat
  BY <1>1, ResultType
<1>3. UNCHANGED <<loop, round>> /\ holder = {}
  BY DEF Lock, IgnoreZero, Update, ServiceInv, ProcessInv, CallOwned
<1>4. SUFFICES ASSUME NEW d \in Collectors, loop[d] = "store", NEW i \in DOMAIN Keys[d],
                      i < result'[d] \/ (i = result'[d] /\ d \in holder')
               PROVE  Has(d, i)'
  BY <1>3 DEF HandedOver, ServiceInv
<1>5. /\ Keys[d][i] \in Sources /\ round[d][i] \in Result /\ i \in Nat /\ result[d] \in Nat
      /\ i < result[d] => Has(d, i)
  BY <1>4, ResultType DEF ServiceInv, HandedOver
<1>6. result \in [Collectors -> Nat]
  BY DEF ServiceInv, ProcessInv, ServiceTypeOK
<1>7. CASE r.urls = {} /\ IgnoreZero(s) /\ result' = [result EXCEPT ![c] = @ + 1] /\ holder' = holder
  <2>1. mem' = mem /\ mem.pending = {}
    BY <1>7 DEF IgnoreZero
  <2>2. CASE i < result[d]
    BY <1>3, <1>5, <2>1, <2>2 DEF Has
  <2>3. CASE ~(i < result[d])
    <3>1. d = c /\ i = k
      BY <1>2, <1>3, <1>4, <1>5, <1>6, <1>7, <2>3
    <3> QED
      BY <1>3, <1>7, <2>1, <3>1 DEF Has
  <2> QED
    BY <2>2, <2>3
<1>8. CASE Update(s, r.urls, r.complete) /\ holder' = {c} /\ UNCHANGED result
  <2>1. mem' = Receive(mem, s, r.urls, r.complete) /\ (mem.pending # {} \/ r.urls # {})
    BY <1>8 DEF Update
  <2>2. /\ r.urls # {} => mem'.urls[s] = r.urls
        /\ r.complete => s \notin mem'.pending
        /\ \A t \in Sources \ {s} : mem'.urls[t] = mem.urls[t]
        /\ mem'.pending \subseteq mem.pending
    BY <1>2, <2>1, UpdateHas
  <2>3. CASE d = c /\ i = k
    BY <1>3, <2>2, <2>3 DEF Has
  <2>4. CASE ~(d = c /\ i = k)
    <3>1. i < result[d]
      BY <1>4, <1>8, <2>4
    <3>2. Keys[d][i] # s
      BY <1>1, <2>4, ServiceAssumption DEF ServiceAssumption
    <3> QED
      BY <1>3, <1>5, <2>2, <3>1, <3>2 DEF Has
  <2> QED
    BY <2>3, <2>4
<1> QED
  BY <1>3, <1>7, <1>8 DEF Lock

(* A write of the store leaves the memory of a serving process alone.      *)
LEMMA StoreHandsOver ==
  ASSUME Inv, ServiceInv, InStore
  PROVE  HandedOver'
<1>1. phase \in Busy /\ UNCHANGED <<loop, round>> /\ Unlock /\ phase' # "down"
  BY CallPhase DEF InStore
<1>2. CASE loop = AllLoops("off")
  BY <1>1, <1>2 DEF AllLoops, HandedOver
<1>3. CASE loop # AllLoops("off")
  <2>1. ~booting
    BY <1>1, <1>3 DEF ServiceInv, ProcessInv, CallOwned, Busy
  <2>2. mem' = mem
    BY <1>1, <2>1 DEF InStore, Step, WriteFails, Inv, PhaseInv, Quarantine, SaveThenPublish,
       SaveInRecovery, PublishList, PublishNothing, QuarantineFails, SaveFails, PublishFails,
       Abort
  <2>3. \A d \in Collectors : \A i \in Nat :
          i < result'[d] \/ (i = result'[d] /\ d \in holder') =>
            i < result[d] \/ (i = result[d] /\ d \in holder)
    BY <1>1 DEF Unlock, ServiceInv, ProcessInv, ServiceTypeOK
  <2>4. \A d \in Collectors : \A i \in DOMAIN Keys[d] : i \in Nat
    BY ServiceAssumption DEF ServiceAssumption
  <2> QED
    BY <1>1, <2>2, <2>3, <2>4 DEF ServiceInv, HandedOver, Has
<1> QED
  BY <1>2, <1>3

LEMMA LoopHandsOver ==
  ASSUME Inv, ServiceInv, NEW c \in Collectors, Loop(c)
  PROVE  HandedOver'
<1>1. CASE Lock(c)
  BY <1>1, LockHandsOver
<1>2. CASE UseRound(c)
  <2>1. c \notin holder
    BY <1>2, HolderPending DEF UseRound, Pending, ServiceInv
  <2>2. /\ mem' = mem /\ holder' = holder
        /\ result' = [result EXCEPT ![c] = 1]
        /\ \A d \in Collectors \ {c} : loop'[d] = loop[d] /\ round'[d] = round[d]
    BY <1>2 DEF UseRound, vars, ServiceInv, ProcessInv, ServiceTypeOK
  <2>3. /\ Keys[c] \in Seq(Sources) /\ result'[c] = 1
        /\ \A d \in Collectors \ {c} : result'[d] = result[d]
    BY <2>2, ServiceAssumption DEF ServiceAssumption, ServiceInv, ProcessInv, ServiceTypeOK
  <2>5. \A i \in DOMAIN Keys[c] : ~(i < result'[c])
    BY <2>3
  <2> QED
    BY <2>1, <2>2, <2>3, <2>5 DEF ServiceInv, HandedOver, Has
<1>3. CASE Collect(c) \/ EndRound(c) \/ Wake(c)
  <2>1. /\ mem' = mem /\ holder' = holder /\ result' = result /\ loop'[c] # "store"
        /\ \A d \in Collectors \ {c} : loop'[d] = loop[d] /\ round'[d] = round[d]
    BY <1>3 DEF Collect, EndRound, Wake, vars, ServiceInv, ProcessInv, ServiceTypeOK
  <2> QED
    BY <2>1 DEF ServiceInv, HandedOver, Has
<1> QED
  BY <1>1, <1>2, <1>3 DEF Loop

LEMMA NextHandedOver ==
  ASSUME Inv, ServiceInv, [ServiceNext]_serviceVars
  PROVE  HandedOver'
<1>1. CASE Start \/ Serve
  BY <1>1 DEF Start, Serve, AllLoops, HandedOver, ServiceInv, ProcessInv
<1>2. CASE Signal \/ StopWeb \/ Damage \/ UNCHANGED serviceVars
  BY <1>2, HandedOverKept DEF Signal, StopWeb, Damage, LoseState, serviceVars, procVars, vars,
     ServiceInv
<1>3. CASE Exit \/ Crash \/ OpenFails
  BY <1>3 DEF Exit, Crash, OpenFails, Gone, AllLoops, HandedOver
<1>4. CASE InStore
  BY <1>4, StoreHandsOver
<1>5. ASSUME NEW c \in Collectors, Loop(c) PROVE HandedOver'
  BY <1>5, LoopHandsOver
<1> QED
  BY <1>1, <1>2, <1>3, <1>4, <1>5 DEF ServiceNext

LEMMA NextService ==
  Inv /\ ServiceInv /\ [ServiceNext]_serviceVars => Inv' /\ ServiceInv'
  BY NextProcess, NextHandedOver DEF ServiceInv

(* A loop leaves a round only at its end. *)
LEMMA EndOfRound ==
  ASSUME Inv, ServiceInv, [ServiceNext]_serviceVars,
         NEW c \in Collectors, loop[c] = "store", loop'[c] \in {"sleep", "done"},
         NEW i \in DOMAIN Keys[c]
  PROVE  Has(c, i)
<1>1. EndRound(c)
  <2>1. CASE \E d \in Collectors : Loop(d)
    <3>1. PICK d \in Collectors : Loop(d)
      BY <2>1
    <3>2. d = c
      BY <3>1 DEF Loop, Collect, UseRound, Lock, EndRound, Wake, ServiceInv, ProcessInv, ServiceTypeOK
    <3> QED
      BY <3>1, <3>2 DEF Loop, Collect, UseRound, Lock, EndRound, Wake
  <2>2. CASE ~\E d \in Collectors : Loop(d)
    BY <2>2 DEF ServiceNext, Start, Serve, Signal, StopWeb, Exit, Crash, Damage, InStore,
       OpenFails, Gone, AllLoops, procVars, serviceVars
  <2> QED
    BY <2>1, <2>2
<1>2. i \in Nat /\ Keys[c] \in Seq(Sources) /\ result[c] \in Nat
  BY ResultType, ServiceAssumption DEF ServiceAssumption
<1>3. i < result[c]
  BY <1>1, <1>2 DEF EndRound
<1> QED
  BY <1>3 DEF ServiceInv, HandedOver

-----------------------------------------------------------------------------
(* Every reachable state of the process is well typed: a loop is never past*)
(* the end of its round, whichever call returns to whom.                   *)
THEOREM ServiceTypeCorrect == ServiceSpec => []ServiceTypeOK
  BY InitService, NextService, PTL DEF ServiceSpec, ServiceInv, ProcessInv

(* When a loop is through with a round the store has all its results,      *)
(* under their own names, however many loops there are, whichever writes   *)
(* failed and whatever was handed over in between.                         *)
THEOREM RoundsAreStored == ServiceSpec => RoundStored
<1>1. Inv /\ ServiceInv /\ [ServiceNext]_serviceVars =>
        \A c \in Collectors : loop[c] = "store" /\ loop'[c] \in {"sleep", "done"} =>
          \A i \in DOMAIN Keys[c] : Has(c, i)
  BY EndOfRound
<1> QED
  BY <1>1, InitService, NextService, PTL DEF ServiceSpec, RoundStored

(* No round that the cancellation cut short reaches the store.             *)
THEOREM CutRoundsAreDropped == ServiceSpec => []CutRoundNotStored
  BY InitService, NextService, PTL DEF ServiceSpec, ServiceInv, ProcessInv

(* When the web server closes no loop is at work and no call under way.    *)
THEOREM StopIsOrderly == ServiceSpec => []OrderlyStop
  BY InitService, NextService, PTL DEF ServiceSpec, ServiceInv, ProcessInv

(* The process drives the store only as ProxyStore allows.                 *)
THEOREM ServiceUsesStore == ServiceSpec => Spec
<1>1. ServiceInit => Init
  BY DEF ServiceInit
<1>2. Inv /\ ServiceInv /\ [ServiceNext]_serviceVars => [Next]_vars
  BY ServiceStep DEF ServiceInv, ProcessInv
<1> QED
  BY <1>1, <1>2, InitService, NextService, PTL DEF ServiceSpec, Spec

-----------------------------------------------------------------------------
(* The configuration the store is opened with; StoreLimit is MaxProxies.   *)

(* The sum over the lists is a number: FoldLeft's table has one for each   *)
(* set of positions.                                                       *)
LEMMA BudgetType ==
  ASSUME NEW c, NEW S, c.sources \in Seq(S), \A i \in DOMAIN c.sources : c.sources[i].max \in Nat
  PROVE  Budget(c) \in Nat
<1> DEFINE seq == c.sources
           n == Len(seq)
           add(m, s) == m + s.max
           step == [p \in (1 .. n) \X Nat |-> add(p[2], seq[p[1]])]
           table == CHOOSE g : g = [s \in SUBSET (1 .. n) |->
                      IF s = {} THEN 0 ELSE add(g[s \ {Max(s)}], seq[Max(s)])]
<1>1. n \in Nat /\ DOMAIN seq = 1 .. n /\ 0 \in Nat /\ step \in Steps(n, Nat)
  BY DEF Steps
<1>2. \A i \in 1 .. n, m \in Nat : step[<<i, m>>] = add(m, seq[i])
  OBVIOUS
<1>3. Budget(c) = table[1 .. n]
  BY <1>1 DEF Budget, FoldLeft, MapThenFoldSet
<1> HIDE DEF step, table, add, n, seq
<1>4. PICK g \in [SUBSET (1 .. n) -> Nat] : IsTable(g, n, Nat, 0, step)
  BY <1>1, FoldTable
<1>5. \A s \in SUBSET (1 .. n) : s # {} => Max(s) \in 1 .. n /\ s \ {Max(s)} \in SUBSET (1 .. n)
  BY <1>1, LargestExists
<1>6. g = [s \in SUBSET (1 .. n) |-> IF s = {} THEN 0 ELSE add(g[s \ {Max(s)}], seq[Max(s)])]
  BY <1>2, <1>4, <1>5 DEF IsTable
<1>7. table = [s \in SUBSET (1 .. n) |-> IF s = {} THEN 0 ELSE add(table[s \ {Max(s)}], seq[Max(s)])]
  BY <1>6 DEF table
<1>8. IsTable(table, n, Nat, 0, step)
  BY <1>2, <1>5, <1>7 DEF IsTable
<1>9. PICK t \in [0 .. n -> Nat] : t[n] = table[1 .. n]
  <2> DEFINE A == Nat
             zero == 0
  <2>1. zero \in A /\ step \in Steps(n, A) /\ IsTable(table, n, A, zero, step)
    BY <1>1, <1>8
  <2> HIDE DEF A, zero
  <2>2. PICK t \in [0 .. n -> A] : IsTrace(t, n, zero, step) /\ t[n] = table[1 .. n]
    BY <1>1, <2>1, TableTrace
  <2> QED
    BY <2>2 DEF A
<1> QED
  BY <1>1, <1>3, <1>9

(* The defaults leave a list of source options a list.                     *)
LEMMA SourceDefaultsType ==
  ASSUME NEW source \in FPLSource, NEW bytes \in Int
  PROVE  FPLSourceDefaults(source, bytes) \in FPLSource
<1> DEFINE size == Or(source.bytes, bytes)
           max == Or(source.max, DefaultFPLSourceCandidates)
<1>1. size \in Int /\ max \in Int
  BY DEF FPLSource, Or, DefaultFPLSourceCandidates
<1>2. FPLSourceDefaults(source, bytes) = [source EXCEPT !.bytes = size, !.max = max]
  BY DEF FPLSourceDefaults
<1> HIDE DEF size, max
<1>3. \A s \in FPLSource : /\ [s EXCEPT !.max = max] \in FPLSource
                            /\ [s EXCEPT !.bytes = size] \in FPLSource
  BY <1>1 DEF FPLSource
<1>4. [source EXCEPT !.bytes = size, !.max = max] = [[source EXCEPT !.bytes = size] EXCEPT !.max = max]
  BY DEF FPLSource
<1> QED
  BY <1>2, <1>3, <1>4

LEMMA DefaultsWellFormed ==
  ASSUME NEW c, WellFormed(c)
  PROVE  WellFormed(ApplyDefaults(c))
<1> DEFINE sources == IF c.fpl.sources = <<>> THEN DefaultFPLSources ELSE c.fpl.sources
           bytes == Or(c.fpl.bytes, DefaultFPLMaxResponse)
           filled == [i \in DOMAIN sources |-> FPLSourceDefaults(sources[i], bytes)]
<1>1. DefaultFPLSources \in Seq(FPLSource)
  BY DEF DefaultFPLSources, FPLSource
<1>2. sources \in Seq(FPLSource)
  BY <1>1 DEF WellFormed
<1>3. bytes \in Int
  BY DEF WellFormed, Or, DefaultFPLMaxResponse
<1>4. /\ ApplyDefaults(c).present = c.present
      /\ ApplyDefaults(c).fpl.bytes = bytes
      /\ ApplyDefaults(c).fpl.sources = filled
  <2>1. /\ ApplyDefaults(c).present = c.present
        /\ ApplyDefaults(c).fpl = FPLDefaults(c.fpl)
    BY DEF ApplyDefaults
  <2>2. FPLDefaults(c.fpl).bytes = bytes /\ FPLDefaults(c.fpl).sources = filled
    BY DEF FPLDefaults
  <2> HIDE DEF filled, bytes
  <2> QED
    BY <2>1, <2>2
<1> HIDE DEF sources, bytes
<1>5. filled \in Seq(FPLSource)
  <2>1. DOMAIN sources = 1 .. Len(sources) /\ Len(sources) \in Nat
    BY <1>2
  <2>2. \A i \in 1 .. Len(sources) : FPLSourceDefaults(sources[i], bytes) \in FPLSource
    BY <1>2, <1>3, SourceDefaultsType
  <2> QED
    BY <2>1, <2>2
<1> HIDE DEF filled
<1> QED
  BY <1>3, <1>4, <1>5 DEF WellFormed

(* The limits of the checks are below the store's.                         *)
Limits == {DefaultFOFATotalCandidates, MaxFOFASize, MaxFreeProxyDBCandidates, MaxRolaIPCandidates}

LEMMA Within ==
  /\ StoreLimit \in Nat /\ MaxFPLTotalCandidates \in Nat
  /\ 2 * MaxFPLTotalCandidates <= StoreLimit
  /\ \A n \in Limits : 1 .. n \subseteq 1 .. StoreLimit
<1>1. /\ StoreLimit \in Nat /\ MaxFPLTotalCandidates \in Nat
      /\ 2 * MaxFPLTotalCandidates <= StoreLimit
      /\ \A n \in Limits : n \in Nat /\ n <= StoreLimit
  BY ConfigAssumption DEF MaxFPLTotalCandidates, Limits, DefaultFOFATotalCandidates, MaxFOFASize,
                          MaxFreeProxyDBCandidates, MaxRolaIPCandidates
<1> QED
  BY <1>1

(* What the FPL lists may hold, alone and together.                        *)
LEMMA FPLFits ==
  ASSUME NEW c, WellFormed(c), CheckFPL(c.fpl)
  PROVE  /\ \A i \in DOMAIN c.fpl.sources : c.fpl.sources[i].max \in 1 .. StoreLimit
         /\ Budget(c.fpl) <= StoreLimit
<1>1. /\ StoreLimit \in Nat /\ MaxFPLTotalCandidates \in Nat
      /\ 2 * MaxFPLTotalCandidates <= StoreLimit
  BY Within
<1>2. /\ c.fpl.total \in 1 .. MaxFPLTotalCandidates
      /\ \A i \in DOMAIN c.fpl.sources : c.fpl.sources[i].max \in 1 .. c.fpl.total
      /\ Budget(c.fpl) <= c.fpl.total * 2
  BY DEF CheckFPL
<1>3. Budget(c.fpl) \in Nat
  <2>1. /\ c.fpl.sources \in Seq(FPLSource)
        /\ \A i \in DOMAIN c.fpl.sources : c.fpl.sources[i].max \in Nat
    BY <1>1, <1>2 DEF WellFormed
  <2> QED
    BY <2>1, BudgetType
<1> QED
  BY <1>1, <1>2, <1>3

(* Names that are all different are keys that are all different.           *)
LEMMA AcceptedOpens ==
  ASSUME NEW c, Allows(c), WellFormed(c)
  PROVE  Opens(c)
<1> SUFFICES ASSUME NEW k \in Active(c) PROVE IsInjective(SourceNames(c, k))
  BY DEF Opens
<1>1. CASE k = "fpl"
  <2>1. NamesOK(c.fpl.sources)
    BY <1>1 DEF Allows, CheckFPL
  <2> QED
    BY <1>1, <2>1 DEF NamesOK, SourceNames, IsInjective
<1>2. CASE k = "fofa"
  <2>1. NamesOK(c.fofa.queries)
    BY <1>2 DEF Allows, CheckFOFA
  <2> QED
    BY <1>2, <2>1 DEF NamesOK, SourceNames, IsInjective
<1>3. CASE k \notin {"fpl", "fofa"}
  BY <1>3 DEF SourceNames, IsInjective
<1> QED
  BY <1>1, <1>2, <1>3

(* An accepted configuration is one the store can run with.                *)
LEMMA AcceptedFit ==
  ASSUME NEW c, Allows(c), WellFormed(c)
  PROVE  /\ \A k \in Active(c) : LargestResults(c, k) \subseteq 1 .. StoreLimit
         /\ "fpl" \in Active(c) => Budget(c.fpl) <= StoreLimit /\ c.fpl.fetch > 0
         /\ c.alive > 0
<1>1. StoreLimit \in Nat /\ \A n \in Limits : 1 .. n \subseteq 1 .. StoreLimit
  BY Within
<1>2. ASSUME "fpl" \in Active(c)
      PROVE  /\ LargestResults(c, "fpl") \subseteq 1 .. StoreLimit
             /\ Budget(c.fpl) <= StoreLimit /\ c.fpl.fetch > 0
  <2>1. CheckFPL(c.fpl)
    BY <1>2 DEF Allows
  <2>2. /\ \A i \in DOMAIN c.fpl.sources : c.fpl.sources[i].max \in 1 .. StoreLimit
        /\ Budget(c.fpl) <= StoreLimit
    BY <2>1, FPLFits
  <2>3. c.fpl.fetch > 0
    <3>1. c.fpl.fetch \in 1 .. MaxFPLFetchConcurrency
      BY <2>1 DEF CheckFPL
    <3>2. MaxFPLFetchConcurrency \in Nat
      BY DEF MaxFPLFetchConcurrency
    <3> QED
      BY <3>1, <3>2
  <2> QED
    BY <2>2, <2>3 DEF LargestResults
<1>3. ASSUME "fofa" \in Active(c)
      PROVE  LargestResults(c, "fofa") \subseteq 1 .. StoreLimit
  <2>1. c.fofa.size \in 1 .. StoreLimit /\ c.fofa.total \in 1 .. StoreLimit
    BY <1>1, <1>3 DEF Limits, Allows, CheckFOFA
  <2> QED
    BY <2>1 DEF LargestResults
<1>4. ASSUME "freeproxydb" \in Active(c)
      PROVE  LargestResults(c, "freeproxydb") \subseteq 1 .. StoreLimit
  <2>1. c.freeproxydb.max \in 1 .. StoreLimit
    BY <1>1, <1>4 DEF Limits, Allows, CheckPages
  <2> QED
    BY <2>1 DEF LargestResults
<1>5. ASSUME "rolaip" \in Active(c)
      PROVE  LargestResults(c, "rolaip") \subseteq 1 .. StoreLimit
  <2>1. c.rolaip.max \in 1 .. StoreLimit
    BY <1>1, <1>5 DEF Limits, Allows, CheckPages
  <2> QED
    BY <2>1 DEF LargestResults
<1>6. Active(c) \subseteq {"fpl", "fofa", "freeproxydb", "rolaip"}
  BY DEF Active, WellFormed
<1>7. c.alive > 0
  <2>1. c.alive \in 1 .. MaxAliveConcurrency
    BY DEF Allows
  <2>2. MaxAliveConcurrency \in Nat
    BY DEF MaxAliveConcurrency
  <2> QED
    BY <2>1, <2>2
<1> QED
  BY <1>2, <1>3, <1>4, <1>5, <1>6, <1>7

(* Whatever a well-formed configuration says: if Check accepts it, Open    *)
(* takes its keys and its results fit the store (config.go:402-508,        *)
(* store.go:73-80, 258, 293).                                              *)
THEOREM AcceptedConfigurationFits == ConfigSpec => []AcceptedFitsStore
<1>1. ConfigInit => FitInv
  BY ConfigAssumption DEF ConfigInit, FitInv
<1>2. FitInv /\ [ConfigNext]_configVars => FitInv'
  <2> SUFFICES ASSUME FitInv, [ConfigNext]_configVars PROVE FitInv'
    OBVIOUS
  <2>1. CASE Load
    <3>1. WellFormed(options') /\ stage' = "loaded"
      BY <2>1, DefaultsWellFormed DEF FitInv, Load
    <3> QED
      BY <3>1 DEF FitInv
  <2>2. CASE Check
    <3>1. /\ WellFormed(options') /\ stage' \in {"accepted", "rejected"}
          /\ stage' = "accepted" => Allows(options')
      BY <2>2, DefaultsWellFormed DEF FitInv, Check
    <3> QED
      BY <3>1 DEF FitInv
  <2>3. CASE OpenStore
    <3>1. Opens(options) /\ options' = options /\ stage = "accepted"
      BY <2>3, AcceptedOpens DEF FitInv, OpenStore
    <3>2. stage' = "open"
      BY <2>3, <3>1 DEF OpenStore
    <3> QED
      BY <3>1, <3>2 DEF FitInv
  <2>4. CASE UNCHANGED configVars
    BY <2>4 DEF FitInv, configVars
  <2> QED
    BY <2>1, <2>2, <2>3, <2>4 DEF ConfigNext
<1>3. FitInv => AcceptedFitsStore
  <2> SUFFICES ASSUME FitInv PROVE AcceptedFitsStore
    OBVIOUS
  <2>1. stage # "refused"
    BY DEF FitInv
  <2>2. CASE stage \in {"accepted", "open"}
    <3>1. Allows(options) /\ WellFormed(options)
      BY <2>2 DEF FitInv
    <3> QED
      BY <2>1, <3>1, AcceptedFit DEF AcceptedFitsStore
  <2>3. CASE stage \notin {"accepted", "open"}
    BY <2>1, <2>3 DEF AcceptedFitsStore
  <2> QED
    BY <2>2, <2>3
<1> QED
  BY <1>1, <1>2, <1>3, PTL DEF ConfigSpec
=============================================================================
