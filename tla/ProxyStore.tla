----------------------------- MODULE ProxyStore -----------------------------
(***************************************************************************)
(* The state store (internal/state/store.go): what each source last        *)
(* delivered, the JSON state file it is saved to, the TXT list published   *)
(* from it, and the recovery that keeps an old list alive while a lost     *)
(* state is rebuilt.                                                       *)
(*                                                                         *)
(* The store's mutex makes Open and Update sequential, so one `phase'      *)
(* variable says how far the call in progress has got.  A call is several  *)
(* steps because the process may be killed, or a write may fail, between   *)
(* the two files it replaces.                                              *)
(***************************************************************************)
EXTENDS FiniteSetsExt

CONSTANTS
  Sources,      \* keys "collector:source" any configuration may name
  Proxies,      \* canonical proxy URLs
  MaxProxies,   \* store.go maxProxies
  SourceLimit,  \* most proxies one collector result may hold (max_candidates)
  Configs,      \* configurations the process may be started with
  LegacyLists,  \* TXT contents that may be there before the first start
  DamageKinds   \* what may befall the state file while the process is down

ASSUME StoreAssumption ==
  /\ IsFiniteSet(Proxies)
  /\ MaxProxies \in Nat
  /\ SourceLimit \in 0 .. MaxProxies
  /\ Configs \subseteq [expected : (SUBSET Sources) \ {{}}, alive : BOOLEAN]
  /\ LegacyLists \subseteq SUBSET Proxies
  /\ DamageKinds \subseteq {"absent", "garbled"}

VARIABLES
  phase,    \* where the process is: down, or how far the store call has got
  booting,  \* the call in progress is Open, not Update
  config,   \* the configuration the process was last started with
  mem,      \* Store.state
  file,     \* the state file
  list,     \* proxies in the TXT file; {} means there is no TXT file
  reply,    \* what the last Update returned
  settled   \* history: the last call that wrote did all its writes

vars == <<phase, booting, config, mem, file, list, reply, settled>>

(***************************************************************************)
(* persistedState.  `known' is the key set of the Sources map; a key that  *)
(* is not known has no proxies.                                            *)
(***************************************************************************)
State == {st \in [known   : SUBSET Sources,
                   urls    : [Sources -> SUBSET Proxies],
                   pending : SUBSET Sources] :
            \A s \in Sources : s \notin st.known => st.urls[s] = {}}

Empty == [known |-> {}, urls |-> [s \in Sources |-> {}], pending |-> {}]

Aggregate(st) == UNION {st.urls[s] : s \in st.known}

Total(st) == MapThenSumSet(LAMBDA s : Cardinality(st.urls[s]), st.known)

NoReply == [accepted |-> FALSE, published |-> FALSE, err |-> FALSE]

Recovering(cfg) == [Empty EXCEPT !.pending = cfg.expected]

(* Definitions named X_Y are faulty variants of X: each breaks a property. *)

Prune_KeepsUrls(st, cfg) ==
  [st EXCEPT !.known = @ \cap cfg.expected, !.pending = @ \cap cfg.expected]

(* pruneUnknownLocked: sources the configuration no longer names are dropped. *)
Prune(st, cfg) ==
  [known   |-> st.known \cap cfg.expected,
   urls    |-> [s \in Sources |-> IF s \in cfg.expected THEN st.urls[s] ELSE {}],
   pending |-> st.pending \cap cfg.expected]

Accepts_NonZero(st, us, complete) == us # {}

(* What Update keeps of a result: a zero result counts only in recovery. *)
Accepts(st, us, complete) == us # {} \/ (st.pending # {} /\ complete)

Receive_PartialIsEnough(st, s, us, complete) ==
  IF Accepts(st, us, complete)
  THEN [known   |-> st.known \cup {s},
        urls    |-> [st.urls EXCEPT ![s] = us],
        pending |-> st.pending \ {s}]
  ELSE st

(* Only a complete result ends the wait for its source. *)
Receive(st, s, us, complete) ==
  IF Accepts(st, us, complete)
  THEN [known   |-> st.known \cup {s},
        urls    |-> [st.urls EXCEPT ![s] = us],
        pending |-> IF complete THEN st.pending \ {s} ELSE st.pending]
  ELSE st

-----------------------------------------------------------------------------
(* Starting *)

Present(st) == [status |-> "present", state |-> st]
Damaged(kind) == [status |-> kind, state |-> Empty]

Init ==
  /\ phase = "down"
  /\ booting = FALSE
  /\ config \in Configs
  /\ mem = Empty
  /\ file = Damaged("absent")
  /\ list \in LegacyLists
  /\ reply = NoReply
  /\ settled = FALSE

(* readLimitedFile, json.Unmarshal and validateState all accept the file. *)
Usable == file.status = "present" /\ Total(file.state) <= MaxProxies

OpenMissing_AlwaysRecovers(cfg) ==
  /\ phase = "down"
  /\ file.status = "absent"
  /\ config' = cfg
  /\ mem' = Recovering(cfg)
  /\ phase' = "save"
  /\ booting' = TRUE
  /\ UNCHANGED <<file, list, reply, settled>>

(* No state file: with a TXT, recover around it; without, start afresh. *)
OpenMissing(cfg) ==
  /\ phase = "down"
  /\ file.status = "absent"
  /\ config' = cfg
  /\ IF list # {}
     THEN /\ mem' = Recovering(cfg)
          /\ phase' = "save"
          /\ booting' = TRUE
          /\ settled' = settled
     ELSE /\ phase' = "ready"
          /\ settled' = TRUE
          /\ UNCHANGED <<mem, booting>>
  /\ UNCHANGED <<file, list, reply>>

(* A state file that cannot be used: set it aside if there is a TXT to     *)
(* serve meanwhile, refuse to start if there is none.                      *)
OpenUnusable(cfg) ==
  /\ phase = "down"
  /\ file.status # "absent" /\ ~Usable
  /\ config' = cfg
  /\ IF list # {}
     THEN phase' = "quarantine" /\ booting' = TRUE
     ELSE UNCHANGED <<phase, booting>>
  /\ UNCHANGED <<mem, file, list, reply, settled>>

OpenUsable_TrustsList(cfg) ==
  /\ phase = "down"
  /\ Usable
  /\ config' = cfg
  /\ mem' = Prune(file.state, cfg)
  /\ phase' = IF mem' # file.state THEN "save" ELSE "ready"
  /\ booting' = (phase' # "ready")
  /\ settled' = (phase' = "ready")
  /\ UNCHANGED <<file, list, reply>>

(* A usable state file, reduced to the sources that are still configured;  *)
(* if nothing is left of it an existing TXT is recovered around.           *)
OpenUsable(cfg) ==
  /\ phase = "down"
  /\ Usable
  /\ config' = cfg
  /\ LET kept == Prune(file.state, cfg)
         lost == kept.pending = {} /\ kept.known = {} /\ list # {}
     IN  mem' = IF lost THEN Recovering(cfg) ELSE kept
  /\ \/ mem' # file.state /\ phase' = "save"
     \/ mem' = file.state /\ mem'.pending # {} /\ phase' = "ready"
     \/ mem' = file.state /\ mem'.pending = {} /\ phase' = "publish"
  /\ booting' = (phase' # "ready")
  /\ settled' = (phase' = "ready")
  /\ UNCHANGED <<file, list, reply>>

Open(cfg) == OpenMissing(cfg) \/ OpenUnusable(cfg) \/ OpenUsable(cfg)

(* Where a call ends when one of its writes fails: Open gives up and the   *)
(* process exits, Update reports the error and the store carries on.       *)
Abort ==
  /\ phase' = IF booting THEN "down" ELSE "ready"
  /\ mem' = IF booting THEN Empty ELSE mem
  /\ reply' = IF booting THEN NoReply ELSE [NoReply EXCEPT !.err = TRUE]
  /\ booting' = FALSE
  /\ settled' = FALSE

(* The call is over and everything it had to write is written. *)
Finish(published) ==
  /\ phase' = "ready"
  /\ booting' = FALSE
  /\ reply' = IF booting THEN NoReply ELSE [NoReply EXCEPT !.published = published]
  /\ settled' = TRUE

Quarantine ==
  /\ phase = "quarantine"
  /\ file' = Damaged("absent")
  /\ mem' = Recovering(config)
  /\ phase' = "save"
  /\ UNCHANGED <<booting, config, list, reply, settled>>

QuarantineFails ==
  /\ phase = "quarantine"
  /\ Abort
  /\ UNCHANGED <<config, file, list>>

-----------------------------------------------------------------------------
(* Update, the save and the publication shared with Open *)

(* A result that changes nothing returns at once. *)
IgnoreZero(s) ==
  /\ phase = "ready"
  /\ s \in config.expected
  /\ mem.pending = {}
  /\ reply' = NoReply
  /\ UNCHANGED <<phase, booting, config, mem, file, list, settled>>

Update_StoresZero(s, us, complete) ==
  /\ phase = "ready"
  /\ s \in config.expected
  /\ Cardinality(us) <= SourceLimit
  /\ mem' = [known   |-> mem.known \cup {s},
             urls    |-> [mem.urls EXCEPT ![s] = us],
             pending |-> IF complete THEN mem.pending \ {s} ELSE mem.pending]
  /\ phase' = "save"
  /\ reply' = [NoReply EXCEPT !.accepted = TRUE]
  /\ settled' = FALSE
  /\ UNCHANGED <<booting, config, file, list>>

Update_PublishesFirst(s, us, complete) ==
  /\ phase = "ready"
  /\ s \in config.expected
  /\ Cardinality(us) <= SourceLimit
  /\ mem.pending # {} \/ us # {}
  /\ mem' = Receive(mem, s, us, complete)
  /\ phase' = IF mem'.pending = {} THEN "publish" ELSE "save"
  /\ reply' = [NoReply EXCEPT !.accepted = Accepts(mem, us, complete)]
  /\ settled' = FALSE
  /\ UNCHANGED <<booting, config, file, list>>

Update_SkipsUnchanged(s, us, complete) ==
  /\ phase = "ready"
  /\ s \in config.expected
  /\ Cardinality(us) <= SourceLimit
  /\ mem.pending # {} \/ us # {}
  /\ mem' = Receive(mem, s, us, complete)
  /\ phase' = IF mem' = mem THEN "ready" ELSE "save"
  /\ reply' = [NoReply EXCEPT !.accepted = Accepts(mem, us, complete)]
  /\ settled' = (settled /\ mem' = mem)
  /\ UNCHANGED <<booting, config, file, list>>

(* A result that is kept: the memory changes, then the save is due. *)
Update(s, us, complete) ==
  /\ phase = "ready"
  /\ s \in config.expected
  /\ Cardinality(us) <= SourceLimit
  /\ mem.pending # {} \/ us # {}
  /\ mem' = Receive(mem, s, us, complete)
  /\ phase' = "save"
  /\ reply' = [NoReply EXCEPT !.accepted = Accepts(mem, us, complete)]
  /\ settled' = FALSE
  /\ UNCHANGED <<booting, config, file, list>>

SaveThenPublish_EvenRecovering ==
  /\ phase = "save"
  /\ file' = Present(mem)
  /\ phase' = "publish"
  /\ UNCHANGED <<booting, config, mem, list, reply, settled>>

(* writeAtomic replaced the state file; outside recovery the list is next. *)
SaveThenPublish ==
  /\ phase = "save"
  /\ mem.pending = {}
  /\ file' = Present(mem)
  /\ phase' = "publish"
  /\ UNCHANGED <<booting, config, mem, list, reply, settled>>

(* In recovery the call ends with the save. *)
SaveInRecovery ==
  /\ phase = "save"
  /\ mem.pending # {}
  /\ file' = Present(mem)
  /\ phase' = "ready"
  /\ booting' = FALSE
  /\ settled' = TRUE
  /\ UNCHANGED <<config, mem, list, reply>>

(* writeAtomic failed, before its rename or after it (opening or syncing   *)
(* the directory).                                                         *)
SaveFails ==
  /\ phase = "save"
  /\ file' \in {file, Present(mem)}
  /\ Abort
  /\ UNCHANGED <<config, list>>

(* The lists the alive filter may leave of the aggregate. *)
Survivors == IF config.alive THEN SUBSET Aggregate(mem) ELSE {Aggregate(mem)}

PublishList ==
  /\ phase = "publish"
  /\ list' \in Survivors \ {{}}
  /\ Finish(TRUE)
  /\ UNCHANGED <<config, mem, file>>

PublishNothing_Removes ==
  /\ phase = "publish"
  /\ {} \in Survivors
  /\ list' = {}
  /\ Finish(FALSE)
  /\ UNCHANGED <<config, mem, file>>

(* Nothing to publish: the alive filter keeps the last list, without it    *)
(* the TXT goes.                                                           *)
PublishNothing ==
  /\ phase = "publish"
  /\ {} \in Survivors
  /\ list' = IF config.alive THEN list ELSE {}
  /\ Finish(FALSE)
  /\ UNCHANGED <<config, mem, file>>

(* writeAtomic failed, before its rename or after it, or os.Remove did. *)
PublishFails ==
  /\ phase = "publish"
  /\ list' \in {list} \cup (Survivors \ {{}})
  /\ Abort
  /\ UNCHANGED <<config, file>>

-----------------------------------------------------------------------------
(* The environment *)

(* The process is stopped or killed.  Every file replaced so far stays. *)
Kill ==
  /\ phase # "down"
  /\ phase' = "down"
  /\ booting' = FALSE
  /\ mem' = Empty
  /\ reply' = NoReply
  /\ settled' = FALSE
  /\ UNCHANGED <<config, file, list>>

(* The state file is deleted or damaged between two runs. *)
LoseState ==
  /\ phase = "down"
  /\ \E kind \in DamageKinds : file # Damaged(kind) /\ file' = Damaged(kind)
  /\ UNCHANGED <<phase, booting, config, mem, list, reply, settled>>

Call ==
  \/ \E cfg \in Configs : Open(cfg)
  \/ \E s \in Sources : IgnoreZero(s)
  \/ \E s \in Sources, us \in SUBSET Proxies, complete \in BOOLEAN :
       Update(s, us, complete)

Step == Quarantine \/ SaveThenPublish \/ SaveInRecovery \/ PublishList \/ PublishNothing

Fault == QuarantineFails \/ SaveFails \/ PublishFails \/ Kill \/ LoseState

Next == Call \/ Step \/ Fault

Spec == Init /\ [][Next]_vars

-----------------------------------------------------------------------------
(* Properties *)

(* Types, and what the fields say of one another. *)
TypeOK ==
  /\ phase \in {"down", "quarantine", "save", "publish", "ready"}
  /\ booting \in BOOLEAN
  /\ config \in Configs
  /\ mem \in State
  /\ file \in [status : {"absent", "garbled", "present"}, state : State]
  /\ list \in SUBSET Proxies
  /\ reply \in [accepted : BOOLEAN, published : BOOLEAN, err : BOOLEAN]
  /\ settled \in BOOLEAN

FileInRecovery == file.status = "present" /\ file.state.pending # {}

(* As long as the state file says that sources are still to be recovered   *)
(* there is an old list to serve: neither load nor Update nor publishLocked *)
(* leaves a store that is recovering around nothing, whichever write fails *)
(* and wherever the process dies.                                          *)
RecoveryServesList == FileInRecovery => list # {}

(* The TXT is only ever replaced or removed when the state file on disk    *)
(* already holds the state it is made from and that state's recovery is    *)
(* over: the save comes first (store.go Update, load), so a crash between  *)
(* the two leaves a state file the next start can rebuild the TXT from.    *)
ListFollowsState ==
  [][list' # list => /\ file = Present(mem)
                     /\ mem.pending = {}
                     /\ list' \subseteq Aggregate(file.state)]_vars

(* After a call that completed all its writes, memory, the state file and  *)
(* the list agree.  With validation off the list is exactly the aggregate, *)
(* in particular after a restart that found a list older than its state.   *)
SettledAgrees ==
  phase = "ready" /\ settled =>
    /\ \/ file = Present(mem)
       \/ file.status = "absent" /\ mem = Empty /\ list = {}
    /\ mem.pending = {} /\ ~config.alive => list = Aggregate(mem)

(* A result reported as published is on disk, state and list, and nothing  *)
(* the list holds is missing from the state.                               *)
PublishedIsOnDisk ==
  reply.published =>
    /\ file = Present(mem)
    /\ mem.pending = {}
    /\ list # {} /\ list \subseteq Aggregate(mem)

(* With validation on a list once published never disappears, whatever     *)
(* the filter rejects and whatever fails.  With validation off it goes     *)
(* only when no configured source has a proxy left.                        *)
ListKept ==
  [][list # {} /\ list' = {} => ~config.alive /\ Aggregate(file.state) = {}]_vars

(* Outside recovery a configured source that has proxies in the state file *)
(* keeps having some, over zero results, failed saves, crashes, restarts   *)
(* and other sources' updates; only losing the file itself forgets them.   *)
SourceNotForgotten ==
  [][\A s \in Sources :
       /\ file.status = "present" /\ file.state.pending = {}
       /\ file.state.urls[s] # {}
       /\ file'.status = "present" /\ s \in config'.expected
       => file'.state.urls[s] # {}]_vars

(* Whatever the store writes as its state the next start can load again,   *)
(* with nobody touching the file in between.                               *)
PersistedLoadable == file.status = "present" => Usable

(* The two files behave as PublishedList says, through every crash, failed *)
(* write, damage and change of configuration.                              *)
Files == INSTANCE PublishedList WITH
           expected <- config.expected,
           has <- file.status = "present",
           saved <- file.state

ImplementsPublishedList == Files!Spec

-----------------------------------------------------------------------------
(* The inductive invariant behind the properties above *)

(* What each phase of a call may rely on. *)
PhaseInv ==
  /\ phase = "down" => mem = Empty /\ ~booting /\ reply = NoReply
  /\ phase = "quarantine" => booting /\ list # {}
  /\ phase = "ready" => ~booting
  /\ phase = "publish" => file = Present(mem) /\ mem.pending = {}
  /\ phase # "ready" => ~reply.published

(* A recovery in memory, too, has an old list to serve. *)
MemoryServesList == mem.pending # {} => list # {}

Inv ==
  /\ TypeOK
  /\ PhaseInv
  /\ MemoryServesList
  /\ RecoveryServesList
  /\ SettledAgrees
  /\ PublishedIsOnDisk

(* What the state in memory keeps of the state file: it may be ahead of it *)
(* by results whose save failed or is still due, it forgets nothing.       *)
Continues(st) ==
  /\ st.known \cap config.expected \subseteq mem.known
  /\ mem.pending \subseteq st.pending
  /\ (st.pending \cap config.expected) \ mem.pending \subseteq mem.known
  /\ st.pending = {} =>
       \A s \in config.expected : st.urls[s] # {} => mem.urls[s] # {}

(* Open is about to save a recovery around a list without a usable state. *)
Rebuilding ==
  /\ booting /\ phase = "save" /\ list # {}
  /\ mem = Recovering(config)
  /\ file.state.pending \cap config.expected = {}
  /\ file.state.known \cap config.expected = {}

Lineage ==
  /\ file.status # "present" => file.state = Empty
  /\ phase \in {"save", "publish", "ready"} =>
       /\ mem.known \cup mem.pending \subseteq config.expected
       /\ Rebuilding \/ (Continues(file.state) /\ (file.status = "present" \/ list = {}))
=============================================================================
