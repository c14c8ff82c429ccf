----------------------------- MODULE ConfigStore -----------------------------
(***************************************************************************)
(* The configuration file and everything that follows it: Admin commits    *)
(* (admin/routes/_shared.py), the recorders of selections (app.py), the    *)
(* Sub2API refreshes that record a URL of their own                        *)
(* (admin/provider_refresh.py), the command line and the desktop sidecar   *)
(* in processes of their own, the Codex files of local mode                *)
(* (local_mode.py), hot reloads, and crashes of any of these processes at  *)
(* any step.                                                               *)
(*                                                                         *)
(* A document is the set of the edits in force, an edit is named after its *)
(* writer, and a digest is the document itself.  The edits in Selecting    *)
(* all set the same current_* field (a Provider's current_base_url, say),  *)
(* so that the last of them replaces the others.  The gateway runs one     *)
(* thread: a handler that is inside write_config blocks all others, but    *)
(* not the other processes.                                                *)
(***************************************************************************)
EXTENDS Integers

CONSTANTS None,
          Admins,          \* Admin requests that change the configuration
          Recorders,       \* recordings of a selected URL, credential or candidate
          Refreshers,      \* Sub2API refreshes that record the URL they turn to
          Selecting,       \* the writers that set one and the same current_* field
          Tools,           \* command-line and desktop processes
          Syncing,         \* the tools that also update the Codex files
          Retrying,        \* the recorders of model groups, which try again
          Attempts,        \* of those, when somebody else interferes (3 in the code)
          MaxCrashes       \* bound on crashes

Gateway == Admins \cup Recorders \cup Refreshers
Writers == Gateway \cup Tools

ASSUME ConfigStoreAssumption ==
  /\ Admins \cap Recorders = {} /\ Gateway \cap Tools = {}
  /\ Refreshers \cap (Admins \cup Recorders) = {}
  /\ Refreshers \subseteq Selecting /\ Selecting \subseteq Gateway
  /\ Syncing \subseteq Tools /\ Retrying \subseteq Recorders
  /\ None \notin Writers
  /\ Attempts \in Nat \ {0} /\ MaxCrashes \in Nat

VARIABLES file, bak,       \* config.jsonc and its backup
          catalog, toml,   \* what the two Codex files were generated from
          lock,            \* who holds config.jsonc.lock
          stage, live,     \* of the gateway: its life, the document it runs on
          turn,            \* the handler that blocks the gateway's thread
          stale,           \* recorders bound to a configuration no longer live
          pc, base, tries, \* of a writer: its step, the document it loaded
          snap,            \* the Codex files before the lock's holder touched them
          acked, refused,  \* writers told of success, of failure
          crashes

vars == <<file, bak, catalog, toml, lock, stage, live, turn, stale, pc, base, tries, snap,
          acked, refused, crashes>>

disk == <<file, bak, catalog, toml>>
gateway == <<stage, live, turn, stale>>
answers == <<acked, refused>>

Documents == SUBSET Writers
NoSnap == <<{}, {}>>

(* Inside the lock, before and after the file was replaced. *)
Before == {"locked", "saved"}
After == {"replaced", "catalogued", "synced", "activated", "undo", "restore"}
Steps == {"idle", "loaded", "waiting", "ended"} \cup Before \cup After

TypeOK ==
  /\ file \in Documents /\ bak \in Documents
  /\ catalog \in Documents /\ toml \in Documents
  /\ lock \in Writers \cup {None}
  /\ stage \in {"down", "read", "listed", "up"} /\ live \in Documents
  /\ turn \in Gateway \cup {None} /\ stale \subseteq Recorders
  /\ pc \in [Writers -> Steps] /\ base \in [Writers -> Documents]
  /\ tries \in [Recorders -> 0..(Attempts - 1)]
  /\ snap \in Documents \X Documents
  /\ acked \in Documents /\ refused \in Documents
  /\ crashes \in 0..MaxCrashes

Init ==
  /\ file = {} /\ bak = {} /\ catalog = {} /\ toml = {}
  /\ lock = None
  /\ stage = "down" /\ live = {} /\ turn = None /\ stale = {}
  /\ pc = [w \in Writers |-> "idle"] /\ base = [w \in Writers |-> {}]
  /\ tries = [r \in Recorders |-> 0]
  /\ snap = NoSnap
  /\ acked = {} /\ refused = {}
  /\ crashes = 0

-----------------------------------------------------------------------------
(* A gateway handler runs only while no other one blocks the thread.       *)
MayRun(w) == w \in Gateway => stage = "up" /\ turn \in {None, w}
Frees(w) == IF turn = w THEN None ELSE turn

(* An edit of the contested field takes the place of the one before it.    *)
Apply(doc, w) == (IF w \in Selecting THEN doc \ Selecting ELSE doc) \cup {w}

Doc(w) == Apply(base[w], w)

Goto(w, step) == pc' = [pc EXCEPT ![w] = step]

(* write_config raises, or refuses before the lock: its caller is told.    *)
Refuse(w) ==
  /\ Goto(w, "ended")
  /\ base' = [base EXCEPT ![w] = {}]
  /\ refused' = refused \cup {w}
  /\ turn' = Frees(w)
  /\ tries' = [r \in Recorders |-> IF r = w THEN 0 ELSE tries[r]]
  /\ UNCHANGED <<stage, live, stale, snap, acked, crashes>>

-----------------------------------------------------------------------------
(* Broken variant: the ring moves before the selection is written. *)
LoadSelecting(w) ==
  /\ pc[w] = "idle" /\ MayRun(w)
  /\ base' = [base EXCEPT ![w] = file]
  /\ Goto(w, IF w \in Admins THEN "loaded" ELSE "waiting")
  /\ turn' = IF w \in Gateway \ Admins THEN w ELSE turn
  /\ live' = IF w \in Recorders THEN Apply(live, w) ELSE live
  /\ UNCHANGED <<disk, lock, stage, stale, tries, snap, answers, crashes>>

(* load_config_raw, without the lock.  An Admin request may still wait for *)
(* an upstream (put_provider); all others edit what they loaded and call   *)
(* write_config at once.  A recorder's request may have begun under the    *)
(* live configuration or an earlier one. *)
Load(w) ==
  /\ pc[w] = "idle" /\ MayRun(w)
  /\ base' = [base EXCEPT ![w] = file]
  /\ Goto(w, IF w \in Admins THEN "loaded" ELSE "waiting")
  /\ turn' = IF w \in Gateway \ Admins THEN w ELSE turn
  /\ stale' \in IF w \in Recorders /\ tries[w] = 0 THEN {stale, stale \ {w}} ELSE {stale}
  /\ UNCHANGED <<disk, lock, stage, live, tries, snap, answers, crashes>>

(* The edit, the validation of the whole candidate and the preparation of  *)
(* its activation. *)
Validate(w) ==
  /\ w \in Admins /\ pc[w] = "loaded" /\ MayRun(w)
  /\ \/ /\ Goto(w, "waiting")
        /\ turn' = w
        /\ UNCHANGED <<stage, live, stale, base, tries, snap, answers, crashes>>
     \/ Refuse(w)
  /\ UNCHANGED <<disk, lock>>

(* The edit does not fit what was loaded (its provider or candidate is     *)
(* gone), or write_config fails before it asks for the lock.  A refresh    *)
(* whose provider is gone returns instead of raising; that nothing was     *)
(* written is the same. *)
Decline(w) ==
  /\ pc[w] = "waiting"
  /\ Refuse(w)
  /\ UNCHANGED <<disk, lock>>

(* Broken variant: the digest is not compared under the lock. *)
AcquireUnchecked(w) ==
  /\ pc[w] = "waiting" /\ lock = None
  /\ lock' = w /\ Goto(w, "locked")
  /\ UNCHANGED <<disk, gateway, base, tries, snap, answers, crashes>>

(* The lock is granted and the digest compared.  A document that was not   *)
(* loaded from a file (init_config creating the first one) has no digest   *)
(* and is not compared; here the file exists from the start and every      *)
(* writer has loaded it. *)
Acquire(w) ==
  /\ pc[w] = "waiting" /\ lock = None
  /\ file = base[w]
  /\ lock' = w /\ Goto(w, "locked")
  /\ UNCHANGED <<disk, gateway, base, tries, snap, answers, crashes>>

(* ConfigConflictError: the recorder of a model group reads again.         *)
Conflict(w) ==
  /\ pc[w] = "waiting" /\ lock = None
  /\ file # base[w]
  /\ \/ /\ w \in Retrying /\ tries[w] + 1 < Attempts
        /\ Goto(w, "idle")
        /\ tries' = [tries EXCEPT ![w] = @ + 1]
        /\ base' = [base EXCEPT ![w] = {}]
        /\ turn' = None
        /\ UNCHANGED <<stage, live, stale, snap, answers, crashes>>
     \/ (w \in Retrying => tries[w] + 1 >= Attempts) /\ Refuse(w)
  /\ UNCHANGED <<disk, lock>>

(* Broken variant: the lock is not released. *)
FailEarlyLocked(w) ==
  /\ pc[w] \in Before
  /\ Refuse(w)
  /\ UNCHANGED <<disk, lock>>

(* Before the file is replaced a failure needs no compensation. *)
FailEarly(w) ==
  /\ pc[w] \in Before
  /\ lock' = None /\ Refuse(w)
  /\ UNCHANGED disk

Backup(w) ==
  /\ pc[w] = "locked"
  /\ bak' = file /\ Goto(w, "saved")
  /\ UNCHANGED <<file, catalog, toml, lock, gateway, base, tries, snap, answers, crashes>>

Replace(w) ==
  /\ pc[w] = "saved"
  /\ file' = Doc(w) /\ Goto(w, "replaced")
  /\ UNCHANGED <<bak, catalog, toml, lock, gateway, base, tries, snap, answers, crashes>>

-----------------------------------------------------------------------------
(* The activation, under the lock *)

Syncs(w) == w \in Admins \cup Syncing

(* CodexLocalModeTransaction.apply: capture both files, write the first... *)
WriteCatalog(w) ==
  /\ pc[w] = "replaced" /\ Syncs(w)
  /\ snap' = <<catalog, toml>> /\ catalog' = Doc(w)
  /\ Goto(w, "catalogued")
  /\ UNCHANGED <<file, bak, toml, lock, gateway, base, tries, answers, crashes>>

(* ... and the second. *)
WriteToml(w) ==
  /\ pc[w] = "catalogued"
  /\ toml' = Doc(w) /\ Goto(w, "synced")
  /\ UNCHANGED <<file, bak, catalog, lock, gateway, base, tries, snap, answers, crashes>>

(* Broken variant: the new configuration is taken before the Codex files.  *)
ActivateFirst(w) ==
  /\ pc[w] \in {"replaced", "synced"} /\ w \in Admins
  /\ live' = Doc(w) /\ stale' = Recorders
  /\ Goto(w, "activated")
  /\ UNCHANGED <<disk, lock, stage, turn, base, tries, snap, answers, crashes>>

(* _activate_gateway_config takes the new configuration as a whole.  Rings *)
(* of the previous one keep their recorders. *)
Activate(w) ==
  /\ pc[w] = "synced" /\ w \in Admins
  /\ live' = Doc(w) /\ stale' = Recorders
  /\ Goto(w, "activated")
  /\ UNCHANGED <<disk, lock, stage, turn, base, tries, snap, answers, crashes>>

(* A failure of the directory sync, of either Codex file or of the         *)
(* activation; the runtime state has been rolled back on the way out. *)
Fail(w) ==
  /\ pc[w] \in {"replaced", "catalogued"} \/ (pc[w] = "synced" /\ w \in Admins)
  /\ Goto(w, IF pc[w] = "replaced" THEN "restore" ELSE "undo")
  /\ UNCHANGED <<disk, lock, gateway, base, tries, snap, answers, crashes>>

(* CodexLocalModeTransaction.rollback *)
Undo(w) ==
  /\ pc[w] = "undo"
  /\ catalog' = snap[1] /\ toml' = snap[2] /\ snap' = NoSnap
  /\ Goto(w, "restore")
  /\ UNCHANGED <<file, bak, lock, gateway, base, tries, answers, crashes>>

(* Broken variant: the previous bytes are not put back. *)
RestoreNothing(w) ==
  /\ pc[w] = "restore"
  /\ lock' = None /\ Refuse(w)
  /\ UNCHANGED disk

(* write_config puts the previous bytes back and raises. *)
Restore(w) ==
  /\ pc[w] = "restore"
  /\ file' = base[w]
  /\ lock' = None /\ Refuse(w)
  /\ UNCHANGED <<bak, catalog, toml>>

Complete(w) ==
  pc[w] = (IF w \in Admins THEN "activated" ELSE IF Syncs(w) THEN "synced" ELSE "replaced")

(* write_config returns.  A recorder's caller moves its ring, which may    *)
(* belong to a replaced configuration; a refresh moves no Provider's ring. *)
Finish(w) ==
  /\ Complete(w)
  /\ lock' = None /\ Goto(w, "ended")
  /\ base' = [base EXCEPT ![w] = {}]
  /\ acked' = acked \cup {w}
  /\ live' = IF w \in Recorders \ stale THEN Apply(live, w) ELSE live
  /\ turn' = Frees(w) /\ snap' = NoSnap
  /\ tries' = [r \in Recorders |-> IF r = w THEN 0 ELSE tries[r]]
  /\ UNCHANGED <<disk, stage, stale, refused, crashes>>

-----------------------------------------------------------------------------
(* The processes *)

(* A start reads the file without the lock and brings the Codex files up   *)
(* to date, also without it. *)
Read ==
  /\ stage = "down"
  /\ stage' = "read" /\ live' = file
  /\ UNCHANGED <<disk, lock, turn, stale, pc, base, tries, snap, answers, crashes>>

StartCatalog ==
  /\ stage = "read"
  /\ stage' = "listed" /\ catalog' = live
  /\ UNCHANGED <<file, bak, toml, lock, live, turn, stale, pc, base, tries, snap, answers, crashes>>

StartToml ==
  /\ stage = "listed"
  /\ stage' = "up" /\ toml' = live
  /\ UNCHANGED <<file, bak, catalog, lock, live, turn, stale, pc, base, tries, snap, answers, crashes>>

Start == Read \/ StartCatalog \/ StartToml

(* reload_config: neither the lock nor the Codex files are involved.       *)
Reload ==
  /\ stage = "up" /\ turn = None
  /\ live' = file /\ stale' = Recorders
  /\ UNCHANGED <<disk, lock, stage, turn, pc, base, tries, snap, answers, crashes>>

(* Broken variant: the lock of a dead process stays taken. *)
DiesLocked(dead) ==
  /\ crashes < MaxCrashes
  /\ crashes' = crashes + 1
  /\ lock' = lock
  /\ pc' = [w \in Writers |-> IF w \in dead /\ pc[w] # "idle" THEN "ended" ELSE pc[w]]
  /\ base' = [w \in Writers |-> IF w \in dead THEN {} ELSE base[w]]
  /\ tries' = [r \in Recorders |-> IF r \in dead THEN 0 ELSE tries[r]]
  /\ snap' = IF lock \in dead THEN NoSnap ELSE snap
  /\ UNCHANGED <<disk, answers>>

(* The writers of a process that dies get no answer; the system releases   *)
(* its lock. *)
Dies(dead) ==
  /\ crashes < MaxCrashes
  /\ crashes' = crashes + 1
  /\ lock' = IF lock \in dead THEN None ELSE lock
  /\ pc' = [w \in Writers |-> IF w \in dead /\ pc[w] # "idle" THEN "ended" ELSE pc[w]]
  /\ base' = [w \in Writers |-> IF w \in dead THEN {} ELSE base[w]]
  /\ tries' = [r \in Recorders |-> IF r \in dead THEN 0 ELSE tries[r]]
  /\ snap' = IF lock \in dead THEN NoSnap ELSE snap
  /\ UNCHANGED <<disk, answers>>

GatewayDies ==
  /\ stage # "down" /\ Dies(Gateway)
  /\ stage' = "down" /\ live' = {} /\ turn' = None /\ stale' = {}

ToolDies(w) ==
  /\ w \in Tools /\ pc[w] \notin {"idle", "ended"} /\ Dies({w})
  /\ UNCHANGED gateway

Write(w) ==
  \/ Validate(w) \/ Acquire(w) \/ Conflict(w) \/ FailEarly(w) \/ Backup(w) \/ Replace(w)
  \/ WriteCatalog(w) \/ WriteToml(w) \/ Activate(w) \/ Fail(w) \/ Undo(w) \/ Restore(w)
  \/ Finish(w)

Next ==
  \/ \E w \in Writers : Load(w) \/ Decline(w) \/ Write(w) \/ ToolDies(w)
  \/ Start \/ Reload \/ GatewayDies

(* A process that has begun to write goes on unless it dies: nothing in    *)
(* write_config waits for anything but the lock.  The gateway's one thread *)
(* is fair as a whole, not to each of its handlers. *)
Spec ==
  /\ Init /\ [][Next]_vars
  /\ WF_vars(\E w \in Gateway : Write(w))
  /\ \A w \in Tools : WF_vars(Write(w))
  /\ WF_vars(Start)

-----------------------------------------------------------------------------
Inside(w) == pc[w] \in Before \cup After

(* Nobody but the holder of the lock is inside write_config, and the file  *)
(* is what the holder loaded until it is replaced, and exactly the         *)
(* holder's edit ahead of that afterwards. *)
HolderOwnsFile ==
  \A w \in Writers :
    /\ Inside(w) <=> lock = w
    /\ pc[w] \in Before => file = base[w]
    /\ pc[w] \in After => file = Doc(w)

(* The store's safety: the lock and the digest check make the holder the   *)
(* only one whose edit can be in progress. *)
StoreInv == TypeOK /\ HolderOwnsFile

(* The digest is checked under the lock, but documents are loaded without: *)
(* seen from outside the lock, whatever the interleaving, failures and     *)
(* crashes, the file changes by whole edits, and an acknowledged one is    *)
(* lost only to a later edit of the same field. *)
Pending == \E w \in Writers : lock = w /\ pc[w] \in After
Store == INSTANCE AtomicConfig
           WITH Edits <- Writers,
                committed <- IF Pending THEN base[lock] ELSE file
ImplementsAtomicConfig == Store!Spec

(* "the config file is never left on a candidate that failed validation or *)
(* runtime activation", nor is its backup, the running gateway or a Codex  *)
(* file left on what an Admin request was refused. *)
RefusalLeavesNoTrace ==
  lock = None =>
    /\ refused \cap (file \cup bak) = {}
    /\ refused \cap Gateway \cap (live \cup catalog \cup toml) = {}

(* An Admin request is told of success only when the file, the gateway and *)
(* both Codex files are on its document. *)
SuccessIsEverywhere ==
  [][\A w \in Admins :
       w \in acked' \ acked => /\ file' = live' /\ file' = catalog' /\ file' = toml'
                              /\ w \in file']_vars

(* What a restart would serve: every Admin change that was acknowledged is *)
(* live, but for a selection that was replaced since, and the selection in *)
(* the file is the live one unless the file's was written last by a        *)
(* recorder of a replaced configuration (provider_info.py:268) or by a     *)
(* Sub2API refresh (provider_refresh.py:580).  Failed, conflicting and     *)
(* retried recordings, reloads and crashes cause no other drift. *)
Selection(doc) == doc \cap Selecting
DriftHasACause ==
  stage = "up" /\ lock \notin Gateway =>
    /\ (acked \cap Admins) \ Selecting \subseteq live
    /\ Selection(acked \cap Admins) # {} => Selection(live) # {}
    /\ Selection(live) # Selection(file) =>
         \E w \in Refreshers \cup stale : Selection(file) = {w}

(* Every writer comes to an end although the others may fail or die at     *)
(* any step, inside the lock too. *)
EveryWriterEnds == <>[](\A w \in Writers : pc[w] \in {"idle", "ended"})
=============================================================================
