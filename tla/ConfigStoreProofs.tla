-------------------------- MODULE ConfigStoreProofs --------------------------
(***************************************************************************)
(* Proofs about ConfigStore, for any writers, attempts and crashes.        *)
(***************************************************************************)
EXTENDS ConfigStore, TLAPS

(* What the assumption on the constants says of the sets of writers. *)
LEMMA Kinds ==
  /\ None \notin Writers
  /\ Gateway \subseteq Writers /\ Admins \subseteq Gateway /\ Recorders \subseteq Gateway
  /\ Refreshers \subseteq Gateway /\ Refreshers \subseteq Selecting
  /\ Refreshers \cap (Admins \cup Recorders) = {}
  /\ Selecting \subseteq Gateway /\ Gateway = Admins \cup Recorders \cup Refreshers
  /\ Tools \subseteq Writers
  /\ Admins \cap Recorders = {} /\ Gateway \cap Tools = {}
  /\ Retrying \subseteq Recorders
BY ConfigStoreAssumption DEF Writers, Gateway

(* Every step keeps the types. *)
LEMMA TypeStep ==
  ASSUME TypeOK, [Next]_vars
  PROVE  TypeOK'
<1> USE ConfigStoreAssumption, Kinds DEF TypeOK, Documents, Steps, Before, After
<1>1. ASSUME NEW w \in Writers, Load(w) PROVE TypeOK'
  BY <1>1 DEF Load, Goto, disk, answers
<1>2. ASSUME NEW w \in Writers, Validate(w) PROVE TypeOK'
  BY <1>2 DEF Validate, Refuse, Frees, Goto, disk, answers
<1>20. ASSUME NEW w \in Writers, Decline(w) PROVE TypeOK'
  BY <1>20 DEF Decline, Refuse, Frees, Goto, disk, answers
<1>3. ASSUME NEW w \in Writers, Acquire(w) PROVE TypeOK'
  BY <1>3 DEF Acquire, Goto, disk, gateway, answers
<1>4. ASSUME NEW w \in Writers, Conflict(w) PROVE TypeOK'
  BY <1>4 DEF Conflict, Refuse, Frees, Goto, disk, answers
<1>5. ASSUME NEW w \in Writers, FailEarly(w) PROVE TypeOK'
  BY <1>5 DEF FailEarly, Refuse, Frees, Goto, disk, answers
<1>6. ASSUME NEW w \in Writers, Backup(w) PROVE TypeOK'
  BY <1>6 DEF Backup, Goto, gateway, answers
<1>7. ASSUME NEW w \in Writers, Replace(w) PROVE TypeOK'
  BY <1>7 DEF Replace, Doc, Apply, Goto, gateway, answers
<1>8. ASSUME NEW w \in Writers, WriteCatalog(w) PROVE TypeOK'
  BY <1>8 DEF WriteCatalog, Doc, Apply, Goto, gateway, answers
<1>9. ASSUME NEW w \in Writers, WriteToml(w) PROVE TypeOK'
  BY <1>9 DEF WriteToml, Doc, Apply, Goto, gateway, answers
<1>10. ASSUME NEW w \in Writers, Activate(w) PROVE TypeOK'
  BY <1>10 DEF Activate, Doc, Apply, Goto, disk, answers
<1>11. ASSUME NEW w \in Writers, Fail(w) PROVE TypeOK'
  BY <1>11 DEF Fail, Goto, disk, gateway, answers
<1>12. ASSUME NEW w \in Writers, Undo(w) PROVE TypeOK'
  BY <1>12 DEF Undo, NoSnap, Goto, gateway, answers
<1>13. ASSUME NEW w \in Writers, Restore(w) PROVE TypeOK'
  BY <1>13 DEF Restore, Refuse, Frees, Goto
<1>14. ASSUME NEW w \in Writers, Finish(w) PROVE TypeOK'
  BY <1>14 DEF Finish, Apply, NoSnap, Frees, Goto, disk
<1>15. ASSUME NEW w \in Writers, ToolDies(w) PROVE TypeOK'
  BY <1>15 DEF ToolDies, Dies, NoSnap, disk, gateway, answers
<1>16. CASE Start
  BY <1>16 DEF Start, Read, StartCatalog, StartToml, disk, answers
<1>17. CASE Reload
  BY <1>17 DEF Reload, disk, answers
<1>18. CASE GatewayDies
  BY <1>18 DEF GatewayDies, Dies, NoSnap, disk, answers
<1>19. CASE UNCHANGED vars
  BY <1>19 DEF vars, disk, gateway, answers
<1> QED BY <1>1, <1>2, <1>3, <1>4, <1>5, <1>6, <1>7, <1>8, <1>9, <1>10, <1>11, <1>12, <1>13,
           <1>14, <1>15, <1>16, <1>17, <1>18, <1>19, <1>20 DEF Next, Write

(* Every step keeps the file in the hands of the holder. *)
LEMMA OwnerStep ==
  ASSUME StoreInv, [Next]_vars
  PROVE  HolderOwnsFile'
<1> USE Kinds DEF StoreInv, TypeOK, Steps, HolderOwnsFile, Inside, Before, After, Doc, Apply
<1>1. ASSUME NEW w \in Writers, Load(w) PROVE HolderOwnsFile'
  BY <1>1 DEF Load, Goto, disk, answers
<1>2. ASSUME NEW w \in Writers, Validate(w) PROVE HolderOwnsFile'
  BY <1>2 DEF Validate, Refuse, Frees, Goto, disk, answers
<1>20. ASSUME NEW w \in Writers, Decline(w) PROVE HolderOwnsFile'
  BY <1>20 DEF Decline, Refuse, Frees, Goto, disk, answers
<1>3. ASSUME NEW w \in Writers, Acquire(w) PROVE HolderOwnsFile'
  BY <1>3 DEF Acquire, Goto, disk, gateway, answers
<1>4. ASSUME NEW w \in Writers, Conflict(w) PROVE HolderOwnsFile'
  BY <1>4 DEF Conflict, Refuse, Frees, Goto, disk, answers
<1>5. ASSUME NEW w \in Writers, FailEarly(w) PROVE HolderOwnsFile'
  BY <1>5 DEF FailEarly, Refuse, Frees, Goto, disk, answers
<1>6. ASSUME NEW w \in Writers, Backup(w) PROVE HolderOwnsFile'
  BY <1>6 DEF Backup, Goto, gateway, answers
<1>7. ASSUME NEW w \in Writers, Replace(w) PROVE HolderOwnsFile'
  BY <1>7 DEF Replace, Doc, Apply, Goto, gateway, answers
<1>8. ASSUME NEW w \in Writers, WriteCatalog(w) PROVE HolderOwnsFile'
  BY <1>8 DEF WriteCatalog, Doc, Apply, Goto, gateway, answers
<1>9. ASSUME NEW w \in Writers, WriteToml(w) PROVE HolderOwnsFile'
  BY <1>9 DEF WriteToml, Doc, Apply, Goto, gateway, answers
<1>10. ASSUME NEW w \in Writers, Activate(w) PROVE HolderOwnsFile'
  BY <1>10 DEF Activate, Doc, Apply, Goto, disk, answers
<1>11. ASSUME NEW w \in Writers, Fail(w) PROVE HolderOwnsFile'
  BY <1>11 DEF Fail, Goto, disk, gateway, answers
<1>12. ASSUME NEW w \in Writers, Undo(w) PROVE HolderOwnsFile'
  BY <1>12 DEF Undo, NoSnap, Goto, gateway, answers
<1>13. ASSUME NEW w \in Writers, Restore(w) PROVE HolderOwnsFile'
  BY <1>13 DEF Restore, Refuse, Frees, Goto
<1>14. ASSUME NEW w \in Writers, Finish(w) PROVE HolderOwnsFile'
  BY <1>14 DEF Finish, Apply, NoSnap, Frees, Goto, disk, Complete, Syncs
<1>15. ASSUME NEW w \in Writers, ToolDies(w) PROVE HolderOwnsFile'
  BY <1>15 DEF ToolDies, Dies, NoSnap, disk, gateway, answers
<1>16. CASE Start
  BY <1>16 DEF Start, Read, StartCatalog, StartToml, disk, answers
<1>17. CASE Reload
  BY <1>17 DEF Reload, disk, answers
<1>18. CASE GatewayDies
  BY <1>18 DEF GatewayDies, Dies, NoSnap, disk, answers
<1>19. CASE UNCHANGED vars
  BY <1>19 DEF vars, disk, gateway, answers
<1> QED BY <1>1, <1>2, <1>3, <1>4, <1>5, <1>6, <1>7, <1>8, <1>9, <1>10, <1>11, <1>12, <1>13,
           <1>14, <1>15, <1>16, <1>17, <1>18, <1>19, <1>20 DEF Next, Write

(* The lock and the digest check of write_config make the holder the only  *)
(* one whose edit can be in progress, for any writers. *)
THEOREM StoreSafe == Spec => []StoreInv
<1>1. Init => StoreInv
  BY ConfigStoreAssumption, Kinds
     DEF Init, StoreInv, TypeOK, Documents, Steps, NoSnap, HolderOwnsFile, Inside, Before, After
<1>2. StoreInv /\ [Next]_vars => StoreInv'
  BY TypeStep, OwnerStep DEF StoreInv
<1> QED BY <1>1, <1>2, PTL DEF Spec

-----------------------------------------------------------------------------
(* The document as it is seen from outside the lock. *)
Committed == IF Pending THEN base[lock] ELSE file

(* An edit is in no document before its writer replaced the file.  This is *)
(* what makes a completed write a new edit. *)
Fresh ==
  \A w \in Writers :
    /\ w \notin base[w]
    /\ pc[w] # "ended" => w \notin acked
    /\ pc[w] \notin After \cup {"ended"} => w \notin file /\ \A v \in Writers : w \notin base[v]

(* Every step leaves the edits of waiting writers out of all documents. *)
LEMMA FreshStep ==
  ASSUME StoreInv, Fresh, [Next]_vars
  PROVE  Fresh'
<1> USE Kinds DEF StoreInv, TypeOK, Steps, HolderOwnsFile, Inside, Before, After, Doc, Apply, Fresh
<1>1. ASSUME NEW w \in Writers, Load(w) PROVE Fresh'
  BY <1>1 DEF Load, Goto, disk, answers
<1>2. ASSUME NEW w \in Writers, Validate(w) PROVE Fresh'
  BY <1>2 DEF Validate, Refuse, Frees, Goto, disk, answers
<1>20. ASSUME NEW w \in Writers, Decline(w) PROVE Fresh'
  BY <1>20 DEF Decline, Refuse, Frees, Goto, disk, answers
<1>3. ASSUME NEW w \in Writers, Acquire(w) PROVE Fresh'
  BY <1>3 DEF Acquire, Goto, disk, gateway, answers
<1>4. ASSUME NEW w \in Writers, Conflict(w) PROVE Fresh'
  BY <1>4 DEF Conflict, Refuse, Frees, Goto, disk, answers
<1>5. ASSUME NEW w \in Writers, FailEarly(w) PROVE Fresh'
  BY <1>5 DEF FailEarly, Refuse, Frees, Goto, disk, answers
<1>6. ASSUME NEW w \in Writers, Backup(w) PROVE Fresh'
  BY <1>6 DEF Backup, Goto, gateway, answers
<1>7. ASSUME NEW w \in Writers, Replace(w) PROVE Fresh'
  BY <1>7 DEF Replace, Doc, Apply, Goto, gateway, answers
<1>8. ASSUME NEW w \in Writers, WriteCatalog(w) PROVE Fresh'
  BY <1>8 DEF WriteCatalog, Doc, Apply, Goto, gateway, answers
<1>9. ASSUME NEW w \in Writers, WriteToml(w) PROVE Fresh'
  BY <1>9 DEF WriteToml, Doc, Apply, Goto, gateway, answers
<1>10. ASSUME NEW w \in Writers, Activate(w) PROVE Fresh'
  BY <1>10 DEF Activate, Doc, Apply, Goto, disk, answers
<1>11. ASSUME NEW w \in Writers, Fail(w) PROVE Fresh'
  BY <1>11 DEF Fail, Goto, disk, gateway, answers
<1>12. ASSUME NEW w \in Writers, Undo(w) PROVE Fresh'
  BY <1>12 DEF Undo, NoSnap, Goto, gateway, answers
<1>13. ASSUME NEW w \in Writers, Restore(w) PROVE Fresh'
  BY <1>13 DEF Restore, Refuse, Frees, Goto
<1>14. ASSUME NEW w \in Writers, Finish(w) PROVE Fresh'
  BY <1>14 DEF Finish, Apply, NoSnap, Frees, Goto, disk, Complete, Syncs
<1>15. ASSUME NEW w \in Writers, ToolDies(w) PROVE Fresh'
  BY <1>15 DEF ToolDies, Dies, NoSnap, disk, gateway, answers
<1>16. CASE Start
  BY <1>16 DEF Start, Read, StartCatalog, StartToml, disk, answers
<1>17. CASE Reload
  BY <1>17 DEF Reload, disk, answers
<1>18. CASE GatewayDies
  BY <1>18 DEF GatewayDies, Dies, NoSnap, disk, answers
<1>19. CASE UNCHANGED vars
  BY <1>19 DEF vars, disk, gateway, answers
<1> QED BY <1>1, <1>2, <1>3, <1>4, <1>5, <1>6, <1>7, <1>8, <1>9, <1>10, <1>11, <1>12, <1>13,
           <1>14, <1>15, <1>16, <1>17, <1>18, <1>19, <1>20 DEF Next, Write

(* A step of the document as seen from outside the lock: nothing, or one   *)
(* edit, whose writer ends and may be told of success. *)
CommitOrNothing ==
  \/ Committed' = Committed /\ acked' = acked
  \/ \E e \in Writers :
       /\ pc[e] # "ended" /\ pc'[e] = "ended" /\ e \notin Committed \cup acked
       /\ Committed' = Apply(Committed, e)
       /\ acked' \in {acked, acked \cup {e}}

(* Every step is one of these two. *)
LEMMA CommitStep ==
  ASSUME StoreInv, Fresh, [Next]_vars
  PROVE  CommitOrNothing
<1> USE Kinds DEF StoreInv, TypeOK, Steps, HolderOwnsFile, Inside, Before, After, Doc, Apply, Fresh,
             CommitOrNothing, Committed, Pending
<1>1. ASSUME NEW w \in Writers, Load(w) PROVE CommitOrNothing
  BY <1>1 DEF Load, Goto, disk, answers
<1>2. ASSUME NEW w \in Writers, Validate(w) PROVE CommitOrNothing
  BY <1>2 DEF Validate, Refuse, Frees, Goto, disk, answers
<1>20. ASSUME NEW w \in Writers, Decline(w) PROVE CommitOrNothing
  BY <1>20 DEF Decline, Refuse, Frees, Goto, disk, answers
<1>3. ASSUME NEW w \in Writers, Acquire(w) PROVE CommitOrNothing
  BY <1>3 DEF Acquire, Goto, disk, gateway, answers
<1>4. ASSUME NEW w \in Writers, Conflict(w) PROVE CommitOrNothing
  BY <1>4 DEF Conflict, Refuse, Frees, Goto, disk, answers
<1>5. ASSUME NEW w \in Writers, FailEarly(w) PROVE CommitOrNothing
  BY <1>5 DEF FailEarly, Refuse, Frees, Goto, disk, answers
<1>6. ASSUME NEW w \in Writers, Backup(w) PROVE CommitOrNothing
  BY <1>6 DEF Backup, Goto, gateway, answers
<1>7. ASSUME NEW w \in Writers, Replace(w) PROVE CommitOrNothing
  BY <1>7 DEF Replace, Doc, Apply, Goto, gateway, answers
<1>8. ASSUME NEW w \in Writers, WriteCatalog(w) PROVE CommitOrNothing
  BY <1>8 DEF WriteCatalog, Doc, Apply, Goto, gateway, answers
<1>9. ASSUME NEW w \in Writers, WriteToml(w) PROVE CommitOrNothing
  BY <1>9 DEF WriteToml, Doc, Apply, Goto, gateway, answers
<1>10. ASSUME NEW w \in Writers, Activate(w) PROVE CommitOrNothing
  BY <1>10 DEF Activate, Doc, Apply, Goto, disk, answers
<1>11. ASSUME NEW w \in Writers, Fail(w) PROVE CommitOrNothing
  BY <1>11 DEF Fail, Goto, disk, gateway, answers
<1>12. ASSUME NEW w \in Writers, Undo(w) PROVE CommitOrNothing
  BY <1>12 DEF Undo, NoSnap, Goto, gateway, answers
<1>13. ASSUME NEW w \in Writers, Restore(w) PROVE CommitOrNothing
  BY <1>13 DEF Restore, Refuse, Frees, Goto
<1>14. ASSUME NEW w \in Writers, Finish(w) PROVE CommitOrNothing
  BY <1>14 DEF Finish, Apply, NoSnap, Frees, Goto, disk, Complete, Syncs
<1>15. ASSUME NEW w \in Writers, ToolDies(w) PROVE CommitOrNothing
  BY <1>15 DEF ToolDies, Dies, NoSnap, disk, gateway, answers
<1>16. CASE Start
  BY <1>16 DEF Start, Read, StartCatalog, StartToml, disk, answers
<1>17. CASE Reload
  BY <1>17 DEF Reload, disk, answers
<1>18. CASE GatewayDies
  BY <1>18 DEF GatewayDies, Dies, NoSnap, disk, answers
<1>19. CASE UNCHANGED vars
  BY <1>19 DEF vars, disk, gateway, answers
<1> QED BY <1>1, <1>2, <1>3, <1>4, <1>5, <1>6, <1>7, <1>8, <1>9, <1>10, <1>11, <1>12, <1>13,
           <1>14, <1>15, <1>16, <1>17, <1>18, <1>19, <1>20 DEF Next, Write

(* Seen from outside the lock, the file grows by whole edits and keeps the *)
(* acknowledged ones: loads without the lock, failures and crashes at any  *)
(* step of write_config included. *)
THEOREM StoreIsAtomic == Spec => ImplementsAtomicConfig
<1>1. Init => StoreInv /\ Fresh
  BY ConfigStoreAssumption, Kinds
     DEF Init, StoreInv, TypeOK, Documents, Steps, NoSnap, HolderOwnsFile, Inside, Before, After,
         Fresh
<1>2. StoreInv /\ Fresh /\ [Next]_vars => StoreInv' /\ Fresh'
  BY TypeStep, OwnerStep, FreshStep DEF StoreInv
<1>3. Init => Store!Init
  BY Kinds DEF Init, Store!Init, Pending
<1>4. StoreInv /\ Fresh /\ [Next]_vars => [Store!Next]_(Store!avars)
  <2> SUFFICES ASSUME StoreInv, Fresh, [Next]_vars PROVE [Store!Next]_(Store!avars)
    OBVIOUS
  <2>1. CommitOrNothing
    BY CommitStep
  <2>2. CASE Committed' = Committed /\ acked' = acked
    BY <2>2 DEF Store!avars, Committed
  <2>3. CASE \E e \in Writers :
               /\ e \notin Committed \cup acked /\ Committed' = Apply(Committed, e)
               /\ acked' \in {acked, acked \cup {e}}
    BY <2>3 DEF Store!Next, Store!Commit, Committed, Apply
  <2> QED BY <2>1, <2>2, <2>3 DEF CommitOrNothing
<1> QED BY <1>1, <1>2, <1>3, <1>4, PTL DEF Spec, ImplementsAtomicConfig, Store!Spec

-----------------------------------------------------------------------------
(* A gateway handler is in progress only while the gateway is up, and      *)
(* blocks its thread from its write on. *)
Engaged ==
  \A w \in Gateway :
    /\ pc[w] \notin {"idle", "ended"} => stage = "up"
    /\ pc[w] \notin {"idle", "loaded", "ended"} => turn = w

(* Every step keeps the gateway's handlers within its life. *)
LEMMA EngagedStep ==
  ASSUME StoreInv, Engaged, [Next]_vars
  PROVE  Engaged'
<1> USE Kinds
    DEF StoreInv, TypeOK, Steps, HolderOwnsFile, Inside, Before, After, Doc, Apply, Engaged, MayRun
<1>1. ASSUME NEW w \in Writers, Load(w) PROVE Engaged'
  BY <1>1 DEF Load, Goto, disk, answers
<1>2. ASSUME NEW w \in Writers, Validate(w) PROVE Engaged'
  BY <1>2 DEF Validate, Refuse, Frees, Goto, disk, answers
<1>20. ASSUME NEW w \in Writers, Decline(w) PROVE Engaged'
  BY <1>20 DEF Decline, Refuse, Frees, Goto, disk, answers
<1>3. ASSUME NEW w \in Writers, Acquire(w) PROVE Engaged'
  BY <1>3 DEF Acquire, Goto, disk, gateway, answers
<1>4. ASSUME NEW w \in Writers, Conflict(w) PROVE Engaged'
  BY <1>4 DEF Conflict, Refuse, Frees, Goto, disk, answers
<1>5. ASSUME NEW w \in Writers, FailEarly(w) PROVE Engaged'
  BY <1>5 DEF FailEarly, Refuse, Frees, Goto, disk, answers
<1>6. ASSUME NEW w \in Writers, Backup(w) PROVE Engaged'
  BY <1>6 DEF Backup, Goto, gateway, answers
<1>7. ASSUME NEW w \in Writers, Replace(w) PROVE Engaged'
  BY <1>7 DEF Replace, Doc, Apply, Goto, gateway, answers
<1>8. ASSUME NEW w \in Writers, WriteCatalog(w) PROVE Engaged'
  BY <1>8 DEF WriteCatalog, Doc, Apply, Goto, gateway, answers
<1>9. ASSUME NEW w \in Writers, WriteToml(w) PROVE Engaged'
  BY <1>9 DEF WriteToml, Doc, Apply, Goto, gateway, answers
<1>10. ASSUME NEW w \in Writers, Activate(w) PROVE Engaged'
  BY <1>10 DEF Activate, Doc, Apply, Goto, disk, answers
<1>11. ASSUME NEW w \in Writers, Fail(w) PROVE Engaged'
  BY <1>11 DEF Fail, Goto, disk, gateway, answers
<1>12. ASSUME NEW w \in Writers, Undo(w) PROVE Engaged'
  BY <1>12 DEF Undo, NoSnap, Goto, gateway, answers
<1>13. ASSUME NEW w \in Writers, Restore(w) PROVE Engaged'
  BY <1>13 DEF Restore, Refuse, Frees, Goto
<1>14. ASSUME NEW w \in Writers, Finish(w) PROVE Engaged'
  BY <1>14 DEF Finish, Apply, NoSnap, Frees, Goto, disk, Complete, Syncs
<1>15. ASSUME NEW w \in Writers, ToolDies(w) PROVE Engaged'
  BY <1>15 DEF ToolDies, Dies, NoSnap, disk, gateway, answers
<1>16. CASE Start
  BY <1>16 DEF Start, Read, StartCatalog, StartToml, disk, answers
<1>17. CASE Reload
  BY <1>17 DEF Reload, disk, answers
<1>18. CASE GatewayDies
  BY <1>18 DEF GatewayDies, Dies, NoSnap, disk, answers
<1>19. CASE UNCHANGED vars
  BY <1>19 DEF vars, disk, gateway, answers
<1> QED BY <1>1, <1>2, <1>3, <1>4, <1>5, <1>6, <1>7, <1>8, <1>9, <1>10, <1>11, <1>12, <1>13,
           <1>14, <1>15, <1>16, <1>17, <1>18, <1>19, <1>20 DEF Next, Write

(* Where the edit of a writer that has not ended may be found. *)
Untouched ==
  /\ \A w \in Writers : pc[w] # "ended" => w \notin bak
  /\ \A w \in Gateway :
       /\ pc[w] \notin {"activated", "ended"} => w \notin live
       /\ pc[w] \notin {"catalogued", "synced", "activated", "undo", "ended"} => w \notin catalog
       /\ pc[w] \notin {"synced", "activated", "undo", "ended"} => w \notin toml
       /\ pc[w] # "ended" => w \notin snap[1] /\ w \notin snap[2]

(* Where a refused edit may not be found, inside the lock too. *)
Traceless ==
  \A w \in refused :
    /\ pc[w] = "ended" /\ w \notin Committed /\ w \notin bak
    /\ w \in Gateway => /\ w \notin live /\ w \notin catalog /\ w \notin toml
                        /\ w \notin snap[1] /\ w \notin snap[2]

(* The reach of an Admin's activation, step by step. *)
Reached ==
  \A w \in Admins :
    /\ pc[w] \in {"catalogued", "synced", "activated"} => catalog = Doc(w)
    /\ pc[w] \in {"synced", "activated"} => toml = Doc(w)
    /\ pc[w] = "activated" => live = Doc(w)

(* What is acknowledged is saved, a selection until it is replaced. *)
Kept ==
  /\ acked \ Selecting \subseteq Committed
  /\ Selection(acked) # {} => Selection(Committed) # {}

(* What is acknowledged to an Admin is served, likewise. *)
Served ==
  stage # "down" =>
    /\ (acked \cap Admins) \ Selecting \subseteq live
    /\ Selection(acked \cap Admins) # {} => Selection(live) # {}

(* The causes of a drift between the served and the saved selection.  An   *)
(* Admin's activation is the one moment when the gateway is ahead. *)
Caused ==
  stage # "down" /\ (\A w \in Admins : pc[w] # "activated") =>
    \/ Selection(live) = Selection(Committed)
    \/ \E w \in Refreshers \cup stale : Selection(Committed) = {w}

(* The file is the document, or the holder's edit ahead of it. *)
LEMMA FileIsCommitted ==
  ASSUME StoreInv
  PROVE  \/ file = Committed /\ ~Pending
         \/ lock \in Writers /\ pc[lock] \in After /\ Pending /\ file = Apply(Committed, lock)
BY Kinds DEF StoreInv, HolderOwnsFile, Inside, Doc, Apply, Committed, Pending

(* Every step keeps the edits of unfinished writers where they belong. *)
LEMMA UntouchedStep ==
  ASSUME StoreInv, Fresh, Engaged, Untouched, [Next]_vars
  PROVE  Untouched'
<1> USE Kinds DEF StoreInv, TypeOK, Steps, HolderOwnsFile, Inside, Before, After, Doc, Apply, Fresh,
             Engaged, Untouched
<1>1. ASSUME NEW w \in Writers, Load(w) PROVE Untouched'
  BY <1>1 DEF Load, Goto, disk, answers
<1>2. ASSUME NEW w \in Writers, Validate(w) PROVE Untouched'
  BY <1>2 DEF Validate, Refuse, Frees, Goto, disk, answers
<1>20. ASSUME NEW w \in Writers, Decline(w) PROVE Untouched'
  BY <1>20 DEF Decline, Refuse, Frees, Goto, disk, answers
<1>3. ASSUME NEW w \in Writers, Acquire(w) PROVE Untouched'
  BY <1>3 DEF Acquire, Goto, disk, gateway, answers
<1>4. ASSUME NEW w \in Writers, Conflict(w) PROVE Untouched'
  BY <1>4 DEF Conflict, Refuse, Frees, Goto, disk, answers
<1>5. ASSUME NEW w \in Writers, FailEarly(w) PROVE Untouched'
  BY <1>5 DEF FailEarly, Refuse, Frees, Goto, disk, answers
<1>6. ASSUME NEW w \in Writers, Backup(w) PROVE Untouched'
  BY <1>6 DEF Backup, Goto, gateway, answers
<1>7. ASSUME NEW w \in Writers, Replace(w) PROVE Untouched'
  BY <1>7 DEF Replace, Doc, Apply, Goto, gateway, answers
<1>8. ASSUME NEW w \in Writers, WriteCatalog(w) PROVE Untouched'
  BY <1>8 DEF WriteCatalog, Doc, Apply, Goto, gateway, answers
<1>9. ASSUME NEW w \in Writers, WriteToml(w) PROVE Untouched'
  BY <1>9 DEF WriteToml, Doc, Apply, Goto, gateway, answers
<1>10. ASSUME NEW w \in Writers, Activate(w) PROVE Untouched'
  BY <1>10 DEF Activate, Doc, Apply, Goto, disk, answers
<1>11. ASSUME NEW w \in Writers, Fail(w) PROVE Untouched'
  BY <1>11 DEF Fail, Goto, disk, gateway, answers
<1>12. ASSUME NEW w \in Writers, Undo(w) PROVE Untouched'
  BY <1>12 DEF Undo, NoSnap, Goto, gateway, answers
<1>13. ASSUME NEW w \in Writers, Restore(w) PROVE Untouched'
  BY <1>13 DEF Restore, Refuse, Frees, Goto
<1>14. ASSUME NEW w \in Writers, Finish(w) PROVE Untouched'
  BY <1>14 DEF Finish, Apply, NoSnap, Frees, Goto, disk, Complete, Syncs
<1>15. ASSUME NEW w \in Writers, ToolDies(w) PROVE Untouched'
  BY <1>15 DEF ToolDies, Dies, NoSnap, disk, gateway, answers
<1>16. CASE Start
  BY <1>16 DEF Start, Read, StartCatalog, StartToml, disk, answers
<1>17. CASE Reload
  BY <1>17 DEF Reload, disk, answers
<1>18. CASE GatewayDies
  BY <1>18 DEF GatewayDies, Dies, NoSnap, disk, answers
<1>19. CASE UNCHANGED vars
  BY <1>19 DEF vars, disk, gateway, answers
<1> QED BY <1>1, <1>2, <1>3, <1>4, <1>5, <1>6, <1>7, <1>8, <1>9, <1>10, <1>11, <1>12, <1>13,
           <1>14, <1>15, <1>16, <1>17, <1>18, <1>19, <1>20 DEF Next, Write

(* Nobody interferes with an activation in progress. *)
LEMMA ReachedStep ==
  ASSUME StoreInv, Engaged, Reached, [Next]_vars
  PROVE  Reached'
<1> USE Kinds DEF StoreInv, TypeOK, Steps, HolderOwnsFile, Inside, Before, After, Doc, Apply, Engaged,
             Reached
<1>1. ASSUME NEW w \in Writers, Load(w) PROVE Reached'
  BY <1>1 DEF Load, Goto, disk, answers
<1>2. ASSUME NEW w \in Writers, Validate(w) PROVE Reached'
  BY <1>2 DEF Validate, Refuse, Frees, Goto, disk, answers
<1>20. ASSUME NEW w \in Writers, Decline(w) PROVE Reached'
  BY <1>20 DEF Decline, Refuse, Frees, Goto, disk, answers
<1>3. ASSUME NEW w \in Writers, Acquire(w) PROVE Reached'
  BY <1>3 DEF Acquire, Goto, disk, gateway, answers
<1>4. ASSUME NEW w \in Writers, Conflict(w) PROVE Reached'
  BY <1>4 DEF Conflict, Refuse, Frees, Goto, disk, answers
<1>5. ASSUME NEW w \in Writers, FailEarly(w) PROVE Reached'
  BY <1>5 DEF FailEarly, Refuse, Frees, Goto, disk, answers
<1>6. ASSUME NEW w \in Writers, Backup(w) PROVE Reached'
  BY <1>6 DEF Backup, Goto, gateway, answers
<1>7. ASSUME NEW w \in Writers, Replace(w) PROVE Reached'
  BY <1>7 DEF Replace, Doc, Apply, Goto, gateway, answers
<1>8. ASSUME NEW w \in Writers, WriteCatalog(w) PROVE Reached'
  BY <1>8 DEF WriteCatalog, Doc, Apply, Goto, gateway, answers
<1>9. ASSUME NEW w \in Writers, WriteToml(w) PROVE Reached'
  BY <1>9 DEF WriteToml, Doc, Apply, Goto, gateway, answers
<1>10. ASSUME NEW w \in Writers, Activate(w) PROVE Reached'
  BY <1>10 DEF Activate, Doc, Apply, Goto, disk, answers
<1>11. ASSUME NEW w \in Writers, Fail(w) PROVE Reached'
  BY <1>11 DEF Fail, Goto, disk, gateway, answers
<1>12. ASSUME NEW w \in Writers, Undo(w) PROVE Reached'
  BY <1>12 DEF Undo, NoSnap, Goto, gateway, answers
<1>13. ASSUME NEW w \in Writers, Restore(w) PROVE Reached'
  BY <1>13 DEF Restore, Refuse, Frees, Goto
<1>14. ASSUME NEW w \in Writers, Finish(w) PROVE Reached'
  BY <1>14 DEF Finish, Apply, NoSnap, Frees, Goto, disk, Complete, Syncs
<1>15. ASSUME NEW w \in Writers, ToolDies(w) PROVE Reached'
  BY <1>15 DEF ToolDies, Dies, NoSnap, disk, gateway, answers
<1>16. CASE Start
  BY <1>16 DEF Start, Read, StartCatalog, StartToml, disk, answers
<1>17. CASE Reload
  BY <1>17 DEF Reload, disk, answers
<1>18. CASE GatewayDies
  BY <1>18 DEF GatewayDies, Dies, NoSnap, disk, answers
<1>19. CASE UNCHANGED vars
  BY <1>19 DEF vars, disk, gateway, answers
<1> QED BY <1>1, <1>2, <1>3, <1>4, <1>5, <1>6, <1>7, <1>8, <1>9, <1>10, <1>11, <1>12, <1>13,
           <1>14, <1>15, <1>16, <1>17, <1>18, <1>19, <1>20 DEF Next, Write

(* Every step leaves nothing of a refused edit. *)
LEMMA TracelessStep ==
  ASSUME StoreInv, Fresh, Engaged, Untouched, Traceless, [Next]_vars
  PROVE  Traceless'
<1>0. CommitOrNothing
  BY CommitStep
<1> USE Kinds DEF StoreInv, TypeOK, Steps, HolderOwnsFile, Inside, Before, After, Doc, Apply, Fresh,
             Engaged, Untouched, Traceless, Documents
<1>1. ASSUME NEW w \in Writers, Load(w) PROVE Traceless'
  BY <1>1 DEF Load, Goto, disk, answers, Committed, Pending
<1>2. ASSUME NEW w \in Writers, Validate(w) PROVE Traceless'
  <2>1. Committed' = Committed /\ w \notin Committed
    BY <1>2 DEF Validate, Refuse, Frees, Goto, disk, answers, Committed, Pending
  <2> QED BY <2>1, <1>2 DEF Validate, Refuse, Frees, Goto, disk, answers
<1>20. ASSUME NEW w \in Writers, Decline(w) PROVE Traceless'
  <2>1. Committed' = Committed /\ w \notin Committed
    BY <1>20 DEF Decline, Refuse, Frees, Goto, disk, answers, Committed, Pending
  <2> QED BY <2>1, <1>20 DEF Decline, Refuse, Frees, Goto, disk, answers
<1>3. ASSUME NEW w \in Writers, Acquire(w) PROVE Traceless'
  BY <1>3 DEF Acquire, Goto, disk, gateway, answers, Committed, Pending
<1>4. ASSUME NEW w \in Writers, Conflict(w) PROVE Traceless'
  <2>1. Committed' = Committed /\ w \notin Committed
    BY <1>4 DEF Conflict, Refuse, Frees, Goto, disk, answers, Committed, Pending
  <2> QED BY <2>1, <1>4 DEF Conflict, Refuse, Frees, Goto, disk, answers
<1>5. ASSUME NEW w \in Writers, FailEarly(w) PROVE Traceless'
  <2>1. Committed' = Committed /\ w \notin Committed
    BY <1>5 DEF FailEarly, Refuse, Frees, Goto, disk, answers, Committed, Pending
  <2> QED BY <2>1, <1>5 DEF FailEarly, Refuse, Frees, Goto, disk, answers
<1>6. ASSUME NEW w \in Writers, Backup(w) PROVE Traceless'
  BY <1>6 DEF Backup, Goto, gateway, answers, Committed, Pending
<1>7. ASSUME NEW w \in Writers, Replace(w) PROVE Traceless'
  BY <1>7 DEF Replace, Doc, Apply, Goto, gateway, answers, Committed, Pending
<1>8. ASSUME NEW w \in Writers, WriteCatalog(w) PROVE Traceless'
  BY <1>8 DEF WriteCatalog, Doc, Apply, Goto, gateway, answers, Committed, Pending
<1>9. ASSUME NEW w \in Writers, WriteToml(w) PROVE Traceless'
  BY <1>9 DEF WriteToml, Doc, Apply, Goto, gateway, answers, Committed, Pending
<1>10. ASSUME NEW w \in Writers, Activate(w) PROVE Traceless'
  BY <1>10 DEF Activate, Doc, Apply, Goto, disk, answers, Committed, Pending
<1>11. ASSUME NEW w \in Writers, Fail(w) PROVE Traceless'
  BY <1>11 DEF Fail, Goto, disk, gateway, answers, Committed, Pending
<1>12. ASSUME NEW w \in Writers, Undo(w) PROVE Traceless'
  BY <1>12 DEF Undo, NoSnap, Goto, gateway, answers, Committed, Pending
<1>13. ASSUME NEW w \in Writers, Restore(w) PROVE Traceless'
  <2>1. Committed' = Committed /\ w \notin Committed
    BY <1>13 DEF Restore, Refuse, Frees, Goto, Committed, Pending
  <2> QED BY <2>1, <1>13 DEF Restore, Refuse, Frees, Goto
<1>14. ASSUME NEW w \in Writers, Finish(w) PROVE Traceless'
  BY <1>14 DEF Finish, Apply, NoSnap, Frees, Goto, disk, Complete, Syncs, Committed, Pending
<1>15. ASSUME NEW w \in Writers, ToolDies(w) PROVE Traceless'
  BY <1>0, <1>15 DEF CommitOrNothing, ToolDies, Dies, NoSnap, disk, gateway, answers
<1>16. CASE Start
  BY <1>16 DEF Start, Read, StartCatalog, StartToml, disk, answers, Committed, Pending
<1>17. CASE Reload
  BY <1>17 DEF Reload, disk, answers, Committed, Pending
<1>18. CASE GatewayDies
  BY <1>0, <1>18 DEF CommitOrNothing, GatewayDies, Dies, NoSnap, disk, answers
<1>19. CASE UNCHANGED vars
  BY <1>19 DEF vars, disk, gateway, answers, Committed, Pending
<1> QED BY <1>1, <1>2, <1>3, <1>4, <1>5, <1>6, <1>7, <1>8, <1>9, <1>10, <1>11, <1>12, <1>13,
           <1>14, <1>15, <1>16, <1>17, <1>18, <1>19, <1>20 DEF Next, Write

(* A committed edit leaves the others, or those of other fields, in place. *)
LEMMA KeptStep ==
  ASSUME CommitOrNothing, Kept
  PROVE  Kept'
BY DEF CommitOrNothing, Kept, Apply, Selection

(* Every step serves what is acknowledged to an Admin. *)
LEMMA ServedStep ==
  ASSUME StoreInv, Fresh, Engaged, Reached, Kept, Served, [Next]_vars
  PROVE  Served'
<1> USE Kinds DEF StoreInv, TypeOK, Steps, HolderOwnsFile, Inside, Before, After, Doc, Apply, Fresh,
             Engaged, Reached, Kept, Served, Committed, Pending, Selection
<1>1. ASSUME NEW w \in Writers, Load(w) PROVE Served'
  BY <1>1 DEF Load, Goto, disk, answers
<1>2. ASSUME NEW w \in Writers, Validate(w) PROVE Served'
  BY <1>2 DEF Validate, Refuse, Frees, Goto, disk, answers
<1>20. ASSUME NEW w \in Writers, Decline(w) PROVE Served'
  BY <1>20 DEF Decline, Refuse, Frees, Goto, disk, answers
<1>3. ASSUME NEW w \in Writers, Acquire(w) PROVE Served'
  BY <1>3 DEF Acquire, Goto, disk, gateway, answers
<1>4. ASSUME NEW w \in Writers, Conflict(w) PROVE Served'
  BY <1>4 DEF Conflict, Refuse, Frees, Goto, disk, answers
<1>5. ASSUME NEW w \in Writers, FailEarly(w) PROVE Served'
  BY <1>5 DEF FailEarly, Refuse, Frees, Goto, disk, answers
<1>6. ASSUME NEW w \in Writers, Backup(w) PROVE Served'
  BY <1>6 DEF Backup, Goto, gateway, answers
<1>7. ASSUME NEW w \in Writers, Replace(w) PROVE Served'
  BY <1>7 DEF Replace, Doc, Apply, Goto, gateway, answers
<1>8. ASSUME NEW w \in Writers, WriteCatalog(w) PROVE Served'
  BY <1>8 DEF WriteCatalog, Doc, Apply, Goto, gateway, answers
<1>9. ASSUME NEW w \in Writers, WriteToml(w) PROVE Served'
  BY <1>9 DEF WriteToml, Doc, Apply, Goto, gateway, answers
<1>10. ASSUME NEW w \in Writers, Activate(w) PROVE Served'
  BY <1>10 DEF Activate, Doc, Apply, Goto, disk, answers
<1>11. ASSUME NEW w \in Writers, Fail(w) PROVE Served'
  BY <1>11 DEF Fail, Goto, disk, gateway, answers
<1>12. ASSUME NEW w \in Writers, Undo(w) PROVE Served'
  BY <1>12 DEF Undo, NoSnap, Goto, gateway, answers
<1>13. ASSUME NEW w \in Writers, Restore(w) PROVE Served'
  BY <1>13 DEF Restore, Refuse, Frees, Goto
<1>14. ASSUME NEW w \in Writers, Finish(w) PROVE Served'
  BY <1>14 DEF Finish, Apply, NoSnap, Frees, Goto, disk, Complete, Syncs
<1>15. ASSUME NEW w \in Writers, ToolDies(w) PROVE Served'
  BY <1>15 DEF ToolDies, Dies, NoSnap, disk, gateway, answers
<1>16. CASE Start
  BY <1>16 DEF Start, Read, StartCatalog, StartToml, disk, answers
<1>17. CASE Reload
  BY <1>17 DEF Reload, disk, answers
<1>18. CASE GatewayDies
  BY <1>18 DEF GatewayDies, Dies, NoSnap, disk, answers
<1>19. CASE UNCHANGED vars
  BY <1>19 DEF vars, disk, gateway, answers
<1> QED BY <1>1, <1>2, <1>3, <1>4, <1>5, <1>6, <1>7, <1>8, <1>9, <1>10, <1>11, <1>12, <1>13,
           <1>14, <1>15, <1>16, <1>17, <1>18, <1>19, <1>20 DEF Next, Write

(* Every step that sets the served and the saved selection apart is the    *)
(* write of a replaced configuration's recorder or of a refresh. *)
LEMMA CausedStep ==
  ASSUME StoreInv, Fresh, Engaged, Reached, Caused, [Next]_vars
  PROVE  Caused'
<1> USE Kinds DEF StoreInv, TypeOK, Steps, HolderOwnsFile, Inside, Before, After, Doc, Apply, Fresh,
             Engaged, Reached, Caused, Committed, Pending, Selection
<1>1. ASSUME NEW w \in Writers, Load(w) PROVE Caused'
  BY <1>1 DEF Load, Goto, disk, answers
<1>2. ASSUME NEW w \in Writers, Validate(w) PROVE Caused'
  BY <1>2 DEF Validate, Refuse, Frees, Goto, disk, answers
<1>20. ASSUME NEW w \in Writers, Decline(w) PROVE Caused'
  BY <1>20 DEF Decline, Refuse, Frees, Goto, disk, answers
<1>3. ASSUME NEW w \in Writers, Acquire(w) PROVE Caused'
  BY <1>3 DEF Acquire, Goto, disk, gateway, answers
<1>4. ASSUME NEW w \in Writers, Conflict(w) PROVE Caused'
  BY <1>4 DEF Conflict, Refuse, Frees, Goto, disk, answers
<1>5. ASSUME NEW w \in Writers, FailEarly(w) PROVE Caused'
  BY <1>5 DEF FailEarly, Refuse, Frees, Goto, disk, answers
<1>6. ASSUME NEW w \in Writers, Backup(w) PROVE Caused'
  BY <1>6 DEF Backup, Goto, gateway, answers
<1>7. ASSUME NEW w \in Writers, Replace(w) PROVE Caused'
  BY <1>7 DEF Replace, Doc, Apply, Goto, gateway, answers
<1>8. ASSUME NEW w \in Writers, WriteCatalog(w) PROVE Caused'
  BY <1>8 DEF WriteCatalog, Doc, Apply, Goto, gateway, answers
<1>9. ASSUME NEW w \in Writers, WriteToml(w) PROVE Caused'
  BY <1>9 DEF WriteToml, Doc, Apply, Goto, gateway, answers
<1>10. ASSUME NEW w \in Writers, Activate(w) PROVE Caused'
  BY <1>10 DEF Activate, Doc, Apply, Goto, disk, answers
<1>11. ASSUME NEW w \in Writers, Fail(w) PROVE Caused'
  BY <1>11 DEF Fail, Goto, disk, gateway, answers
<1>12. ASSUME NEW w \in Writers, Undo(w) PROVE Caused'
  BY <1>12 DEF Undo, NoSnap, Goto, gateway, answers
<1>13. ASSUME NEW w \in Writers, Restore(w) PROVE Caused'
  BY <1>13 DEF Restore, Refuse, Frees, Goto
<1>14. ASSUME NEW w \in Writers, Finish(w) PROVE Caused'
  BY <1>14 DEF Finish, Apply, NoSnap, Frees, Goto, disk, Complete, Syncs
<1>15. ASSUME NEW w \in Writers, ToolDies(w) PROVE Caused'
  BY <1>15 DEF ToolDies, Dies, NoSnap, disk, gateway, answers
<1>16. CASE Start
  BY <1>16 DEF Start, Read, StartCatalog, StartToml, disk, answers
<1>17. CASE Reload
  BY <1>17 DEF Reload, disk, answers
<1>18. CASE GatewayDies
  BY <1>18 DEF GatewayDies, Dies, NoSnap, disk, answers
<1>19. CASE UNCHANGED vars
  BY <1>19 DEF vars, disk, gateway, answers
<1> QED BY <1>1, <1>2, <1>3, <1>4, <1>5, <1>6, <1>7, <1>8, <1>9, <1>10, <1>11, <1>12, <1>13,
           <1>14, <1>15, <1>16, <1>17, <1>18, <1>19, <1>20 DEF Next, Write

(* The inductive invariant behind the three properties of the activation.  *)
ActivationInv ==
  /\ StoreInv /\ Fresh /\ Engaged /\ Untouched /\ Traceless /\ Reached
  /\ Kept /\ Served /\ Caused

(* It holds for any writers, attempts and crashes. *)
LEMMA ActivationSafe == Spec => []ActivationInv
<1>1. Init => ActivationInv
  <2> SUFFICES ASSUME Init PROVE ActivationInv
    OBVIOUS
  <2>1. StoreInv
    BY ConfigStoreAssumption, Kinds
       DEF Init, StoreInv, TypeOK, Documents, Steps, NoSnap, HolderOwnsFile, Inside, Before, After
  <2>2. Fresh /\ Engaged /\ Untouched /\ Reached
    BY Kinds DEF Init, Fresh, Engaged, Untouched, Reached, NoSnap
  <2>3. Traceless /\ Kept /\ Served /\ Caused
    BY Kinds DEF Init, Traceless, Kept, Served, Caused, Selection, Committed, Pending
  <2> QED BY <2>1, <2>2, <2>3 DEF ActivationInv
<1>2. ActivationInv /\ [Next]_vars => ActivationInv'
  <2> SUFFICES ASSUME ActivationInv, [Next]_vars PROVE ActivationInv'
    OBVIOUS
  <2>1. /\ StoreInv /\ Fresh /\ Engaged /\ Untouched /\ Traceless /\ Reached
        /\ Kept /\ Served /\ Caused
    BY DEF ActivationInv
  <2>2. StoreInv'
    BY <2>1, TypeStep, OwnerStep DEF StoreInv
  <2>3. Fresh' /\ Engaged'
    BY <2>1, FreshStep, EngagedStep
  <2>4. Untouched' /\ Traceless'
    BY <2>1, UntouchedStep, TracelessStep
  <2>5. Reached' /\ Served' /\ Caused'
    BY <2>1, ReachedStep, ServedStep, CausedStep
  <2>6. Kept'
    BY <2>1, CommitStep, KeptStep
  <2> QED BY <2>2, <2>3, <2>4, <2>5, <2>6 DEF ActivationInv
<1> QED BY <1>1, <1>2, PTL DEF Spec

(* A refused edit leaves no trace in the file, its backup, the gateway or  *)
(* a Codex file: the compensation of write_config and of the Codex files   *)
(* is complete wherever the failure struck. *)
THEOREM RefusalsAreUndone == Spec => []RefusalLeavesNoTrace
<1>1. ActivationInv => RefusalLeavesNoTrace
  <2> SUFFICES ASSUME ActivationInv, lock = None,
                      NEW w \in refused
               PROVE  /\ w \notin file /\ w \notin bak
                      /\ w \in Gateway => w \notin live /\ w \notin catalog /\ w \notin toml
    BY DEF RefusalLeavesNoTrace
  <2>1. file = Committed
    BY Kinds, FileIsCommitted DEF ActivationInv, Pending
  <2> QED BY <2>1 DEF ActivationInv, Traceless
<1> QED BY <1>1, ActivationSafe, PTL

(* What a restart would serve is what the gateway serves, but for a        *)
(* selection that a recorder of a replaced configuration or a Sub2API      *)
(* refresh has written over: for any number of them, and of failures,      *)
(* retries, reloads and crashes. *)
THEOREM DriftsAreExplained == Spec => []DriftHasACause
<1>1. ActivationInv => DriftHasACause
  <2> SUFFICES ASSUME ActivationInv, stage = "up", lock \notin Gateway PROVE DriftHasACause
    BY DEF DriftHasACause
  <2>1. Selection(file) = Selection(Committed)
    <3>1. CASE file = Committed
      BY <3>1
    <3>2. CASE lock \in Writers /\ file = Apply(Committed, lock)
      BY <3>2, Kinds DEF Apply, Selection
    <3> QED BY <3>1, <3>2, FileIsCommitted DEF ActivationInv
  <2>2. \A w \in Admins : pc[w] # "activated"
    BY Kinds DEF ActivationInv, StoreInv, HolderOwnsFile, Inside, After
  <2>3. Served /\ Caused
    BY DEF ActivationInv
  <2> QED BY <2>1, <2>2, <2>3 DEF Served, Caused, DriftHasACause
<1> QED BY <1>1, ActivationSafe, PTL

(* A step that tells an Admin of success. *)
Reaches ==
  \A w \in Admins :
    w \in acked' \ acked => /\ file' = live' /\ file' = catalog' /\ file' = toml'
                           /\ w \in file'

(* An Admin request is told of success only when the file, the gateway and *)
(* both Codex files are on its document. *)
THEOREM SuccessReachesAll == Spec => SuccessIsEverywhere
<1>1. ActivationInv /\ [Next]_vars => [Reaches]_vars
  <2> SUFFICES ASSUME ActivationInv, Next PROVE Reaches
    OBVIOUS
  <2> SUFFICES ASSUME NEW w \in Admins, w \in acked', w \notin acked
               PROVE  file' = live' /\ file' = catalog' /\ file' = toml' /\ w \in file'
    BY DEF Reaches
  <2>1. PICK v \in Writers : Finish(v)
    BY DEF Next, Write, Load, Validate, Decline, Acquire, Conflict, FailEarly, Refuse, Backup, Replace,
           WriteCatalog, WriteToml, Activate, Fail, Undo, Restore, ToolDies, Dies, Start, Read,
           StartCatalog, StartToml, Reload, GatewayDies, answers
  <2>2. v = w /\ pc[w] = "activated" /\ UNCHANGED <<file, catalog, toml>> /\ live' = live
    BY <2>1, Kinds DEF Finish, Complete, disk
  <2>3. file = Doc(w) /\ catalog = Doc(w) /\ toml = Doc(w) /\ live = Doc(w)
    BY <2>2, Kinds DEF ActivationInv, Reached, StoreInv, HolderOwnsFile, After
  <2> QED BY <2>2, <2>3 DEF Doc, Apply
<1>2. [][Reaches]_vars => SuccessIsEverywhere
  BY DEF Reaches, SuccessIsEverywhere
<1> QED BY <1>1, <1>2, ActivationSafe, PTL DEF Spec
-----------------------------------------------------------------------------
(* The backup is what the holder of the lock loaded from the moment it was *)
(* taken; what is not in it is one edit, and what the file lacks of it is  *)
(* the one selection which that edit replaced. *)
KeptBehind ==
  /\ \A w \in Writers : pc[w] \in {"saved"} \cup After => bak = base[w]
  /\ \A v, w \in Selection(file) : v = w
  /\ \A u \in Writers : \A v, w \in Selection(base[u]) : v = w
  /\ \A v, w \in file \ bak : v = w
  /\ bak \ file \subseteq Selecting
  /\ \A v, w \in bak \ file : v = w

(* Every step keeps the backup at most one edit behind.                    *)
LEMMA BehindStep ==
  ASSUME StoreInv, KeptBehind, [Next]_vars
  PROVE  KeptBehind'
<1> USE Kinds DEF StoreInv, TypeOK, Steps, HolderOwnsFile, Inside, Before, After, Doc, Apply, KeptBehind,
             Selection
<1>1. ASSUME NEW w \in Writers, Load(w) PROVE KeptBehind'
  BY <1>1 DEF Load, Goto, disk, answers
<1>2. ASSUME NEW w \in Writers, Validate(w) PROVE KeptBehind'
  BY <1>2 DEF Validate, Refuse, Frees, Goto, disk, answers
<1>20. ASSUME NEW w \in Writers, Decline(w) PROVE KeptBehind'
  BY <1>20 DEF Decline, Refuse, Frees, Goto, disk, answers
<1>3. ASSUME NEW w \in Writers, Acquire(w) PROVE KeptBehind'
  BY <1>3 DEF Acquire, Goto, disk, gateway, answers
<1>4. ASSUME NEW w \in Writers, Conflict(w) PROVE KeptBehind'
  BY <1>4 DEF Conflict, Refuse, Frees, Goto, disk, answers
<1>5. ASSUME NEW w \in Writers, FailEarly(w) PROVE KeptBehind'
  BY <1>5 DEF FailEarly, Refuse, Frees, Goto, disk, answers
<1>6. ASSUME NEW w \in Writers, Backup(w) PROVE KeptBehind'
  BY <1>6 DEF Backup, Goto, gateway, answers
<1>7. ASSUME NEW w \in Writers, Replace(w) PROVE KeptBehind'
  BY <1>7 DEF Replace, Doc, Apply, Goto, gateway, answers
<1>8. ASSUME NEW w \in Writers, WriteCatalog(w) PROVE KeptBehind'
  BY <1>8 DEF WriteCatalog, Doc, Apply, Goto, gateway, answers
<1>9. ASSUME NEW w \in Writers, WriteToml(w) PROVE KeptBehind'
  BY <1>9 DEF WriteToml, Doc, Apply, Goto, gateway, answers
<1>10. ASSUME NEW w \in Writers, Activate(w) PROVE KeptBehind'
  BY <1>10 DEF Activate, Doc, Apply, Goto, disk, answers
<1>11. ASSUME NEW w \in Writers, Fail(w) PROVE KeptBehind'
  BY <1>11 DEF Fail, Goto, disk, gateway, answers
<1>12. ASSUME NEW w \in Writers, Undo(w) PROVE KeptBehind'
  BY <1>12 DEF Undo, NoSnap, Goto, gateway, answers
<1>13. ASSUME NEW w \in Writers, Restore(w) PROVE KeptBehind'
  BY <1>13 DEF Restore, Refuse, Frees, Goto
<1>14. ASSUME NEW w \in Writers, Finish(w) PROVE KeptBehind'
  BY <1>14 DEF Finish, Apply, NoSnap, Frees, Goto, disk, Complete, Syncs
<1>15. ASSUME NEW w \in Writers, ToolDies(w) PROVE KeptBehind'
  BY <1>15 DEF ToolDies, Dies, NoSnap, disk, gateway, answers
<1>16. CASE Start
  BY <1>16 DEF Start, Read, StartCatalog, StartToml, disk, answers
<1>17. CASE Reload
  BY <1>17 DEF Reload, disk, answers
<1>18. CASE GatewayDies
  BY <1>18 DEF GatewayDies, Dies, NoSnap, disk, answers
<1>19. CASE UNCHANGED vars
  BY <1>19 DEF vars, disk, gateway, answers
<1> QED BY <1>1, <1>2, <1>3, <1>4, <1>5, <1>6, <1>7, <1>8, <1>9, <1>10, <1>11, <1>12, <1>13,
           <1>14, <1>15, <1>16, <1>17, <1>18, <1>19, <1>20 DEF Next, Write

(* Whatever was acknowledged is in the file at every moment, also while a  *)
(* write is in progress or is being undone, until a later selection        *)
(* replaces it; the backup beside it lacks at most the last edit and has   *)
(* at most the selection which that edit replaced: whichever of the two    *)
(* survives an accident, no more than one acknowledged change is gone. *)
BackupIsOneBehind ==
  /\ acked \ Selecting \subseteq file
  /\ Selection(acked) # {} => Selection(file) # {}
  /\ \A v, w \in file \ bak : v = w
  /\ bak \ file \subseteq Selecting
  /\ \A v, w \in bak \ file : v = w

(* Failed writes and crashes at any step of write_config included. *)
THEOREM AtMostOneEditIsAtRisk == Spec => []BackupIsOneBehind
<1> DEFINE Inv == StoreInv /\ Fresh /\ KeptBehind /\ Kept
<1>1. Init => Inv
  <2>1. Init => StoreInv /\ Fresh
    BY ConfigStoreAssumption, Kinds
       DEF Init, StoreInv, TypeOK, Documents, Steps, NoSnap, HolderOwnsFile, Inside, Before, After,
           Fresh
  <2>2. Init => KeptBehind BY DEF Init, KeptBehind, After, Selection
  <2>3. Init => Kept BY DEF Init, Kept, Selection
  <2> QED BY <2>1, <2>2, <2>3
<1>2. Inv /\ [Next]_vars => Inv'
  <2> SUFFICES ASSUME Inv, [Next]_vars PROVE Inv'
    OBVIOUS
  <2>1. StoreInv' /\ Fresh' /\ KeptBehind'
    BY TypeStep, OwnerStep, FreshStep, BehindStep DEF StoreInv
  <2>2. Kept' BY CommitStep, KeptStep
  <2> QED BY <2>1, <2>2
<1>3. Inv => BackupIsOneBehind
  <2> SUFFICES ASSUME Inv PROVE BackupIsOneBehind
    OBVIOUS
  <2>1. \/ file = Committed
        \/ file = Apply(Committed, lock)
    BY FileIsCommitted
  <2>2. /\ acked \ Selecting \subseteq file
        /\ Selection(acked) # {} => Selection(file) # {}
    BY <2>1 DEF Kept, Apply, Selection
  <2> QED BY <2>2 DEF KeptBehind, BackupIsOneBehind
<1> QED BY <1>1, <1>2, <1>3, PTL DEF Spec

=============================================================================
