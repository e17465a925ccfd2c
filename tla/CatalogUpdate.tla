---------------------------- MODULE CatalogUpdate ----------------------------
(***************************************************************************)
(* The HTTP updateSpace (POST /space/{db}/{space}, cluster_api.go) beside  *)
(* the catalog's handlers: it calls updateSpaceService with the request    *)
(* body as temp.  updateSpaceService locks LockSpaceKey(db, space), a lock *)
(* of its own and not createSpaceService's "space", reads the db id and    *)
(* the space by name, applies the body, notifies the partitions the body   *)
(* lists and writes the space back with updateSpace (Update, a put).       *)
(*                                                                         *)
(* The body is abstracted to its enabled field; its name is the space's    *)
(* own, and the checks of its other fields, the schema merge and the       *)
(* UpdatePartition calls are the error outcome of the write step.          *)
(***************************************************************************)
EXTENDS Catalog

VARIABLES
    ulock,  \* holder of LockSpaceKey(db, space)
    uread   \* the space each updateSpace read, with the body applied

updVars == <<ulock, uread>>
allVars == <<vars, updVars>>

\* Lock LockSpaceKey, QueryDBName2Id and QuerySpaceByName: an unknown db or
\* space is an error, and the deferred Unlock runs.
UpdateSpaceRead(c, o) ==
    /\ o.kind = "updateSpace"
    /\ ulock = None
    /\ Start(c, o)
    /\ LET id == nameKey[o.db]
           s  == IF id = None THEN None ELSE SpaceNamed(id, o.sp)
       IN  IF s = None
           THEN /\ Done(c) /\ UNCHANGED <<rsid, updVars>>
           ELSE /\ rsid' = [rsid EXCEPT ![c] = s]
                /\ uread' = [uread EXCEPT ![c] =
                               [spaceKey[s] EXCEPT !.enabled =
                                  IF o.enabled = "unset" THEN @ ELSE o.enabled]]
                /\ ulock' = c
                /\ pc' = [pc EXCEPT ![c] = "usWrite"]
    /\ UNCHANGED <<storeVars, faultVars, rid, rbody>>

\* The rest of updateSpaceService: the checks of the body, the schema merge
\* and UpdatePartition to the leader of every partition of the body may
\* fail and return; else updateSpace puts the space read under its id.
\* The deferred Unlock releases LockSpaceKey.
UpdateSpaceWrite(c) ==
    /\ pc[c] = "usWrite"
    /\ \/ spaceKey' = [spaceKey EXCEPT ![rsid[c]] = uread[c]]
       \/ UNCHANGED spaceKey
    /\ ulock' = None
    /\ Done(c)
    /\ UNCHANGED <<faultVars, nameKey, idKey, bodyKey, dbSeq, spSeq, lock, op,
                   rid, rbody, rsid, nops, uread>>

\* The lease of LockSpaceKey lapses after a crash of its holder.
UpdateLeaseExpire ==
    /\ ulock # None
    /\ pc[ulock] # "usWrite"
    /\ ulock' = None
    /\ UNCHANGED <<vars, uread>>

InitU ==
    /\ Init
    /\ ulock = None
    /\ uread = [c \in Clients |-> None]

\* cleanLock deletes every key under the lock prefix, LockSpaceKey's too.
CleanLockU ==
    /\ CleanLock
    /\ ulock' = None
    /\ UNCHANGED uread

NextU ==
    \/ (HandlerStep \/ MasterCrash \/ LeaseExpire \/ Finished) /\ UNCHANGED updVars
    \/ CleanLockU
    \/ \E c \in Clients : \/ \E o \in Ops : UpdateSpaceRead(c, o)
                          \/ UpdateSpaceWrite(c)
    \/ UpdateLeaseExpire

SpecU == InitU /\ [][NextU]_allVars

=============================================================================
