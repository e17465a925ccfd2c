------------------------------ MODULE Catalog ------------------------------
(***************************************************************************)
(* The master's catalog of databases and spaces in its key-value store     *)
(* (src/master/cluster_service.go): createDBService, deleteDBService,      *)
(* updateDBIpList, and the steps of createSpaceService and                 *)
(* deleteSpaceService that read and write the db and space keys, run by    *)
(* concurrent HTTP handlers.                                               *)
(*                                                                         *)
(* A db is three keys, db/name/{name} -> id, db/id/{id} -> name and        *)
(* db/body/{id} -> the db with its allow-list Ps.  A space is its key      *)
(* space/{dbId}/{id}.  Placement and partition creation (Master) are       *)
(* abstracted to the outcome of createSpaceService after the key exists.   *)
(***************************************************************************)
EXTENDS Naturals, FiniteSets

CONSTANTS
    Clients,      \* HTTP handler instances
    DBNames,      \* db names requests carry
    SpaceNames,   \* space names requests carry
    IPs,          \* server addresses of the db allow-lists
    Servers,      \* the addresses of registered servers (QueryServers)
    MaxId,        \* bound on the ids the db and space sequences issue
    Ops,          \* the requests a handler may serve
    OpsPerClient, \* requests each handler serves in turn
    MaxCrash,     \* crashes of the master process explored
    MaxDelFail,   \* failed deferred Deletes of createSpaceService explored
    None          \* model value: an absent key, a free lock

Ids == 1..MaxId
DBRec == [name : DBNames, ps : SUBSET IPs]
SpaceRec == [db : Ids, name : SpaceNames, enabled : BOOLEAN]

ASSUME Servers \subseteq IPs /\ MaxId \in Nat /\ OpsPerClient \in Nat /\ None \notin DBNames \cup Clients

VARIABLES
    nameKey,   \* db/name/{name}
    idKey,     \* db/id/{id}
    bodyKey,   \* db/body/{id}
    spaceKey,  \* space/{dbId}/{id}, by space id
    dbSeq,     \* last id of DBIdSequence
    spSeq,     \* last id of SpaceIdSequence
    lock,      \* holder of the cluster lock "space" of createSpaceService
    pc,        \* the step each handler is at; "idle" between requests
    op,        \* the request each handler serves
    rid,       \* the db id it read
    rbody,     \* the db body it read, with its change applied
    rsid,      \* the space id it created or read
    nops,      \* requests served so far
    crashes,   \* crashes of the master process so far
    delFails   \* deferred Deletes of createSpaceService that failed so far

storeVars == <<nameKey, idKey, bodyKey, spaceKey, dbSeq, spSeq, lock>>
clientVars == <<pc, op, rid, rbody, rsid, nops>>
faultVars == <<crashes, delFails>>
vars == <<storeVars, clientVars, faultVars>>

\* Handler c takes request o.
Start(c, o) ==
    /\ pc[c] = "idle"
    /\ nops[c] < OpsPerClient
    /\ o \in Ops
    /\ op' = [op EXCEPT ![c] = o]
    /\ nops' = [nops EXCEPT ![c] = @ + 1]

\* The handler returns.
Done(c) == pc' = [pc EXCEPT ![c] = "idle"]

\* The live space of db id named sp; None when there is none.
SpaceNamed(id, sp) ==
    LET S == {s \in Ids : spaceKey[s] # None /\ spaceKey[s].db = id /\ spaceKey[s].name = sp}
    IN  IF S = {} THEN None ELSE CHOOSE s \in S : TRUE

-----------------------------------------------------------------------------
(* createDBService: validatePS of the allow-list, a new id from the        *)
(* sequence, then one transaction that checks the name and id keys and     *)
(* puts the three keys.                                                    *)

\* validatePS: an empty list passes; an address of no registered server is
\* "not found in cluster"; a registered one must answer IsLive, which may
\* fail (servers are not modelled here).
ValidatePSOutcomes(ps) ==
    IF ps = {} THEN {"ok"}
    ELSE IF ~(ps \subseteq Servers) THEN {"err"}
    ELSE {"ok", "err"}

CreateDB(c, o) ==
    /\ o.kind = "createDB"
    /\ Start(c, o)
    /\ \E v \in ValidatePSOutcomes(o.ps) :
       IF v = "err"
       THEN UNCHANGED <<nameKey, idKey, bodyKey, dbSeq>>
       ELSE LET id == dbSeq + 1 IN
            \* at the bound NewIDGenerate returns its error
            /\ dbSeq' = IF dbSeq < MaxId THEN id ELSE dbSeq
            /\ IF dbSeq = MaxId \/ nameKey[o.db] # None \/ idKey[id] # None
               THEN UNCHANGED <<nameKey, idKey, bodyKey>>
               ELSE /\ nameKey' = [nameKey EXCEPT ![o.db] = id]
                    /\ idKey' = [idKey EXCEPT ![id] = o.db]
                    /\ bodyKey' = [bodyKey EXCEPT ![id] = [name |-> o.db, ps |-> o.ps]]
    /\ Done(c)
    /\ UNCHANGED <<faultVars, spaceKey, spSeq, lock, rid, rbody, rsid>>

-----------------------------------------------------------------------------
(* deleteDBService.  The cluster lock is created and never locked.         *)

\* queryDBService: the name key, then the body.
DeleteDBQuery(c, o) ==
    /\ o.kind = "deleteDB"
    /\ Start(c, o)
    /\ LET id == nameKey[o.db] IN
       IF id = None \/ bodyKey[id] = None
       THEN /\ Done(c) /\ UNCHANGED <<rid, rbody>>
       ELSE /\ rid' = [rid EXCEPT ![c] = id]
            /\ rbody' = [rbody EXCEPT ![c] = bodyKey[id]]
            /\ pc' = [pc EXCEPT ![c] = "ddSpaces"]
    /\ UNCHANGED <<faultVars, storeVars, rsid>>

\* QuerySpaces of the db: DB_Not_Empty when it has a space.
DeleteDBSpaces(c) ==
    /\ pc[c] = "ddSpaces"
    /\ IF \E s \in Ids : spaceKey[s] # None /\ spaceKey[s].db = rid[c]
       THEN Done(c)
       ELSE pc' = [pc EXCEPT ![c] = "ddDelete"]
    /\ UNCHANGED <<faultVars, storeVars, op, rid, rbody, rsid, nops>>

\* One transaction deletes the id, name and body keys of the db read.
DeleteDBKeys(c) ==
    /\ pc[c] = "ddDelete"
    /\ idKey' = [idKey EXCEPT ![rid[c]] = None]
    /\ nameKey' = [nameKey EXCEPT ![rbody[c].name] = None]
    /\ bodyKey' = [bodyKey EXCEPT ![rid[c]] = None]
    /\ Done(c)
    /\ UNCHANGED <<faultVars, spaceKey, dbSeq, spSeq, lock, op, rid, rbody, rsid, nops>>

-----------------------------------------------------------------------------
(* updateDBIpList: read the name key and the body, edit Ps, put the body.  *)

DBIpListRead(c, o) ==
    /\ o.kind = "updateIp"
    /\ Start(c, o)
    /\ LET id == nameKey[o.db] IN
       IF id = None \/ bodyKey[id] = None
       THEN /\ Done(c) /\ UNCHANGED <<rid, rbody>>
       ELSE /\ rid' = [rid EXCEPT ![c] = id]
            /\ rbody' = [rbody EXCEPT ![c] =
                           [bodyKey[id] EXCEPT !.ps = IF o.m = "remove" THEN @ \ {o.ip}
                                                                       ELSE @ \cup {o.ip}]]
            /\ pc' = [pc EXCEPT ![c] = "ipWrite"]
    /\ UNCHANGED <<faultVars, storeVars, rsid>>

DBIpListWrite(c) ==
    /\ pc[c] = "ipWrite"
    /\ bodyKey' = [bodyKey EXCEPT ![rid[c]] = rbody[c]]
    /\ Done(c)
    /\ UNCHANGED <<faultVars, nameKey, idKey, spaceKey, dbSeq, spSeq, lock, op, rid, rbody, rsid, nops>>

-----------------------------------------------------------------------------
(* createSpaceService, its catalog steps.                                  *)

\* QueryDBName2Id.
CreateSpaceLookup(c, o) ==
    /\ o.kind = "createSpace"
    /\ Start(c, o)
    /\ LET id == nameKey[o.db] IN
       IF id = None
       THEN /\ Done(c) /\ UNCHANGED rid
       ELSE /\ rid' = [rid EXCEPT ![c] = id]
            /\ pc' = [pc EXCEPT ![c] = "csLock"]
    /\ UNCHANGED <<faultVars, storeVars, rbody, rsid>>

\* The lock "space" not taken: the steps below run unprotected.
CreateSpaceKeyNoLock(c) ==
    /\ pc[c] = "csLock"
    /\ IF SpaceNamed(rid[c], op[c].sp) # None \/ spSeq = MaxId
       THEN /\ Done(c)
            /\ UNCHANGED <<spaceKey, spSeq, rsid>>
       ELSE LET id == spSeq + 1 IN
            /\ spSeq' = id
            /\ spaceKey' = [spaceKey EXCEPT ![id] =
                              [db |-> rid[c], name |-> op[c].sp, enabled |-> FALSE]]
            /\ rsid' = [rsid EXCEPT ![c] = id]
            /\ pc' = [pc EXCEPT ![c] = "csFinish"]
    /\ UNCHANGED <<faultVars, nameKey, idKey, bodyKey, dbSeq, lock, op, rid, rbody, nops>>

\* An off-by-one in the use of NewIDGenerate: the last id issued is taken.
CreateSpaceKeyOldId(c) ==
    /\ pc[c] = "csLock"
    /\ lock = None
    /\ IF SpaceNamed(rid[c], op[c].sp) # None \/ spSeq = MaxId
       THEN /\ Done(c)
            /\ UNCHANGED <<spaceKey, spSeq, rsid, lock>>
       ELSE LET id == spSeq IN
            /\ spSeq' = id + 1
            /\ spaceKey' = [spaceKey EXCEPT ![id] =
                              [db |-> rid[c], name |-> op[c].sp, enabled |-> FALSE]]
            /\ rsid' = [rsid EXCEPT ![c] = id]
            /\ lock' = c
            /\ pc' = [pc EXCEPT ![c] = "csFinish"]
    /\ UNCHANGED <<faultVars, nameKey, idKey, bodyKey, dbSeq, op, rid, rbody, nops>>

\* Lock "space", the name check (DUP_SPACE), a new space id, and Create
\* of the space key, disabled.  The deferred Unlock releases the lock on
\* DUP_SPACE.
CreateSpaceKey(c) ==
    /\ pc[c] = "csLock"
    /\ lock = None
    /\ IF SpaceNamed(rid[c], op[c].sp) # None \/ spSeq = MaxId
       THEN /\ Done(c)
            /\ UNCHANGED <<spaceKey, spSeq, rsid, lock>>
       ELSE LET id == spSeq + 1 IN
            /\ spSeq' = id
            /\ spaceKey' = [spaceKey EXCEPT ![id] =
                              [db |-> rid[c], name |-> op[c].sp, enabled |-> FALSE]]
            /\ rsid' = [rsid EXCEPT ![c] = id]
            /\ lock' = c
            /\ pc' = [pc EXCEPT ![c] = "csFinish"]
    /\ UNCHANGED <<faultVars, nameKey, idKey, bodyKey, dbSeq, op, rid, rbody, nops>>

\* createSpaceService without its deferred delete: a failed create leaves
\* its key disabled.
CreateSpaceFinishKeep(c) ==
    /\ pc[c] = "csFinish"
    /\ \/ spaceKey' = [spaceKey EXCEPT ![rsid[c]] =
                         [db |-> rid[c], name |-> op[c].sp, enabled |-> TRUE]]
       \/ UNCHANGED spaceKey
    /\ lock' = IF lock = c THEN None ELSE lock
    /\ Done(c)
    /\ UNCHANGED <<faultVars, nameKey, idKey, bodyKey, dbSeq, spSeq, op, rid, rbody, rsid, nops>>

\* The rest of createSpaceService ends one of two ways: updateSpace writes
\* the space enabled (Update of the key), or an error makes the deferred
\* function delete the key of the space that is not enabled; an error of
\* that Delete is only logged and the key stays, disabled.  Then the lock
\* is released.
CreateSpaceFinish(c) ==
    /\ pc[c] = "csFinish"
    /\ \/ /\ spaceKey' = [spaceKey EXCEPT ![rsid[c]] =
                            [db |-> rid[c], name |-> op[c].sp, enabled |-> TRUE]]
          /\ UNCHANGED delFails
       \/ /\ spaceKey' = [spaceKey EXCEPT ![rsid[c]] = None]
          /\ UNCHANGED delFails
       \/ /\ delFails < MaxDelFail
          /\ delFails' = delFails + 1
          /\ UNCHANGED spaceKey
    /\ lock' = IF lock = c THEN None ELSE lock
    /\ Done(c)
    /\ UNCHANGED <<crashes, nameKey, idKey, bodyKey, dbSeq, spSeq, op, rid, rbody, rsid, nops>>

-----------------------------------------------------------------------------
(* deleteSpaceService: no lock.                                            *)

\* QueryDBName2Id and QuerySpaceByName; an absent space is an error.
DeleteSpaceRead(c, o) ==
    /\ o.kind = "deleteSpace"
    /\ Start(c, o)
    /\ LET id == nameKey[o.db] IN
       IF id = None \/ SpaceNamed(id, o.sp) = None
       THEN /\ Done(c) /\ UNCHANGED rsid
       ELSE /\ rsid' = [rsid EXCEPT ![c] = SpaceNamed(id, o.sp)]
            /\ pc' = [pc EXCEPT ![c] = "dsDelete"]
    /\ UNCHANGED <<faultVars, storeVars, rid, rbody>>

\* Delete of the space key; the DeletePartition calls that follow change
\* no catalog key.
DeleteSpaceKey(c) ==
    /\ pc[c] = "dsDelete"
    /\ spaceKey' = [spaceKey EXCEPT ![rsid[c]] = None]
    /\ Done(c)
    /\ UNCHANGED <<faultVars, nameKey, idKey, bodyKey, dbSeq, spSeq, lock, op, rid, rbody, rsid, nops>>

-----------------------------------------------------------------------------
(* The master process and the lock "space".                                *)

\* The master process dies and is restarted: every request in progress ends
\* where it was, and its deferred functions never run, neither
\* createSpaceService's delete of a space it did not enable nor its Unlock
\* of "space".  Each store write is one request or transaction and is not
\* cut.  The lock's key stays until its lease lapses.
MasterCrash ==
    /\ crashes < MaxCrash
    /\ crashes' = crashes + 1
    /\ pc' = [c \in Clients |-> "idle"]
    /\ UNCHANGED <<storeVars, op, rid, rbody, rsid, nops, delFails>>

\* The lease (NewLock's 300 s) of a lock whose holder is gone lapses.
LeaseExpire ==
    /\ lock # None
    /\ pc[lock] # "csFinish"
    /\ lock' = None
    /\ UNCHANGED <<faultVars, nameKey, idKey, bodyKey, spaceKey, dbSeq, spSeq, clientVars>>

\* cleanLock (GET /clean_lock): PrefixScan of the lock keys and a Delete of
\* each.  Its comment asks the operator to make sure no createSpace is
\* running; a failed scan or delete leaves the rest in place.
CleanLock ==
    /\ \A c \in Clients : pc[c] \notin {"csLock", "csFinish"}
    /\ lock' = None
    /\ UNCHANGED <<faultVars, nameKey, idKey, bodyKey, spaceKey, dbSeq, spSeq, clientVars>>

-----------------------------------------------------------------------------

Init ==
    /\ nameKey = [n \in DBNames |-> None]
    /\ idKey = [i \in Ids |-> None]
    /\ bodyKey = [i \in Ids |-> None]
    /\ spaceKey = [i \in Ids |-> None]
    /\ dbSeq = 0
    /\ spSeq = 0
    /\ lock = None
    /\ pc = [c \in Clients |-> "idle"]
    /\ op = [c \in Clients |-> CHOOSE o \in Ops : TRUE]
    /\ rid = [c \in Clients |-> 1]
    /\ rbody = [c \in Clients |-> [name |-> CHOOSE n \in DBNames : TRUE, ps |-> {}]]
    /\ rsid = [c \in Clients |-> 1]
    /\ nops = [c \in Clients |-> 0]
    /\ crashes = 0
    /\ delFails = 0

\* Every handler has served its requests.
Finished ==
    /\ \A c \in Clients : pc[c] = "idle" /\ nops[c] = OpsPerClient
    /\ UNCHANGED vars

\* A step of one of the handlers.
HandlerStep ==
    \E c \in Clients :
         \/ \E o \in Ops : \/ CreateDB(c, o) \/ DeleteDBQuery(c, o)
                          \/ DBIpListRead(c, o) \/ CreateSpaceLookup(c, o)
                          \/ DeleteSpaceRead(c, o)
         \/ DeleteDBSpaces(c) \/ DeleteDBKeys(c) \/ DBIpListWrite(c)
         \/ CreateSpaceKey(c) \/ CreateSpaceFinish(c) \/ DeleteSpaceKey(c)

Next ==
    \/ HandlerStep
    \/ MasterCrash \/ LeaseExpire \/ CleanLock
    \/ Finished

Spec == Init /\ [][Next]_vars

-----------------------------------------------------------------------------
(* Properties.                                                             *)

TypeOK ==
    /\ nameKey \in [DBNames -> Ids \cup {None}]
    /\ idKey \in [Ids -> DBNames \cup {None}]
    /\ bodyKey \in [Ids -> DBRec \cup {None}]
    /\ spaceKey \in [Ids -> SpaceRec \cup {None}]
    /\ dbSeq \in 0..MaxId /\ spSeq \in 0..MaxId
    /\ lock \in Clients \cup {None}
    /\ pc \in [Clients -> {"idle", "ddSpaces", "ddDelete", "ipWrite", "csLock",
                           "csFinish", "dsDelete"}]
    /\ op \in [Clients -> Ops]
    /\ rid \in [Clients -> Ids] /\ rsid \in [Clients -> Ids]
    /\ rbody \in [Clients -> DBRec]
    /\ nops \in [Clients -> 0..OpsPerClient]
    /\ crashes \in 0..MaxCrash
    /\ delFails \in 0..MaxDelFail

\* Space names are unique in a db (invariant 2 of the design), although
\* deleteSpaceService takes no lock and the updateSpace that enables a
\* space writes its key back after a concurrent delete: the cluster lock
\* "space" is held by createSpaceService from the name check until it has
\* enabled or deleted the space, so no second space of that name is
\* created in between.
SpaceNameUnique ==
    \A s, t \in Ids :
        (s # t /\ spaceKey[s] # None /\ spaceKey[t] # None)
            => ~(spaceKey[s].db = spaceKey[t].db /\ spaceKey[s].name = spaceKey[t].name)

\* The db keys agree: a name key and the id key it points at point at each
\* other and the body exists, and no body outlives its id key, as
\* createDBService writes the three and deleteDBService deletes them, each
\* in one transaction, and updateDBIpList only rewrites a body it found.
DBKeysAgree ==
    /\ \A n \in DBNames :
          nameKey[n] # None => idKey[nameKey[n]] = n /\ bodyKey[nameKey[n]] # None
    /\ \A i \in Ids : idKey[i] # None => nameKey[idKey[i]] = i
    /\ \A i \in Ids : bodyKey[i] # None => idKey[i] # None

\* The catalog is consistent: its db keys agree, and every space belongs to
\* a db that exists, as deleteDBService refuses a db that still has a
\* space (DB_Not_Empty) and, by its comment, locks the cluster while it
\* checks and deletes.
CatalogConsistent ==
    /\ DBKeysAgree
    /\ \A s \in Ids : spaceKey[s] # None => bodyKey[spaceKey[s].db] # None

\* Only a crash or a failed deferred Delete strands a space: when no
\* request is in progress, the space keys left disabled are no more than
\* the crashes of the master and the Deletes that failed.  A create that
\* fails deletes its key in a deferred function, and the lock "space"
\* (released by a lapsed lease or cleanLock only when its holder is gone)
\* keeps a second create from being between Create and enable at once.
\* The HTTP updateSpace, which writes back what it read, is in
\* CatalogUpdate.
StrandedOnlyByFault ==
    (\A c \in Clients : pc[c] = "idle")
        => Cardinality({s \in Ids : spaceKey[s] # None /\ ~spaceKey[s].enabled})
              <= crashes + delFails

=============================================================================
