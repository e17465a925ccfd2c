------------------------------ MODULE Master ------------------------------
(***************************************************************************)
(* The master's admin operations on one space (src/master/cluster_service *)
(* .go): createSpaceService, and ChangeMember with the updateSpaceService  *)
(* it calls, run by concurrent HTTP handlers against the partition servers *)
(* of PartitionServer and the master's key-value store.                    *)
(*                                                                         *)
(* The store is abstracted to the keys these operations touch: the space   *)
(* key (NoSpace when absent) and the partition keys, which hold the leader *)
(* a partition server registered (NoLeader when absent).                   *)
(***************************************************************************)
EXTENDS Naturals, FiniteSets, Sequences, SequencesExt, PlacementOps, PartitionServer

CONSTANTS
    ReplicaNum,  \* replica_num of the space
    Creates,     \* TRUE: createSpaceService creates the space;
                 \* FALSE: the space already exists with Layout
    Layout,      \* replicas of each partition of an existing space
    Admins,      \* HTTP handlers running ChangeMember
    Reqs,        \* ChangeMember requests they may carry
    NoSpace,     \* model value: the space key is absent
    NoAdmin,     \* model value: the space lock is free
    OpsPerAdmin, \* ChangeMember calls each admin handler makes in turn
    MaxFault,    \* bound on failed or lost RPCs
    Job,         \* what the admin handlers run: "change" (ChangeMember),
                 \* "recover" (RecoverFailServer) or "remove" (RemoveServerMeta)
    FailNode,    \* the failed server of the fail-server record
    NewNode,     \* newNodeAddr of RecoverFailServer
    NoRecord     \* model value: the fail-server key is absent

ASSUME ReplicaNum \in 1..Cardinality(Nodes) /\ Creates \in BOOLEAN
ASSUME Layout \in [Parts -> SUBSET Nodes] /\ MaxFault \in Nat /\ OpsPerAdmin \in Nat
ReqRec == [p : Parts, n : Nodes, m : {"add", "remove"}]
ASSUME Reqs \subseteq ReqRec /\ Job \in {"change", "recover", "remove"}
ASSUME FailNode \in Nodes /\ NewNode \in Nodes

\* RecoverFailServer and RemoveServerMeta loop over ChangeMember calls.
Loops == Job # "change"

\* Node.PartitionIds of the failed server, in ascending order, as
\* registerServerService lists them.
FailPids == SelectSeq([i \in Parts |-> i], LAMBDA p : FailNode \in Layout[p])

SpaceRec == [enabled : BOOLEAN, version : Nat, replicas : [Parts -> SUBSET Nodes]]

VARIABLES
    space,     \* the space key
    partKey,   \* the partition keys
    spLock,    \* holder of the lock LockSpaceKey(db, space)
    faults,    \* faults injected so far
    failRec,   \* the fail-server key of FailNode: its partition ids, or NoRecord
    \* createSpaceService
    cpc,       \* "idle", "place", "poll", "enable" or "done"
    cres,      \* "none", "ok" or "err": what createSpaceService returned
    count,     \* serverPartitions
    creplicas, \* partition.Replicas of the in-memory space
    cidx,      \* the partition being placed or polled
    launched,  \* the CreatePartition goroutines were started
    pending,   \* addresses each goroutine has still to call
    stuck,     \* goroutines blocked sending on errChain
    errChain,  \* errors buffered in errChain (capacity 1)
    createErr, \* some CreatePartition of createSpaceService failed
    \* ChangeMember, per admin handler
    apc,       \* "idle", "update", "write", "create", "member", "delete", "done"
    areq,      \* the request
    asnap,     \* the space as read at the start, with the change applied
    awrite,    \* the space updateSpaceService is about to write
    aldr,      \* partition.LeaderID read at the start
    ares,      \* "none"; "ok" while every call returned nil; "err" after
    aops,      \* ChangeMember calls started (runs, for the loops)
    \* RecoverFailServer / RemoveServerMeta, per admin handler
    ajob,      \* partition ids the loop has still to change
    rres,      \* "none", "ok" or "err": what the last run returned
    afault0    \* faults when the run began (history)

masterVars == <<space, partKey, spLock, faults, failRec>>
createVars == <<cpc, cres, count, creplicas, cidx, launched, pending, stuck,
                errChain, createErr>>
runVars    == <<ajob, rres, afault0>>
adminVars  == <<apc, areq, asnap, awrite, aldr, ares, aops, runVars>>
vars == <<psVars, masterVars, createVars, adminVars>>

\* Outcomes of client.CreatePartition at server n: "ok"; "lost", the
\* replica is created but the reply is lost and the retry Execute makes
\* gets PARTITION_DUPLICATE; "failed", server.CreatePartition fails and
\* the store is dropped; "err", the handler refuses or n is down.
CreateOutcomes(n, p) ==
    IF ~CreatePartitionOk(n, p) THEN {"err"}
    ELSE {"ok"} \cup (IF faults < MaxFault THEN {"lost", "failed"} ELSE {})

\* The state change of client.CreatePartition with outcome o.
CreatePartitionRPC(n, p, reps, o) ==
    /\ IF o \in {"ok", "lost"} THEN CreatePartitionEffect(n, p, reps)
                               ELSE UNCHANGED <<hosted, members>>
    /\ faults' = faults + (IF o \in {"lost", "failed"} THEN 1 ELSE 0)

-----------------------------------------------------------------------------
(* createSpaceService.                                                     *)

\* The deferred functions on an error return after the space key was
\* created: the key of a space that is not enabled is deleted, the lock
\* released.  An error of that Delete is only logged, and the disabled key
\* stays.  The goroutines already started go on.
CreateFails ==
    /\ space' \in {NoSpace, space}
    /\ cres' = "err"
    /\ cpc' = "done"

\* Lock, the name check, filterAndSortServer, the replica count check and
\* Create of the space key, disabled and with no replicas.
CreateStart ==
    /\ cpc = "idle"
    /\ IF space # NoSpace \/ ReplicaNum > Cardinality(Nodes)
       THEN /\ cres' = "err" /\ cpc' = "done"
            /\ UNCHANGED <<space, count>>
       ELSE /\ count' = FilterAndSortServer(Nodes, [p \in {} |-> {}])
            /\ space' = [enabled |-> FALSE, version |-> 1,
                         replicas |-> [p \in Parts |-> {}]]
            /\ cpc' = "place"
            /\ UNCHANGED cres
    /\ UNCHANGED <<psVars, partKey, spLock, faults, failRec, creplicas, cidx, launched,
                   pending, stuck, errChain, createErr, adminVars>>

\* generatePartitionsInfo for partition cidx.  IsLive fails for servers
\* that are down and, as a fault, for some that are up.  After the last
\* partition one goroutine per partition is started.
CreatePlace ==
    /\ cpc = "place"
    /\ \E kv \in KvLists(count), live \in SUBSET up :
         /\ live # up => faults < MaxFault
         /\ faults' = faults + (IF live # up THEN 1 ELSE 0)
         /\ LET chosen == GeneratePartitionsInfo(count, kv, live, ReplicaNum)
            IN  IF chosen = <<>>
                THEN /\ CreateFails
                     /\ UNCHANGED <<count, creplicas, cidx, launched, pending>>
                ELSE /\ count' = Bump(count, chosen)
                     /\ creplicas' = [creplicas EXCEPT ![cidx] = ToSet(chosen)]
                     /\ pending' = [pending EXCEPT ![cidx] = chosen]
                     /\ cidx' = IF cidx = NParts THEN 1 ELSE cidx + 1
                     /\ launched' = (cidx = NParts)
                     /\ cpc' = IF cidx = NParts THEN "poll" ELSE "place"
                     /\ UNCHANGED <<space, cres>>
    /\ UNCHANGED <<psVars, partKey, spLock, failRec, stuck, errChain, createErr, adminVars>>

\* The goroutine of partition p calls CreatePartition at its next address
\* with the in-memory space; an error is sent to errChain, and the send
\* blocks while the channel is full.
GoCreate(p) ==
    /\ launched
    /\ pending[p] # <<>>
    /\ p \notin stuck
    /\ \E o \in CreateOutcomes(Head(pending[p]), p) :
         /\ CreatePartitionRPC(Head(pending[p]), p, creplicas[p], o)
         /\ createErr' = (createErr \/ o # "ok")
         /\ IF o = "ok" \/ errChain = 0
            THEN /\ pending' = [pending EXCEPT ![p] = Tail(@)]
                 /\ errChain' = errChain + (IF o = "ok" THEN 0 ELSE 1)
                 /\ UNCHANGED stuck
            ELSE /\ stuck' = stuck \cup {p}
                 /\ UNCHANGED <<pending, errChain>>
    /\ UNCHANGED <<up, leader, env, space, partKey, spLock, failRec, cpc, cres, count,
                   creplicas, cidx, launched, adminVars>>

\* An off-by-one in the poll loop: it runs past the last partition.
CreatePollPastEnd ==
    /\ cpc = "poll"
    /\ errChain = 1 \/ partKey[cidx] # NoLeader
    /\ IF errChain = 1
       THEN /\ errChain' = 0
            /\ CreateFails
            /\ UNCHANGED cidx
       ELSE /\ cidx' = cidx + 1
            /\ cpc' = IF cidx = NParts THEN "enable" ELSE "poll"
            /\ UNCHANGED <<space, cres, errChain>>
    /\ UNCHANGED <<psVars, partKey, spLock, faults, failRec, count, creplicas, launched,
                   pending, stuck, createErr, adminVars>>

\* An off-by-one in the poll loop: the last partition is not waited for.
CreatePollSkipLast ==
    /\ cpc = "poll"
    /\ errChain = 1 \/ partKey[cidx] # NoLeader \/ cidx = NParts
    /\ IF errChain = 1
       THEN /\ errChain' = 0
            /\ CreateFails
            /\ UNCHANGED cidx
       ELSE /\ cidx' = IF cidx = NParts THEN cidx ELSE cidx + 1
            /\ cpc' = IF cidx = NParts THEN "enable" ELSE "poll"
            /\ UNCHANGED <<space, cres, errChain>>
    /\ UNCHANGED <<psVars, partKey, spLock, faults, failRec, count, creplicas, launched,
                   pending, stuck, createErr, adminVars>>

\* A blocked send completes once the channel has room.
GoUnblock(p) ==
    /\ p \in stuck
    /\ errChain = 0
    /\ errChain' = 1
    /\ stuck' = stuck \ {p}
    /\ pending' = [pending EXCEPT ![p] = Tail(@)]
    /\ UNCHANGED <<psVars, masterVars, cpc, cres, count, creplicas, cidx,
                   launched, createErr, adminVars>>
\* One iteration of the poll loop over partition cidx: an error in errChain
\* ends createSpaceService; a registered partition key moves on to the
\* next partition; otherwise it sleeps (a step that changes nothing).
CreatePoll ==
    /\ cpc = "poll"
    /\ errChain = 1 \/ partKey[cidx] # NoLeader
    /\ IF errChain = 1
       THEN /\ errChain' = 0
            /\ CreateFails
            /\ UNCHANGED cidx
       ELSE /\ cidx' = IF cidx = NParts THEN cidx ELSE cidx + 1
            /\ cpc' = IF cidx = NParts THEN "enable" ELSE "poll"
            /\ UNCHANGED <<space, cres, errChain>>
    /\ UNCHANGED <<psVars, partKey, spLock, faults, failRec, count, creplicas, launched,
                   pending, stuck, createErr, adminVars>>

\* QueryPartition finds no partition key yet: time.Sleep and try again.
CreatePollSleep ==
    /\ cpc = "poll"
    /\ errChain = 0
    /\ partKey[cidx] = NoLeader
    /\ UNCHANGED vars

\* Enabled is set and updateSpace writes the in-memory space with its
\* version incremented (Update of the space key).  When the Update fails
\* (a fault), Enabled is reset and the error returned: the deferred
\* delete runs.
CreateEnable ==
    /\ cpc = "enable"
    /\ \/ \* the createSpace handler set Version to 1; updateSpace increments it
          /\ space' = [enabled |-> TRUE, version |-> 2, replicas |-> creplicas]
          /\ cres' = "ok"
          /\ cpc' = "done"
          /\ UNCHANGED faults
       \/ /\ faults < MaxFault
          /\ faults' = faults + 1
          /\ CreateFails
    /\ UNCHANGED <<psVars, partKey, spLock, failRec, count, creplicas, cidx,
                   launched, pending, stuck, errChain, createErr, adminVars>>

\* registerPartitionService: the leader of a partition puts its partition
\* key.
RegisterPartition(p) ==
    /\ leader[p] # NoLeader
    /\ partKey[p] # leader[p]
    /\ partKey' = [partKey EXCEPT ![p] = leader[p]]
    /\ UNCHANGED <<psVars, space, spLock, faults, failRec, createVars, adminVars>>

-----------------------------------------------------------------------------
(* ChangeMember.                                                           *)

\* ChangeMember returns r.  Inside the loops of RecoverFailServer and
\* RemoveServerMeta the loop goes on after nil; an error panics
\* (RecoverFailServer) or returns (RemoveServerMeta).
CmEnds(a, r) ==
    /\ apc' = [apc EXCEPT ![a] = IF ~Loops THEN "done"
                                 ELSE IF r = "ok" THEN "next" ELSE "abort"]
    /\ ares' = [ares EXCEPT ![a] = IF @ = "err" THEN "err" ELSE r]

\* REMOVE of a node that is not a replica refused like a duplicate ADD.
CmBeginRemoveStrict(a, r) ==
    LET reps == space.replicas[r.p]
    IN  /\ areq' = [areq EXCEPT ![a] = r]
        /\ IF \/ partKey[r.p] = NoLeader
              \/ space = NoSpace
              \/ r.m = "add" /\ r.n \in reps
              \/ r.m = "remove" /\ r.n \notin reps
              \/ ~IsLive(partKey[r.p])
           THEN /\ CmEnds(a, "err")
                /\ UNCHANGED <<asnap, aldr>>
           ELSE /\ asnap' = [asnap EXCEPT ![a] =
                               [space EXCEPT !.replicas[r.p] =
                                  IF r.m = "add" THEN reps \cup {r.n}
                                                 ELSE reps \ {r.n}]]
                /\ aldr' = [aldr EXCEPT ![a] = partKey[r.p]]
                /\ apc' = [apc EXCEPT ![a] = "update"]
                /\ UNCHANGED ares

\* The start of ChangeMember with request r: QueryPartition,
\* QuerySpaceByID, the replica list of the partition in the space read (an
\* ADD of a node already there is an error), the leader read from the
\* partition key, and IsLive of that leader.
CmBegin(a, r) ==
    LET reps == space.replicas[r.p]
    IN  /\ areq' = [areq EXCEPT ![a] = r]
        /\ IF \/ partKey[r.p] = NoLeader
              \/ space = NoSpace
              \/ r.m = "add" /\ r.n \in reps
              \/ ~IsLive(partKey[r.p])
           THEN /\ CmEnds(a, "err")
                /\ UNCHANGED <<asnap, aldr>>
           ELSE /\ asnap' = [asnap EXCEPT ![a] =
                               [space EXCEPT !.replicas[r.p] =
                                  IF r.m = "add" THEN reps \cup {r.n}
                                                 ELSE reps \ {r.n}]]
                /\ aldr' = [aldr EXCEPT ![a] = partKey[r.p]]
                /\ apc' = [apc EXCEPT ![a] = "update"]
                /\ UNCHANGED ares

\* The ChangeMember handler with one of the requests.
CmStart(a) ==
    /\ ~Loops
    /\ apc[a] \in {"idle", "done"}
    /\ aops[a] < OpsPerAdmin
    /\ aops' = [aops EXCEPT ![a] = @ + 1]
    /\ \E r \in Reqs : CmBegin(a, r)
    /\ UNCHANGED <<psVars, masterVars, createVars, awrite, runVars>>

\* An off-by-one in the loop: the first partition id is skipped.
LoopStartSkipFirst(a) ==
    /\ Loops
    /\ apc[a] \in {"idle", "done"}
    /\ aops[a] < OpsPerAdmin
    /\ rres[a] # "ok"
    /\ aops' = [aops EXCEPT ![a] = @ + 1]
    /\ afault0' = [afault0 EXCEPT ![a] = faults]
    /\ IF Job = "recover" /\ failRec = NoRecord
       THEN /\ apc' = [apc EXCEPT ![a] = "done"]
            /\ rres' = [rres EXCEPT ![a] = "err"]
            /\ UNCHANGED ajob
       ELSE /\ ajob' = [ajob EXCEPT ![a] = Tail(FailPids)]
            /\ apc' = [apc EXCEPT ![a] = "next"]
            /\ UNCHANGED rres
    /\ UNCHANGED <<psVars, masterVars, createVars, areq, asnap, awrite, aldr, ares>>

\* The operator runs RecoverFailServer or RemoveServerMeta again after a
\* run that failed.  RecoverFailServer finds the fail-server record of
\* FailNode and errs without one; RemoveServerMeta falls back to the
\* server record, whose PartitionIds are the same.
LoopStart(a) ==
    /\ Loops
    /\ apc[a] \in {"idle", "done"}
    /\ aops[a] < OpsPerAdmin
    /\ rres[a] # "ok"
    /\ aops' = [aops EXCEPT ![a] = @ + 1]
    /\ afault0' = [afault0 EXCEPT ![a] = faults]
    /\ IF Job = "recover" /\ failRec = NoRecord
       THEN /\ apc' = [apc EXCEPT ![a] = "done"]
            /\ rres' = [rres EXCEPT ![a] = "err"]
            /\ UNCHANGED ajob
       ELSE /\ ajob' = [ajob EXCEPT ![a] = FailPids]
            /\ apc' = [apc EXCEPT ![a] = "next"]
            /\ UNCHANGED rres
    /\ UNCHANGED <<psVars, masterVars, createVars, areq, asnap, awrite, aldr, ares>>

\* One iteration of the loop over the partition ids: ChangeMember ADD of
\* the new node, or REMOVE of the failed one.  After the last one
\* RecoverFailServer deletes the fail-server key.
LoopNext(a) ==
    /\ apc[a] = "next"
    /\ IF ajob[a] = <<>>
       THEN /\ failRec' = IF Job = "recover" THEN NoRecord ELSE failRec
            /\ apc' = [apc EXCEPT ![a] = "done"]
            /\ rres' = [rres EXCEPT ![a] = "ok"]
            /\ UNCHANGED <<areq, asnap, aldr, ares, ajob>>
       ELSE /\ CmBegin(a, IF Job = "recover"
                          THEN [p |-> Head(ajob[a]), n |-> NewNode, m |-> "add"]
                          ELSE [p |-> Head(ajob[a]), n |-> FailNode, m |-> "remove"])
            /\ ajob' = [ajob EXCEPT ![a] = Tail(@)]
            /\ UNCHANGED <<failRec, rres>>
    /\ UNCHANGED <<psVars, space, partKey, spLock, faults, createVars, awrite,
                   aops, afault0>>

\* A ChangeMember of the loop failed: the panic is recovered into the
\* error RecoverFailServer returns, or RemoveServerMeta replies the error.
LoopAbort(a) ==
    /\ apc[a] = "abort"
    /\ apc' = [apc EXCEPT ![a] = "done"]
    /\ rres' = [rres EXCEPT ![a] = "err"]
    /\ UNCHANGED <<psVars, masterVars, createVars, areq, asnap, awrite, aldr,
                   ares, aops, ajob, afault0>>

\* updateSpaceService with temp = the space ChangeMember read: take the
\* space lock, read the space again, copy Enabled and Partitions from temp,
\* Version++, and check that every partition has a live registered
\* leader.  On an error the deferred Unlock releases the lock.
CmUpdate(a) ==
    /\ apc[a] = "update"
    /\ spLock = NoAdmin
    /\ IF space = NoSpace \/ \E q \in Parts : ~IsLive(partKey[q])
       THEN /\ CmEnds(a, "err")
            /\ UNCHANGED <<spLock, awrite>>
       ELSE /\ spLock' = a
            /\ awrite' = [awrite EXCEPT ![a] =
                             [enabled |-> asnap[a].enabled,
                              version |-> space.version + 1,
                              replicas |-> asnap[a].replicas]]
            /\ apc' = [apc EXCEPT ![a] = "write"]
            /\ UNCHANGED ares
    /\ UNCHANGED <<psVars, space, partKey, faults, failRec, createVars, areq, asnap, aldr,
                   aops, runVars>>

\* client.UpdatePartition to the leader of every partition, as read from
\* its partition key: QueryServer fails for leader 0, the handler answers.
PushOk == \A q \in Parts : partKey[q] \in Nodes /\ UpdatePartitionOk(partKey[q], q)

\* The Update of the space key lost: UpdatePartition is pushed, nothing is
\* written.
CmWriteNoUpdate(a) ==
    /\ apc[a] = "write"
    /\ spLock' = NoAdmin
    /\ \/ /\ ~PushOk
          /\ CmEnds(a, "err")
          /\ UNCHANGED faults
       \/ /\ faults < MaxFault
          /\ faults' = faults + 1
          /\ CmEnds(a, "err")
       \/ /\ PushOk
          /\ apc' = [apc EXCEPT ![a] = IF areq[a].m = "add" THEN "create"
                                                            ELSE "member"]
          /\ UNCHANGED <<faults, ares>>
    /\ UNCHANGED <<psVars, space, partKey, failRec, createVars, areq, asnap, awrite, aldr,
                   aops, runVars>>

\* UpdatePartition to every leader, Version--, updateSpace (Version++ and
\* Update of the space key), Unlock.  The push fails when a leader read
\* from a partition key is gone or holds no store of its partition (it
\* may have crashed or been removed since the IsLive check); a lost reply
\* or a failed Update is a fault.
CmWrite(a) ==
    /\ apc[a] = "write"
    /\ spLock' = NoAdmin
    /\ \/ /\ ~PushOk
          /\ CmEnds(a, "err")
          /\ UNCHANGED <<space, faults>>
       \/ /\ faults < MaxFault
          /\ faults' = faults + 1
          /\ CmEnds(a, "err")
          /\ UNCHANGED space
       \/ /\ PushOk
          /\ space' = awrite[a]
          /\ apc' = [apc EXCEPT ![a] = IF areq[a].m = "add" THEN "create"
                                                            ELSE "member"]
          /\ UNCHANGED <<faults, ares>>
    /\ UNCHANGED <<psVars, partKey, failRec, createVars, areq, asnap, awrite, aldr, aops,
                   runVars>>

\* ADD: CreatePartition at the new node with the space read.
CmCreate(a) ==
    /\ apc[a] = "create"
    /\ LET r == areq[a] IN
       \E o \in CreateOutcomes(r.n, r.p) :
         /\ CreatePartitionRPC(r.n, r.p, asnap[a].replicas[r.p], o)
         /\ IF o = "ok" THEN /\ apc' = [apc EXCEPT ![a] = "member"]
                              /\ UNCHANGED ares
                         ELSE CmEnds(a, "err")
    /\ UNCHANGED <<up, leader, env, space, partKey, spLock, failRec, createVars,
                   areq, asnap, awrite, aldr, aops, runVars>>

\* client.ChangeMember at the leader read at the start.  The change may be
\* applied and its reply lost (a fault).
CmMember(a) ==
    /\ apc[a] = "member"
    /\ LET r == areq[a] IN
       IF ChangeMemberOk(aldr[a], r.p)
       THEN \/ /\ ChangeMemberEffect(r.p, r.n, r.m)
               /\ IF r.m = "remove"
                  THEN /\ apc' = [apc EXCEPT ![a] = "delete"] /\ UNCHANGED ares
                  ELSE CmEnds(a, "ok")
               /\ UNCHANGED faults
            \/ /\ faults < MaxFault
               /\ faults' = faults + 1
               /\ ChangeMemberEffect(r.p, r.n, r.m)
               /\ CmEnds(a, "err")
       ELSE /\ CmEnds(a, "err")
            /\ UNCHANGED <<members, leader, faults>>
    /\ UNCHANGED <<up, hosted, env, space, partKey, spLock, failRec, createVars,
                   areq, asnap, awrite, aldr, aops, runVars>>

\* client.DeleteReplica: the handler drops the store and answers SUCCESS;
\* the reply may be lost (a fault), and then the call returns an error.
DeleteReplicaRPC(a, n, p) ==
    /\ DeleteReplicaEffect(n, p)
    /\ \/ /\ CmEnds(a, "ok")
          /\ UNCHANGED faults
       \/ /\ faults < MaxFault
          /\ faults' = faults + 1
          /\ CmEnds(a, "err")

\* REMOVE: DeleteReplica at the removed node when it answers IsLive.
CmDelete(a) ==
    /\ apc[a] = "delete"
    /\ LET r == areq[a] IN
       IF IsLive(r.n) THEN DeleteReplicaRPC(a, r.n, r.p)
       ELSE /\ CmEnds(a, "ok")
            /\ UNCHANGED <<hosted, faults>>
    /\ UNCHANGED <<up, members, leader, env, space, partKey, spLock, failRec,
                   createVars, areq, asnap, awrite, aldr, aops, runVars>>

-----------------------------------------------------------------------------

Init ==
    \* the failed server is down while its record exists
    /\ up = IF Loops THEN Nodes \ {FailNode} ELSE Nodes
    /\ env = 0
    /\ IF Creates
       THEN /\ hosted = [n \in Nodes |-> {}]
            /\ members = [p \in Parts |-> {}]
            /\ leader = [p \in Parts |-> NoLeader]
            /\ partKey = leader
            /\ space = NoSpace
            /\ cpc = "idle"
            /\ cres = "none"
       ELSE /\ hosted = [n \in Nodes |-> {p \in Parts : n \in Layout[p]}]
            /\ members = Layout
            /\ leader \in {l \in [Parts -> Nodes] :
                             \A p \in Parts : l[p] \in Layout[p] \cap up}
            /\ partKey = leader
            /\ space = [enabled |-> TRUE, version |-> 2, replicas |-> Layout]
            /\ cpc = "done"
            /\ cres = "ok"
    /\ spLock = NoAdmin
    /\ faults = 0
    /\ failRec = IF Loops THEN FailPids ELSE NoRecord
    /\ count = [n \in Nodes |-> 0]
    /\ creplicas = [p \in Parts |-> {}]
    /\ cidx = 1
    /\ launched = FALSE
    /\ pending = [p \in Parts |-> <<>>]
    /\ stuck = {}
    /\ errChain = 0
    /\ createErr = FALSE
    /\ apc = [a \in Admins |-> "idle"]
    /\ areq = [a \in Admins |-> CHOOSE r \in ReqRec : TRUE]
    /\ asnap = [a \in Admins |-> NoSpace]
    /\ awrite = [a \in Admins |-> NoSpace]
    /\ aldr = [a \in Admins |-> NoLeader]
    /\ ares = [a \in Admins |-> "none"]
    /\ aops = [a \in Admins |-> 0]
    /\ ajob = [a \in Admins |-> <<>>]
    /\ rres = [a \in Admins |-> "none"]
    /\ afault0 = [a \in Admins |-> 0]

\* Every handler has returned.
Quiet ==
    /\ cpc = "done"
    /\ \A a \in Admins : apc[a] = "done" /\ (aops[a] = OpsPerAdmin \/ rres[a] = "ok")

\* The handlers have returned; servers and goroutines have nothing to do.
Finished ==
    /\ Quiet
    /\ UNCHANGED vars

Environment ==
    /\ \/ \E p \in Parts, n \in Nodes : ElectLeader(p, n)
       \/ \E n \in Nodes : Crash(n) \/ Restart(n)
    /\ UNCHANGED <<masterVars, createVars, adminVars>>

Next ==
    \/ CreateStart \/ CreatePlace \/ CreatePoll \/ CreatePollSleep
    \/ CreateEnable
    \/ \E p \in Parts : GoCreate(p) \/ GoUnblock(p) \/ RegisterPartition(p)
    \/ \E a \in Admins : \/ CmStart(a) \/ CmUpdate(a) \/ CmWrite(a)
                        \/ CmCreate(a) \/ CmMember(a) \/ CmDelete(a)
                        \/ LoopStart(a) \/ LoopNext(a) \/ LoopAbort(a)
    \/ Environment
    \/ Finished

Spec == Init /\ [][Next]_vars

\* Fairness.  A handler that has begun is a goroutine the HTTP server runs
\* to its return: its steps, and those of createSpaceService, are weakly
\* fair.  New requests, the partition servers and faults are not.  The poll
\* loop's case on ctx.Done() never fires: ctx is the *gin.Context of the
\* request (cluster_api.go:282), whose Done() is nil, so no timeout step
\* exists.
HandlerSteps(a) ==
    \/ CmUpdate(a) \/ CmWrite(a) \/ CmCreate(a) \/ CmMember(a) \/ CmDelete(a)
    \/ LoopNext(a) \/ LoopAbort(a)

CreateSteps == CreatePlace \/ CreatePoll \/ CreateEnable

\* The goroutines createSpaceService starts run; a group without a leader
\* elects one when a majority of its members can vote (raft), and a leader
\* registers its partition.  Crashes, restarts and leader replacements
\* stay unfair: a crashed server may stay down.
PartitionSteps(p) ==
    \/ GoCreate(p) \/ GoUnblock(p) \/ RegisterPartition(p)
    \/ /\ leader[p] = NoLeader
       /\ \E n \in Nodes : ElectLeader(p, n)
       /\ UNCHANGED <<masterVars, createVars, adminVars>>

FairSpec ==
    /\ Spec
    /\ \A a \in Admins : WF_vars(HandlerSteps(a))
    /\ WF_vars(CreateSteps)
    /\ \A p \in Parts : WF_vars(PartitionSteps(p))

-----------------------------------------------------------------------------
(* Properties.                                                             *)

TypeOK ==
    /\ PSTypeOK
    /\ space \in SpaceRec \cup {NoSpace}
    /\ partKey \in [Parts -> Nodes \cup {NoLeader}]
    /\ spLock \in Admins \cup {NoAdmin}
    /\ faults \in 0..MaxFault
    /\ failRec \in Seq(Parts) \cup {NoRecord}
    /\ cpc \in {"idle", "place", "poll", "enable", "done"}
    /\ cres \in {"none", "ok", "err"}
    /\ count \in [Nodes -> Nat]
    /\ creplicas \in [Parts -> SUBSET Nodes]
    /\ cidx \in Parts
    /\ launched \in BOOLEAN
    /\ pending \in [Parts -> Seq(Nodes)]
    /\ stuck \subseteq Parts
    /\ errChain \in 0..1
    /\ createErr \in BOOLEAN
    /\ apc \in [Admins -> {"idle", "update", "write", "create", "member", "delete",
                           "next", "abort", "done"}]
    /\ areq \in [Admins -> ReqRec]
    /\ asnap \in [Admins -> SpaceRec \cup {NoSpace}]
    /\ awrite \in [Admins -> SpaceRec \cup {NoSpace}]
    /\ aldr \in [Admins -> Nodes \cup {NoLeader}]
    /\ ares \in [Admins -> {"none", "ok", "err"}]
    /\ aops \in [Admins -> 0..OpsPerAdmin]
    /\ ajob \in [Admins -> Seq(Parts)]
    /\ rres \in [Admins -> {"none", "ok", "err"}]
    /\ afault0 \in [Admins -> 0..MaxFault]

\* A space is enabled only once every one of its partitions has a leader
\* registered in the partition keys: the poll loop of createSpaceService
\* waits for each partition in turn before updateSpace enables it.
EnabledOnlyWhenRegistered ==
    (space # NoSpace /\ space.enabled) => \A p \in Parts : partKey[p] # NoLeader

\* createSpaceService returns nil only when every CreatePartition it sent
\* succeeded: step 8 of the design says errors of the dispatch goroutines
\* are propagated.
CreateOkOnlyIfAllCreated ==
    cres = "ok" => ~createErr

\* When every handler has returned nil, the replicas of every partition in
\* the space key are the members of its consensus group: ChangeMember
\* writes the new list, then creates the replica and changes the group
\* (or changes the group and drops the replica).
MetaMatchesRaft ==
    (Quiet /\ cres = "ok" /\ \A a \in Admins : ares[a] # "err")
        => \A p \in Parts : space # NoSpace /\ space.replicas[p] = members[p]

\* Every member of an existing group holds a store of the partition:
\* ChangeMember creates the replica before adding it to the group and
\* deletes it only after removing it.
MembersHosted ==
    \A p \in Parts : \A n \in members[p] : p \in hosted[n]

\* A loop that returned nil changed every partition the failed server
\* held, in the space key, in its group and in the stores: after
\* RecoverFailServer the new node is everywhere and the fail-server record
\* is deleted (acceptance scenario 4 of the design); after
\* RemoveServerMeta the failed node is nowhere in the metadata or groups.
LoopComplete ==
    \A a \in Admins :
        rres[a] = "ok" =>
            \A i \in 1..Len(FailPids) :
                LET p == FailPids[i]
                IN  /\ space # NoSpace
                    /\ IF Job = "recover"
                       THEN /\ failRec = NoRecord
                            /\ NewNode \in space.replicas[p] \cap members[p]
                            /\ p \in hosted[NewNode]
                       ELSE FailNode \notin space.replicas[p] \cup members[p]

\* With the servers that are up staying up, a run of RecoverFailServer or
\* RemoveServerMeta in which no RPC failed returns nil: the design says
\* partial progress of a failed run "is recoverable by re-running".
RerunSucceeds ==
    \A a \in Admins :
        (apc[a] = "done" /\ rres[a] = "err") => faults > afault0[a]

\* createSpaceService returns, although a partition may never register
\* (its replicas failed or its group lost its leader).  The design gives
\* the poll loop the request's deadline; the code selects on ctx.Done() of
\* a *gin.Context, which is nil, so a partition that never registers keeps
\* it polling for ever, holding the lock "space".
CreateReturns ==
    cpc \notin {"idle", "done"} ~> cpc = "done"

=============================================================================
