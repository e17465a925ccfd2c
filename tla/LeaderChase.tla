----------------------------- MODULE LeaderChase -----------------------------
(***************************************************************************)
(* The retrying RPC of the partition-server client, client.Execute         *)
(* (src/client/ps.go), against the replicas of one partition, and the      *)
(* not-leader redirection the partition server puts in the reply           *)
(* (psErrorChange, src/ps/handler_admin.go).                               *)
(*                                                                         *)
(* One call of Execute is modelled.  Each loop iteration is one action:    *)
(* the RPC and the branch taken on its outcome.  Around it the consensus   *)
(* group changes leader, servers learn the new leader one at a time, and   *)
(* servers stop and start, a bounded number of times.                      *)
(***************************************************************************)
EXTENDS Naturals, FiniteSets

CONSTANTS
    Nodes,       \* the replicas of the partition
    NoLeader,    \* model value: leader id 0
    AdaptRetry,  \* adaptRetry in src/client/ps.go
    Handler,     \* the admin handler Execute calls (its servicePath)
    MaxEnv       \* bound on leader changes, learning and crashes

ASSUME NoLeader \notin Nodes /\ AdaptRetry \in Nat \ {0}
\* The admin handlers a partition server registers (ExportToRpcAdminHandler).
AdminHandlers == {"CreatePartition", "DeletePartition", "DeleteReplica",
                  "UpdatePartition", "IsLive", "PartitionInfo", "Stats",
                  "ChangeMember"}

ASSUME Handler \in AdminHandlers /\ MaxEnv \in Nat

\* The handlers whose chain is registered with psErrorChange; the others
\* have a nil error-change function.
ErrorChangeHandlers == {"DeletePartition", "DeleteReplica", "UpdatePartition"}

\* A NOT_LEADER answer carries the leader's Replica in its message.
Redirects == Handler \in ErrorChangeHandlers

\* reply.Err codes; NONE: the reply was never written.
Codes == {"NONE", "SUCCESS", "NO_LEADER", "NOT_LEADER"}
\* The Replica carried in a NOT_LEADER message; NoMsg: empty message.
NoMsg == "nomsg"

VARIABLES
    leader,     \* the leader of the consensus group
    believed,   \* the leader each server's store reports (GetLeader)
    up,         \* servers that accept connections
    pc,         \* "loop" while Execute runs, "done" when it returned
    i,          \* loop counter of Execute
    addr,       \* address Execute sends to
    err,        \* err of Execute: "nil", "rpc" (an error) or "unmarshal"
    replyErr,   \* reply.Err.Code
    replyMsg,   \* reply.Err.Msg
    served,     \* times a server executed the request
    lastServed, \* the last attempt was executed by a server
    stable,     \* no leader change, crash or lost reply since Execute began
    env         \* environment steps taken

vars == <<leader, believed, up, pc, i, addr, err, replyErr, replyMsg,
          served, lastServed, stable, env>>

envVars == <<leader, believed, up, env>>

-----------------------------------------------------------------------------

\* The reply code a live server puts in the reply.  Of the handlers with
\* psErrorChange only UpdatePartition can fail: its store.UpdateSpace is a
\* raft proposal, served by the leader and refused with ErrNotLeader by a
\* follower; psErrorChange then answers NO_LEADER when no leader is known
\* and NOT_LEADER with the leader's Replica.  DeletePartition and
\* DeleteReplica always answer SUCCESS.
Respond(n) ==
    IF believed[n] = n \/ Handler # "UpdatePartition" THEN "SUCCESS"
    ELSE IF believed[n] = NoLeader THEN "NO_LEADER"
    ELSE "NOT_LEADER"

\* A redirect bug: NOT_LEADER is retried at the same address.
AfterAttemptStay(e, code, msg) ==
    IF e = "nil"
    THEN /\ pc' = "done" /\ err' = "nil" /\ UNCHANGED <<i, addr>>
    ELSE /\ err' = e /\ i' = i + 1 /\ UNCHANGED addr
         /\ pc' = IF i + 1 < AdaptRetry THEN "loop" ELSE "done"

\* A loop bound bug: a failed attempt is always retried.
AfterAttemptUnbounded(e, code, msg) ==
    IF e = "nil"
    THEN /\ pc' = "done" /\ err' = "nil" /\ UNCHANGED <<i, addr>>
    ELSE /\ err' = e /\ i' = i + 1 /\ pc' = "loop"
         /\ addr' = IF code = "NOT_LEADER" /\ msg # NoMsg THEN msg ELSE addr

\* What Execute does after one attempt, given the error of execute() and
\* the reply as it now stands.
AfterAttempt(e, code, msg) ==
    IF e = "nil"
    THEN /\ pc' = "done" /\ err' = "nil" /\ UNCHANGED <<i, addr>>
    ELSE IF code = "NO_LEADER"
    THEN /\ err' = e /\ i' = i + 1 /\ UNCHANGED addr
         /\ pc' = IF i + 1 < AdaptRetry THEN "loop" ELSE "done"
    ELSE IF code = "NOT_LEADER"
    THEN IF msg = NoMsg
         THEN /\ pc' = "done" /\ err' = "unmarshal" /\ UNCHANGED <<i, addr>>
         ELSE /\ err' = "nil"     \* err = cbjson.Unmarshal(...) succeeded
              /\ addr' = msg
              /\ i' = i + 1
              /\ pc' = IF i + 1 < AdaptRetry THEN "loop" ELSE "done"
    ELSE /\ err' = e /\ i' = i + 1 /\ UNCHANGED addr
         /\ pc' = IF i + 1 < AdaptRetry THEN "loop" ELSE "done"

\* A caller bug: Execute's nil is taken as success, the reply's code is not
\* looked at.
CallerOkIgnoreCode == err = "nil"

\* operatePartition (and DeleteReplica, DeletePartition, ChangeMember) after
\* Execute returned: nil only when Execute returned nil and reply.Err is
\* SUCCESS; otherwise the error, or an error built from the reply's code.
CallerOk == err = "nil" /\ replyErr = "SUCCESS"

Init ==
    /\ leader \in Nodes
    /\ believed \in {b \in [Nodes -> {leader, NoLeader}] : b[leader] = leader}
    /\ up = Nodes
    /\ pc = "loop"
    /\ i = 0
    /\ addr \in Nodes
    /\ err = "nil"
    /\ replyErr = "NONE"
    /\ replyMsg = NoMsg
    /\ served = 0
    /\ lastServed = FALSE
    /\ stable = \A n \in Nodes : believed[n] = leader
    /\ env = 0

\* The server at addr answers: it executes the request, or redirects.
AttemptAnswered ==
    /\ pc = "loop"
    /\ addr \in up
    /\ LET code == Respond(addr)
           msg  == IF code = "NOT_LEADER" /\ Redirects THEN believed[addr] ELSE NoMsg
       IN  /\ replyErr' = code
           /\ replyMsg' = msg
           /\ served' = served + (IF code = "SUCCESS" THEN 1 ELSE 0)
           /\ lastServed' = (code = "SUCCESS")
           /\ AfterAttempt(IF code = "SUCCESS" THEN "nil" ELSE "rpc", code, msg)
    /\ UNCHANGED <<envVars, stable>>

\* The server executes the request but the answer is lost on the way
\* back: execute() fails and reply keeps what an earlier attempt wrote.
AttemptReplyLost ==
    /\ pc = "loop"
    /\ addr \in up
    /\ Respond(addr) = "SUCCESS"
    /\ served' = served + 1
    /\ lastServed' = TRUE
    /\ stable' = FALSE
    /\ AfterAttempt("rpc", replyErr, replyMsg)
    /\ UNCHANGED <<envVars, replyErr, replyMsg>>

\* No connection to addr: NewRpcClient or the call fails, reply untouched.
AttemptUnreachable ==
    /\ pc = "loop"
    /\ addr \notin up
    /\ lastServed' = FALSE
    /\ AfterAttempt("rpc", replyErr, replyMsg)
    /\ UNCHANGED <<envVars, replyErr, replyMsg, served, stable>>

\* The consensus group elects a new leader among the live replicas, or
\* loses its leader; the new leader knows it at once and the old one
\* steps down, the others keep the leader they knew.
ElectLeader ==
    /\ env < MaxEnv
    /\ \E l \in up \cup {NoLeader} :
         /\ l # leader
         /\ leader' = l
         /\ believed' = [n \in Nodes |->
                            IF n = l THEN l
                            ELSE IF n = leader THEN NoLeader
                            ELSE believed[n]]
    /\ env' = env + 1
    /\ stable' = (stable /\ pc = "done")
    /\ UNCHANGED <<up, pc, i, addr, err, replyErr, replyMsg, served, lastServed>>

\* A server learns the current leader.
LearnLeader(n) ==
    /\ env < MaxEnv
    /\ believed[n] # leader
    /\ believed' = [believed EXCEPT ![n] = leader]
    /\ env' = env + 1
    /\ UNCHANGED <<leader, up, pc, i, addr, err, replyErr, replyMsg, served,
                   lastServed, stable>>

Crash(n) ==
    /\ env < MaxEnv
    /\ n \in up
    /\ up' = up \ {n}
    /\ leader' = IF leader = n THEN NoLeader ELSE leader
    /\ env' = env + 1
    /\ stable' = (stable /\ pc = "done")
    /\ UNCHANGED <<believed, pc, i, addr, err, replyErr, replyMsg, served, lastServed>>

Restart(n) ==
    /\ env < MaxEnv
    /\ n \notin up
    /\ up' = up \cup {n}
    /\ believed' = [believed EXCEPT ![n] = NoLeader]
    /\ env' = env + 1
    /\ UNCHANGED <<leader, pc, i, addr, err, replyErr, replyMsg, served,
                   lastServed, stable>>

\* Execute has returned and the environment is spent.
Finished ==
    /\ pc = "done"
    /\ env = MaxEnv
    /\ UNCHANGED vars

Next ==
    \/ AttemptAnswered
    \/ AttemptReplyLost
    \/ AttemptUnreachable
    \/ ElectLeader
    \/ \E n \in Nodes : LearnLeader(n) \/ Crash(n) \/ Restart(n)
    \/ Finished

Spec == Init /\ [][Next]_vars

-----------------------------------------------------------------------------
(* Properties.                                                             *)

TypeOK ==
    /\ leader \in Nodes \cup {NoLeader}
    /\ believed \in [Nodes -> Nodes \cup {NoLeader}]
    /\ up \subseteq Nodes
    /\ pc \in {"loop", "done"}
    /\ i \in 0..AdaptRetry
    /\ addr \in Nodes
    /\ err \in {"nil", "rpc", "unmarshal"}
    /\ replyErr \in Codes
    /\ replyMsg \in Nodes \cup {NoLeader, NoMsg}
    /\ served \in 0..AdaptRetry
    /\ lastServed \in BOOLEAN
    /\ stable \in BOOLEAN
    /\ env \in 0..MaxEnv

\* Leader chase converges: when every replica knows the one leader at the
\* start and nothing changes while Execute runs, Execute returns nil and
\* the request was executed exactly once (by the leader, at the first or
\* the redirected second attempt).
ExecuteConverges ==
    (pc = "done" /\ stable /\ Redirects) => (err = "nil" /\ served = 1)

\* The caller of Execute reports success only when a server executed the
\* request at the last attempt.  Execute itself may return nil without
\* that: a NOT_LEADER redirect overwrites err with the nil of
\* cbjson.Unmarshal (ps.go:177), and the reply is never reset, so after the
\* last attempt err is nil and the reply holds a NOT_LEADER from any earlier
\* one; operatePartition's check of reply.Err.Code turns that into an error.
CallerOkOnlyIfServed ==
    (pc = "done" /\ CallerOk) => lastServed

\* A request is executed at most once per call of Execute: the spec says
\* any error other than NO_LEADER and NOT_LEADER is final.
ExecutedAtMostOnce ==
    served <= 1

=============================================================================
