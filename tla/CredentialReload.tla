-------------------------- MODULE CredentialReload --------------------------
(***************************************************************************)
(* The hot reload of PostgreSQL credentials: ReloadablePostgres and        *)
(* spawn_postgres_credential_reloader of src/src/store.rs.                 *)
(*                                                                         *)
(* The reloader reads the credential file at every tick.  Content whose    *)
(* fingerprint is new is tried with a pool of its own, which replaces the  *)
(* current one only once it is connected; the old pool is then closed.     *)
(* Store operations clone the current pool first and ask it for a          *)
(* connection later.  A pool is known by its generation.                   *)
(***************************************************************************)
EXTENDS WireValues, Integers, Sequences

CONSTANTS
    CredentialVersions,     \* contents of the credential file
    StoreOperations,        \* concurrent operations of the store
    MaxGeneration           \* bound on the pools made

VARIABLES
    credentialFile,     \* its content, or Malformed
    dbAccepts,          \* credentials the database lets in
    pools,              \* the credentials of each generation, with its closed flag
    fingerprint,        \* credential_fingerprint
    reloader,           \* what the reloader task is doing
    closing,            \* pools that a spawned task is to close
    storeOp             \* what each operation is doing

reloadVars == <<credentialFile, dbAccepts, pools, fingerprint, reloader, closing, storeOp>>

Sleeping == [pc |-> "sleeping"]
NoOperation == [pc |-> "idle"]
Current == Len(pools)

\* Store::connect has read and tried the credentials.
ReloadInit ==
    /\ credentialFile \in CredentialVersions /\ dbAccepts = {credentialFile}
    /\ pools = <<[credentials |-> credentialFile, closed |-> FALSE]>>
    /\ fingerprint = credentialFile
    /\ reloader = Sleeping /\ closing = {}
    /\ storeOp = [o \in StoreOperations |-> NoOperation]

\* The credentials are rotated from outside: the file and the database change
\* in any order, the file may be unreadable on the way.
RotateFile(content) ==
    /\ content # credentialFile /\ Current < MaxGeneration
    /\ credentialFile' = content
    /\ UNCHANGED <<dbAccepts, pools, fingerprint, reloader, closing, storeOp>>

RotateDatabase(accepts) ==
    /\ accepts # dbAccepts /\ Current < MaxGeneration
    /\ dbAccepts' = accepts
    /\ UNCHANGED <<credentialFile, pools, fingerprint, reloader, closing, storeOp>>

\* A tick: nothing to do unless the file is valid and has changed.
ReloadTick ==
    /\ reloader = Sleeping
    /\ credentialFile # Malformed /\ credentialFile # fingerprint
    /\ reloader' = [pc |-> "connecting", credentials |-> credentialFile]
    /\ UNCHANGED <<credentialFile, dbAccepts, pools, fingerprint, closing, storeOp>>

ReplacementFails ==
    /\ reloader.pc = "connecting"
    /\ reloader' = Sleeping
    /\ UNCHANGED <<credentialFile, dbAccepts, pools, fingerprint, closing, storeOp>>

\* What swap returns: the pool it took out.
SwappedOut == Current

\* swap: the replacement is the current pool from now on.
ReplacementConnected ==
    /\ reloader.pc = "connecting" /\ reloader.credentials \in dbAccepts
    /\ pools' = Append(pools, [credentials |-> reloader.credentials, closed |-> FALSE])
    /\ reloader' = [pc |-> "swapped", credentials |-> reloader.credentials, old |-> SwappedOut]
    /\ UNCHANGED <<credentialFile, dbAccepts, fingerprint, closing, storeOp>>

\* Mutation: the fingerprint is taken of the file as it is by now.
ReadsFileAgain == credentialFile

\* The fingerprint of what was connected.
Recorded == reloader.credentials

\* The old pool is closed by a task that is not waited for.
RecordFingerprint ==
    /\ reloader.pc = "swapped"
    /\ fingerprint' = Recorded
    /\ closing' = closing \cup {reloader.old}
    /\ reloader' = Sleeping
    /\ UNCHANGED <<credentialFile, dbAccepts, pools, storeOp>>

ClosePool(g) ==
    /\ g \in closing
    /\ pools' = [pools EXCEPT ![g].closed = TRUE]
    /\ closing' = closing \ {g}
    /\ UNCHANGED <<credentialFile, dbAccepts, fingerprint, reloader, storeOp>>

\* database.pool()
ClonePool(o) ==
    /\ storeOp[o] = NoOperation
    /\ storeOp' = [storeOp EXCEPT ![o] = [pc |-> "cloned", pool |-> Current]]
    /\ UNCHANGED <<credentialFile, dbAccepts, pools, fingerprint, reloader, closing>>

\* A closed pool hands out no connections.  An open one has an idle connection
\* or makes one, with credentials the database may have ceased to accept.
Connection(o) ==
    /\ storeOp[o].pc = "cloned" /\ ~pools[storeOp[o].pool].closed
    /\ storeOp' = [storeOp EXCEPT ![o].pc = "connected"]
    /\ UNCHANGED <<credentialFile, dbAccepts, pools, fingerprint, reloader, closing>>

ConnectionRefused(o) ==
    /\ storeOp[o].pc = "cloned"
    /\ LET pool == pools[storeOp[o].pool]
       IN pool.closed \/ pool.credentials \notin dbAccepts
    /\ storeOp' = [storeOp EXCEPT ![o].pc = "refused"]
    /\ UNCHANGED <<credentialFile, dbAccepts, pools, fingerprint, reloader, closing>>

\* close() waits for connections that are out.
OperationEnds(o) ==
    /\ storeOp[o].pc \in {"connected", "refused"}
    /\ storeOp' = [storeOp EXCEPT ![o] = NoOperation]
    /\ UNCHANGED <<credentialFile, dbAccepts, pools, fingerprint, reloader, closing>>

ReloadNext ==
    \/ \E content \in CredentialVersions \cup {Malformed} : RotateFile(content)
    \/ \E accepts \in SUBSET CredentialVersions : RotateDatabase(accepts)
    \/ ReloadTick \/ ReplacementFails \/ ReplacementConnected
    \/ RecordFingerprint \/ \E g \in closing : ClosePool(g)
    \/ \E o \in StoreOperations :
          ClonePool(o) \/ Connection(o) \/ ConnectionRefused(o) \/ OperationEnds(o)

\* The ticker goes on; a database that accepts the credentials is reachable
\* again and again.
ReloadFairness ==
    /\ WF_reloadVars(ReloadTick) /\ SF_reloadVars(ReplacementConnected)
    /\ WF_reloadVars(ReplacementFails)
    /\ WF_reloadVars(RecordFingerprint)

ReloadSpec == ReloadInit /\ [][ReloadNext]_reloadVars /\ ReloadFairness
-----------------------------------------------------------------------------
(* The pool that store operations are given is neither closed nor about to *)
(* be, whatever the reloader and its closing tasks are in the middle of.   *)
CurrentPoolOpen == ~pools[Current].closed /\ Current \notin closing

(* Once the file holds credentials the database accepts, and both stay so, *)
(* the current pool ends up on those credentials, whatever was read,       *)
(* tried and refused before.                                               *)
PoolCatchesUp ==
    \A v \in CredentialVersions :
        <>[](credentialFile = v /\ v \in dbAccepts) => <>[](pools[Current].credentials = v)

(* Store operations run on an open pool throughout, and in the end on the  *)
(* credentials of the file (spawn_postgres_credential_reloader).           *)
PoolFollowsFile == []CurrentPoolOpen /\ PoolCatchesUp
=============================================================================
