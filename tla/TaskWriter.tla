----------------------------- MODULE TaskWriter -----------------------------
(***************************************************************************)
(* The cooperative Task lock of withTaskWriter (container-core,            *)
(* task-writer.ts): a file created exclusively, filled with an owner line, *)
(* kept or removed when the callback exits.  There is no expiry, no        *)
(* waiting and no stale-lock removal: a client that finds the file present *)
(* is turned away (that is a stuttering step here).                        *)
(*                                                                         *)
(* The callback is the environment of this module: while a client is       *)
(* "inside" it may retain the lock and leave with any final wish.          *)
(***************************************************************************)
EXTENDS Naturals

CONSTANTS
    Clients,        \* the callers of withTaskWriter, one call at a time each
    NoClient        \* no owner: the lock file does not exist

ASSUME NoClientAssumption == NoClient \notin Clients

VARIABLES
    lockOwner,      \* the client whose call created the file, or NoClient
    lockText,       \* what the file holds of the owner line
    stage,          \* where each client's call of withTaskWriter is
    keep            \* the negation of the call's local variable release

writerVars == <<lockOwner, lockText, stage, keep>>

\* "partial": a prefix of the owner line, the empty prefix included.
Texts == {"partial", "full"}

Stages == {"out", "write", "inside", "closing", "unlinking", "dead"}

\* The stages between a successful exclusive open and the end of the call.
Holding == {"write", "inside", "closing", "unlinking"}

WriterTypeOK ==
    /\ lockOwner \in Clients \cup {NoClient}
    /\ lockText \in Texts
    /\ stage \in [Clients -> Stages]
    /\ keep \in [Clients -> BOOLEAN]

WriterInit ==
    /\ lockOwner = NoClient
    /\ lockText = "partial"
    /\ stage = [c \in Clients |-> "out"]
    /\ keep = [c \in Clients |-> FALSE]

LockFree == lockOwner = NoClient

-----------------------------------------------------------------------------
OpenShared(c) ==        \* mutant: flag 'w'
    /\ stage[c] = "out"
    /\ lockOwner' = c
    /\ lockText' = "partial"
    /\ stage' = [stage EXCEPT ![c] = "write"]
    /\ keep' = [keep EXCEPT ![c] = FALSE]

(* open(path, 'wx') succeeds only when no file is there. *)
Open(c) ==
    /\ stage[c] = "out"
    /\ LockFree
    /\ lockOwner' = c
    /\ lockText' = "partial"
    /\ stage' = [stage EXCEPT ![c] = "write"]
    /\ keep' = [keep EXCEPT ![c] = FALSE]

(* writeFile and sync of the owner line.  When either fails the callback is *)
(* never entered and the call goes straight to its cleanup; the file then   *)
(* holds all of the line (sync failed) or only a part of it.                *)
WriteOwner(c, ok) ==
    /\ stage[c] = "write"
    /\ \E text \in Texts :
          /\ ok => text = "full"
          /\ lockText' = text
    /\ stage' = [stage EXCEPT ![c] = IF ok THEN "inside" ELSE "closing"]
    /\ UNCHANGED <<lockOwner, keep>>

(* lease.retainOnExit() from the running callback. *)
Retain(c) ==
    /\ stage[c] = "inside"
    /\ keep' = [keep EXCEPT ![c] = TRUE]
    /\ UNCHANGED <<lockOwner, lockText, stage>>

(* The callback returns or throws, its last wish about the lock being k. *)
Leave(c, k) ==
    /\ stage[c] = "inside"
    /\ stage' = [stage EXCEPT ![c] = "closing"]
    /\ keep' = [keep EXCEPT ![c] = k]
    /\ UNCHANGED <<lockOwner, lockText>>

CheckNothing(c) ==      \* mutant: unlinks without reading the file back
    /\ stage[c] = "closing"
    /\ \E after \in {"out", "unlinking"} :
          /\ after = "unlinking" => ~keep[c]
          /\ stage' = [stage EXCEPT ![c] = after]
    /\ UNCHANGED <<lockOwner, lockText, keep>>

(* handle.close(), then, unless the lock is retained, the read back that     *)
(* compares the file with the owner line.  close or readFile may fail: then  *)
(* the call ends with the file in place.                                     *)
CheckOwner(c) ==
    /\ stage[c] = "closing"
    /\ \E after \in {"out", "unlinking"} :
          /\ after = "unlinking" => /\ ~keep[c]
                                   /\ lockOwner = c
                                   /\ lockText = "full"
          /\ stage' = [stage EXCEPT ![c] = after]
    /\ UNCHANGED <<lockOwner, lockText, keep>>

(* unlink(path) removes whatever file is at the path, or fails. *)
Unlink(c) ==
    /\ stage[c] = "unlinking"
    /\ stage' = [stage EXCEPT ![c] = "out"]
    /\ lockOwner' \in {lockOwner, NoClient}
    /\ UNCHANGED <<lockText, keep>>

(* The process dies; the file system keeps the lock as it is. *)
Die(c) ==
    /\ stage[c] # "dead"
    /\ stage' = [stage EXCEPT ![c] = "dead"]
    /\ UNCHANGED <<lockOwner, lockText, keep>>

(* An operator deletes a lock by hand, after its writer stopped             *)
(* (manual/TROUBLESHOOTING.md): no step of the program does this.           *)
OperatorRemovesLock ==
    /\ ~LockFree
    /\ stage[lockOwner] \in {"out", "dead"}
    /\ lockOwner' = NoClient
    /\ UNCHANGED <<lockText, stage, keep>>

WriterStep(c) ==
    \/ Open(c)
    \/ \E ok \in BOOLEAN : WriteOwner(c, ok)
    \/ Retain(c)
    \/ \E k \in BOOLEAN : Leave(c, k)
    \/ CheckOwner(c)
    \/ Unlink(c)
    \/ Die(c)

WriterNext == OperatorRemovesLock \/ \E c \in Clients : WriterStep(c)

WriterSpec == WriterInit /\ [][WriterNext]_writerVars

-----------------------------------------------------------------------------
(* Every client between its exclusive open and the end of its call owns the  *)
(* lock file: so no two calls are ever there together, whatever the operator *)
(* and crashes do, and no call runs its callback over a file that is gone or *)
(* another's (task-writer.ts, the 'wx' open).                                *)
OwnerWhileHolding == \A c \in Clients : stage[c] \in Holding => lockOwner = c

(* A lock disappears only by the unlink of the call that created it, that    *)
(* did not retain it and that read its own complete owner line back, or by   *)
(* the operator after that call ended: never by another client.              *)
OnlyOwnerReleases ==
    [][~LockFree /\ LockFree' =>
          \/ stage[lockOwner] = "unlinking" /\ ~keep[lockOwner] /\ lockText = "full"
          \/ stage[lockOwner] \in {"out", "dead"} /\ stage' = stage]_writerVars

=============================================================================
