------------------------------ MODULE Outbox ------------------------------
(***************************************************************************)
(* The outbox of src/bot/utils/file_sender.py: documents that users upload *)
(* are copied into <outbox>/received, and the chat_send_file tool and the  *)
(* /sendfile command send files of the outbox to the chat.                 *)
(*                                                                         *)
(* An upload is copied, and the tool runs, on a thread; /sendfile and all  *)
(* uploading to Telegram run on the event loop.  Nothing locks the         *)
(* directory: each call of the file system is a step of its own, taken     *)
(* together with its neighbour only where nothing can come in between that *)
(* either of them sees.                                                    *)
(*                                                                         *)
(* External: Telegram, which may take a document and not be heard, and the *)
(* model, which may call the tool again.                                   *)
(***************************************************************************)
EXTENDS Integers, FiniteSets, Functions

CONSTANTS
    Uploads,        \* documents uploaded by users
    Earlier,        \* those already kept when the process started
    NameOf,         \* NameOf[u]: the file name of upload u
    Sends,          \* calls of the tool and of the command
    Tools,          \* those of the tool
    TTL,            \* FILE_SEND_OUTBOX_TTL_HOURS, in units of the clock
    MaxTime,        \* bound of the model: the clock
    MaxTries        \* bound of the model: calls for one file

ASSUME ConstantsAssumption ==
    /\ Tools \subseteq Sends /\ Earlier \subseteq Uploads
    /\ \A u, v \in Earlier : u # v => NameOf[u] # NameOf[v]
    /\ DOMAIN NameOf = Uploads
    /\ TTL \in Nat \ {0} /\ MaxTime \in Nat /\ MaxTries \in Nat

Plain == -1
Paths == Range(NameOf) \X (0 .. MaxTime \cup {Plain})
NoPath == <<>>

VARIABLES
    now,            \* int(time.time())
    disk,           \* disk[p]: mtime of file p and the uploads it consists of
    received,       \* the directory received/ exists
    up,             \* up[u]: how far stash_upload(u) is
    dest,           \* dest[u]: the path stash_upload(u) has chosen
    met,            \* history: pairs of uploads of one name that may collide
    configured,     \* the sender is registered
    at,             \* at[s]: how far the call s is
    path,           \* path[s]: the file s is to send
    cutoff,         \* cutoff[s]: what is older than this s prunes
    listed,         \* listed[s]: the files s has still to look at
    doomed,         \* doomed[s]: the file s has found too old
    tries,          \* tries[s]: calls so far
    others,         \* others[s]: history: another call took the file s had found
    vanished        \* vanished[s]: history: s found the file, then it was gone

uploadVars == <<up, dest, met>>
pruneVars == <<cutoff, listed, doomed>>
sendVars == <<at, path, pruneVars, tries, others, vanished>>
vars == <<now, disk, received, uploadVars, configured, sendVars>>

Pruning == {"pruning", "unlinking", "emptied"}
Busy == {"pruned", "resolved", "uploading"} \cup Pruning

TypeOK ==
    /\ now \in 0 .. MaxTime
    /\ DOMAIN disk \subseteq Paths
    /\ \A p \in DOMAIN disk :
        disk[p].mtime \in 0 .. now /\ disk[p].by \subseteq Uploads
    /\ received \in BOOLEAN /\ configured \in BOOLEAN
    /\ DOMAIN disk # {} => received
    /\ up \in [Uploads -> {"none", "chosen", "copying", "kept", "pruned",
                           "failed"}]
    /\ dest \in [Uploads -> Paths \cup {NoPath}]
    /\ met \subseteq SUBSET Uploads
    /\ at \in [Sends -> {"none", "ok", "error"} \cup Busy]
    /\ path \in [Sends -> Paths \cup {NoPath}]
    /\ cutoff \in [Sends -> Int] /\ listed \in [Sends -> SUBSET Paths]
    /\ doomed \in [Sends -> Paths \cup {NoPath}]
    /\ tries \in [Sends -> 0 .. MaxTries]
    /\ others \in [Sends -> BOOLEAN] /\ vanished \in [Sends -> BOOLEAN]

PlainOf(u) == <<NameOf[u], Plain>>

Init ==
    /\ now = 0 /\ configured = TRUE
    /\ disk = [p \in {PlainOf(u) : u \in Earlier} |->
                [mtime |-> 0, by |-> {u \in Earlier : PlainOf(u) = p}]]
    /\ received = (Earlier # {})
    /\ up = [u \in Uploads |-> IF u \in Earlier THEN "kept" ELSE "none"]
    /\ dest = [u \in Uploads |-> IF u \in Earlier THEN PlainOf(u) ELSE NoPath]
    /\ met = {}
    /\ at = [s \in Sends |-> "none"] /\ path = [s \in Sends |-> NoPath]
    /\ cutoff = [s \in Sends |-> 0] /\ listed = [s \in Sends |-> {}]
    /\ doomed = [s \in Sends |-> NoPath]
    /\ tries = [s \in Sends |-> 0]
    /\ others = [s \in Sends |-> FALSE] /\ vanished = [s \in Sends |-> FALSE]

Tick ==
    /\ now < MaxTime /\ now' = now + 1
    /\ UNCHANGED <<disk, received, configured, uploadVars, sendVars>>

----------------------------------------------------------------------------
(* stash_upload, on a thread for each upload.  An upload that the policy   *)
(* refuses (name, size, switched off) leaves the disk alone and is left    *)
(* out.                                                                    *)

(* Uploads of u's name that are under way, or took their name this second. *)
Meets(u) ==
    {v \in Uploads \ {u} :
        /\ NameOf[v] = NameOf[u]
        /\ (up[v] \in {"chosen", "copying"} \/ dest[v] = <<NameOf[u], now>>)}

(* The name is taken whether it exists or not.                             *)
WrongFreeName(u) == PlainOf(u)

(* The plain name if it is free, or else one with the time in seconds,     *)
(* which is not looked up.  The directory is made before.                  *)
FreeName(u) ==
    IF PlainOf(u) \in DOMAIN disk THEN <<NameOf[u], now>> ELSE PlainOf(u)

StashBegins(u) ==
    /\ up[u] = "none"
    /\ up' = [up EXCEPT ![u] = "chosen"]
    /\ dest' = [dest EXCEPT ![u] = FreeName(u)]
    /\ met' = met \cup {{u, v} : v \in Meets(u)}
    /\ received' = TRUE
    /\ UNCHANGED <<now, disk, configured, sendVars>>

(* copyfile opens the target, which empties it, or cannot: never without   *)
(* the directory.  Then the upload is not stashed.                         *)
OpenTarget(u) ==
    /\ up[u] = "chosen"
    /\ \/ /\ received
          /\ up' = [up EXCEPT ![u] = "copying"]
          /\ disk' = [p \in DOMAIN disk \cup {dest[u]} |->
                        IF p = dest[u] THEN [mtime |-> now, by |-> {}]
                                       ELSE disk[p]]
       \/ /\ up' = [up EXCEPT ![u] = "failed"]
          /\ UNCHANGED disk
    /\ UNCHANGED <<now, received, configured, dest, met, sendVars>>

(* ... and has copied everything, into a file that may be gone by now.     *)
Copied(u) ==
    /\ up[u] = "copying"
    /\ IF dest[u] \in DOMAIN disk
       THEN /\ up' = [up EXCEPT ![u] = "kept"]
            /\ disk' = [disk EXCEPT ![dest[u]] =
                          [mtime |-> now, by |-> @.by \cup {u}]]
       ELSE /\ up' = [up EXCEPT ![u] = "pruned"]
            /\ UNCHANGED disk
    /\ UNCHANGED <<now, received, configured, dest, met, sendVars>>

(* ... or fails half-way and leaves what it has written.                   *)
CopyFails(u) ==
    /\ up[u] = "copying"
    /\ up' = [up EXCEPT ![u] = "failed"]
    /\ disk' = [p \in DOMAIN disk |->
                  IF p = dest[u] THEN [disk[p] EXCEPT !.mtime = now] ELSE disk[p]]
    /\ UNCHANGED <<now, received, configured, dest, met, sendVars>>

----------------------------------------------------------------------------
(* prune_outbox, by any call: it lists the files, and removes those not    *)
(* changed for the TTL one by one, then the directory if nothing is left.  *)

Reaches(s, w) == at' = [at EXCEPT ![s] = w]

StartPruning(s) ==
    /\ Reaches(s, "pruning")
    /\ cutoff' = [cutoff EXCEPT ![s] = now - TTL]
    /\ listed' = [listed EXCEPT ![s] = DOMAIN disk]

(* The age of the next file, which may be gone.                            *)
LookAtNext(s) ==
    /\ at[s] = "pruning"
    /\ \E p \in listed[s] :
        /\ listed' = [listed EXCEPT ![s] = @ \ {p}]
        /\ IF p \in DOMAIN disk /\ disk[p].mtime < cutoff[s]
           THEN Reaches(s, "unlinking") /\ doomed' = [doomed EXCEPT ![s] = p]
           ELSE UNCHANGED <<at, doomed>>
    /\ UNCHANGED <<now, disk, received, configured, uploadVars, path, cutoff,
                   tries, others, vanished>>

(* The file is removed, whatever has been written to it since; a failure   *)
(* is ignored.                                                             *)
Unlink(s) ==
    /\ at[s] = "unlinking" /\ Reaches(s, "pruning")
    /\ doomed' = [doomed EXCEPT ![s] = NoPath]
    /\ \E gone \in {{}, {doomed[s]}} :
        /\ disk' = Restrict(disk, DOMAIN disk \ gone)
        /\ up' = [u \in Uploads |-> IF up[u] = "kept" /\ dest[u] \in gone
                                    THEN "pruned" ELSE up[u]]
        /\ others' = [x \in Sends |->
             others[x] \/ (x # s /\ at[x] \in {"resolved", "uploading"}
                            /\ path[x] \in gone)]
    /\ UNCHANGED <<now, received, configured, dest, met, path, cutoff, listed,
                   tries, vanished>>

(* After the last file, is the directory there and empty?                  *)
LookForMore(s) ==
    /\ at[s] = "pruning" /\ listed[s] = {}
    /\ Reaches(s, IF received /\ DOMAIN disk = {} THEN "emptied" ELSE "pruned")
    /\ cutoff' = [cutoff EXCEPT ![s] = 0]
    /\ UNCHANGED <<now, disk, received, configured, uploadVars, path, listed,
                   doomed, tries, others, vanished>>

(* It is removed, if it is empty still.                                    *)
RemoveDirectory(s) ==
    /\ at[s] = "emptied" /\ Reaches(s, "pruned")
    /\ received' = (received /\ DOMAIN disk # {})
    /\ UNCHANGED <<now, disk, configured, uploadVars, path, pruneVars, tries,
                   others, vanished>>

Prune(s) == LookAtNext(s) \/ Unlink(s) \/ LookForMore(s) \/ RemoveDirectory(s)

----------------------------------------------------------------------------
(* chat_send_file and /sendfile. *)

(* The call goes on, or it ends with what the caller is told.             *)
Goto(s, w) == Reaches(s, w) /\ UNCHANGED path

End(s, told) == Reaches(s, told) /\ path' = [path EXCEPT ![s] = NoPath]

(* Somebody names the file of an upload that was kept; after an error the  *)
(* model, or the user, may try again.                                      *)
CanCall(s, u) ==
    /\ at[s] \in {"none", "error"} /\ tries[s] < MaxTries
    /\ up[u] \in {"kept", "pruned"}

Called(s, u) ==
    /\ path' = [path EXCEPT ![s] = dest[u]]
    /\ tries' = [tries EXCEPT ![s] = @ + 1]
    /\ others' = [others EXCEPT ![s] = FALSE]
    /\ vanished' = [vanished EXCEPT ![s] = FALSE]

(* The file is looked for, then what is old is pruned.                     *)
WrongCall(s, u) ==
    /\ CanCall(s, u) /\ Called(s, u)
    /\ dest[u] \in DOMAIN disk /\ Reaches(s, "resolved")
    /\ LET old == {p \in DOMAIN disk : disk[p].mtime < now - TTL}
       IN  /\ disk' = Restrict(disk, DOMAIN disk \ old)
           /\ up' = [v \in Uploads |-> IF up[v] = "kept" /\ dest[v] \in old
                                       THEN "pruned" ELSE up[v]]
    /\ UNCHANGED <<now, received, dest, met, configured, pruneVars>>

(* The call prunes first, then it looks for the file.                      *)
Call(s, u) ==
    /\ CanCall(s, u) /\ Called(s, u)
    /\ StartPruning(s)
    /\ UNCHANGED <<now, disk, received, uploadVars, configured, doomed>>

(* resolve_sendable_path: the file must be there and not be empty.  One    *)
(* that is being copied may have its first bytes already.                  *)
Resolve(s) ==
    /\ at[s] = "pruned"
    /\ \/ path[s] \in DOMAIN disk /\ Goto(s, "resolved")
       \/ /\ (path[s] \in DOMAIN disk => disk[path[s]].by = {})
          /\ End(s, "error")
    /\ UNCHANGED <<now, disk, received, configured, uploadVars, pruneVars,
                   tries, others, vanished>>

(* The tool finds no sender any more.                                      *)
NotConfigured(s) ==
    /\ at[s] = "resolved" /\ s \in Tools /\ ~configured
    /\ End(s, "error")
    /\ UNCHANGED <<now, disk, received, configured, uploadVars, pruneVars,
                   tries, others, vanished>>

(* The loop runs send_document, which reads the file.                      *)
Upload(s) ==
    /\ at[s] = "resolved" /\ configured
    /\ IF path[s] \in DOMAIN disk
       THEN Goto(s, "uploading") /\ UNCHANGED vanished
       ELSE End(s, "error") /\ vanished' = [vanished EXCEPT ![s] = TRUE]
    /\ UNCHANGED <<now, disk, received, configured, uploadVars, pruneVars,
                   tries, others>>

(* Telegram has answered.  The tool then asks for the size of the file,    *)
(* which another call may have pruned: an error, though it was delivered.  *)
Answered(s) ==
    /\ at[s] = "uploading" /\ configured
    /\ IF s \in Tools /\ path[s] \notin DOMAIN disk
       THEN End(s, "error") /\ vanished' = [vanished EXCEPT ![s] = TRUE]
       ELSE End(s, "ok") /\ UNCHANGED vanished
    /\ UNCHANGED <<now, disk, received, configured, uploadVars, pruneVars,
                   tries, others>>

(* The wait for the loop has no limit, only the request has.               *)
WrongGivesUp(s) ==
    /\ at[s] = "uploading" /\ configured
    /\ End(s, "error")
    /\ UNCHANGED <<now, disk, received, configured, uploadVars, pruneVars,
                   tries, others, vanished>>

(* The request fails or is not answered in 180 s, whether Telegram has     *)
(* taken the document or not; or the tool has waited as long for the loop, *)
(* and cancels it; or the loop ends with the command in it.                *)
GivesUp(s) ==
    /\ at[s] \in {"resolved", "uploading"}
    /\ at[s] = "resolved" => s \in Tools \/ ~configured
    /\ End(s, "error")
    /\ UNCHANGED <<now, disk, received, configured, uploadVars, pruneVars,
                   tries, others, vanished>>

(* stop(): reset_file_sender.  Uploading ends with the loop.               *)
Stop ==
    /\ configured /\ configured' = FALSE
    /\ UNCHANGED <<now, disk, received, uploadVars, sendVars>>

Stash(u) == StashBegins(u) \/ OpenTarget(u) \/ Copied(u) \/ CopyFails(u)

Proceed(s) ==
    \/ Prune(s)
    \/ Resolve(s) \/ NotConfigured(s) \/ Upload(s) \/ Answered(s)
    \/ GivesUp(s)

Next ==
    \/ \E u \in Uploads : Stash(u)
    \/ \E s \in Sends :
        \/ \E u \in Uploads : Call(s, u)
        \/ Proceed(s)
    \/ Stop
    \/ Tick

Spec == Init /\ [][Next]_vars

(* Threads and the loop run; every wait has its limit.                     *)
LiveSpec == Spec /\ \A s \in Sends : WF_vars(Proceed(s))

----------------------------------------------------------------------------
(* Properties *)

(* "keep both rather than overwrite": the file an upload was kept in holds *)
(* that upload and nothing else, unless another upload of its name ran at  *)
(* the same time or was named in the same second (stash_upload, whose      *)
(* lookup, choice and copy are not atomic, against prune_outbox).          *)
KeptApart ==
    \A u \in Uploads :
        up[u] = "kept" =>
            \/ dest[u] \in DOMAIN disk /\ disk[dest[u]].by = {u}
            \/ \E v \in Uploads : v # u /\ {u, v} \in met

(* A file that was found and then is gone was removed by another call: no  *)
(* call deletes what it has validated itself ("Prune before resolving",    *)
(* SendFileTool._invoke and SendFileCommand.handle).                       *)
VanishesByOthers == \A s \in Sends : vanished[s] => others[s]

(* Every call ends, whatever Telegram does and also when the bot stops in  *)
(* the middle of it (SEND_TIMEOUT_SECONDS in send_document_sync).          *)
CallsEnd == \A s \in Sends : at[s] \in Busy ~> at[s] \in {"ok", "error"}

(* Not kept by the code: an upload is kept apart from all others.          *)
KeepsBoth ==
    \A u, v \in Uploads :
        u # v /\ up[u] = "kept" /\ up[v] = "kept" => dest[u] # dest[v]

=============================================================================
