---------------------------- MODULE KubeCommands ----------------------------
(***************************************************************************)
(* The commands that run subprocesses - /shell, /kshell and /reconcile of  *)
(* handlers/command_handler.py - and the kubeconfigs that the last two use *)
(* (utils/kubeconfig_crypto.py): kept encrypted in a directory of mode 000,*)
(* decrypted to a tempfile while a command runs.                           *)
(*                                                                         *)
(* A handler acknowledges the command and leaves the rest to a task of the *)
(* event loop; what the task does between two awaits is one step, unless   *)
(* the process dies in it.  A migration runs within one such step, but the *)
(* operator, who shares the directory, does not wait for it: each file     *)
(* operation of it is a step, with the loop busy until its end.  The bot   *)
(* runs as root, which reads the directory whatever its mode.              *)
(*                                                                         *)
(* External: the operator, who puts kubeconfigs into the directory, each   *)
(* in one step; the commands, which end, fail or hang; kubectl; Telegram.  *)
(***************************************************************************)
EXTENDS Integers

CONSTANTS
    Kubeconfigs,    \* names the operator uses, without .enc
    Shell, Kshell, Reconcile,   \* calls of the three commands
    UserOf,         \* UserOf[j]: the kubeconfig that call j of /kshell names
    MaxStores,      \* bound of the model: files the operator brings
    MaxCrashes      \* bound of the model: ends of the process

Jobs == Shell \cup Kshell \cup Reconcile

(* k.enc.tmp, which an encryption of k that failed leaves, has no suffix   *)
(* .enc: it is a file to encrypt like any other.  (Its own .tmp is left    *)
(* out.)                                                                   *)
Tmp(k) == <<k, "tmp">>
Names == Kubeconfigs \cup {Tmp(k) : k \in Kubeconfigs}

ASSUME ConstantsAssumption ==
    /\ Shell \cap Kshell = {} /\ (Shell \cup Kshell) \cap Reconcile = {}
    /\ UserOf \in [Kshell -> Kubeconfigs]
    /\ \A n \in Names : Tmp(n) \notin Kubeconfigs
    /\ MaxStores \in Nat /\ MaxCrashes \in Nat

VARIABLES
    plain,      \* plain[n]: the content of file n of the directory
    enc,        \* enc[n]: what n.enc decrypts to
    open,       \* the directory is of mode 777
    temps,      \* tempfiles: the call and the kubeconfig in it
    at,         \* at[j]: how far the task of call j is
    step,       \* how far the migration is with its file, "no" without one
    by,         \* the call that migrates
    rest,       \* files of the listing it has still to encrypt
    file,       \* the file it encrypts
    copied,     \* what it has read from that file
    stores,     \* files brought so far
    crashes,    \* ends of the process so far
    latest,     \* history: latest[k]: the content brought last for k
    spoilt,     \* history: kubeconfigs whose shredding was cut off by a crash
                \* or failed, or which were brought while encrypted
    excused     \* history: the directory was left open by a crash or by chmod

migration == <<step, by, rest, file, copied>>
files == <<plain, enc, migration, latest, spoilt>>
vars == <<files, open, temps, at, stores, crashes, excused>>

(* The operator's files are numbered; an absent file, and one of bytes     *)
(* that are no kubeconfig.                                                 *)
None == 0
Garbage == -1
Contents == {None, Garbage} \cup 1 .. MaxStores

NoJob == "none"
NoFile == <<>>

Unlocking == {"open", "running", "locking", "notOpened", "relocking"}
Live == {"acked", "replying"} \cup Unlocking
Encrypting == {"read", "aside", "renamed", "overwritten"}

TypeOK ==
    /\ plain \in [Names -> Contents] /\ enc \in [Names -> Contents]
    /\ open \in BOOLEAN /\ excused \in BOOLEAN
    /\ temps \subseteq (Kshell \cup Reconcile) \X Names
    /\ at \in [Jobs -> {"none", "finished", "died", "cancelled", "lost"} \cup Live]
    /\ \A j \in Shell \cup Kshell :
        at[j] \notin {"open", "locking", "notOpened", "relocking"}
    /\ step \in {"no", "next"} \cup Encrypting
    /\ step # "no" => \/ by \in Kshell /\ at[by] = "none"
                      \/ by \in Reconcile /\ at[by] = "open"
    /\ rest \subseteq Names /\ (step \in Encrypting => file \in Names)
    /\ copied \in Contents
    /\ stores \in 0 .. MaxStores /\ crashes \in 0 .. MaxCrashes
    /\ latest \in [Kubeconfigs -> 0 .. MaxStores] /\ spoilt \subseteq Kubeconfigs

Init ==
    /\ plain = [n \in Names |-> None]
    /\ enc = [n \in Names |-> None]
    /\ open = FALSE /\ excused = FALSE /\ temps = {}
    /\ at = [j \in Jobs |-> "none"]
    /\ step = "no" /\ by = NoJob /\ rest = {} /\ file = NoFile /\ copied = None
    /\ stores = 0 /\ crashes = 0
    /\ latest = [k \in Kubeconfigs |-> None] /\ spoilt = {}

Goto(j, w) == at' = [at EXCEPT ![j] = w]

(* The operator brings a kubeconfig, a new one or a newer one.             *)
Store(k) ==
    /\ stores < MaxStores /\ stores' = stores + 1
    /\ plain' = [plain EXCEPT ![k] = stores']
    /\ latest' = [latest EXCEPT ![k] = stores']
    /\ spoilt' = IF step \in Encrypting /\ file = k THEN spoilt \cup {k}
                                                    ELSE spoilt \ {k}
    /\ UNCHANGED <<enc, migration, open, temps, at, crashes, excused>>

----------------------------------------------------------------------------
(* migrate_kubeconfigs and encrypt_file.  A file that could not be         *)
(* encrypted is reported and the next one is taken.                        *)

Plaintexts == {n \in Names : plain[n] # None}

(* The directory is listed.                                                *)
StartMigration(j) ==
    /\ step' = "next" /\ by' = j /\ rest' = Plaintexts
    /\ UNCHANGED <<plain, enc, file, copied, latest, spoilt>>

EndMigration ==
    /\ step' = "no" /\ by' = NoJob /\ rest' = {}
    /\ UNCHANGED <<plain, enc, file, copied, latest, spoilt>>

(* The encryption of the file is over, successful or not.                  *)
NextPlease ==
    /\ step' = "next" /\ file' = NoFile /\ copied' = None
    /\ UNCHANGED <<by, rest>>

(* The next file of the sorted listing (k.enc.tmp comes after k), unless   *)
(* it is gone, is read, or cannot be.                                      *)
ReadNext ==
    /\ step = "next"
    /\ \E n \in rest :
        /\ \A k \in rest : n # Tmp(k)
        /\ rest' = rest \ {n}
        /\ \/ /\ plain[n] # None
              /\ step' = "read" /\ file' = n /\ copied' = plain[n]
           \/ UNCHANGED <<step, file, copied>>
    /\ UNCHANGED <<plain, enc, by, latest, spoilt>>

(* The ciphertext is written to file.enc.tmp, which stays there when the   *)
(* write fails half-way.                                                   *)
WriteAside ==
    /\ step = "read"
    /\ plain' \in {plain} \cup {[plain EXCEPT ![Tmp(k)] = Garbage] :
                                k \in Kubeconfigs \cap {file}}
    /\ \/ /\ file \in Kubeconfigs => plain'[Tmp(file)] = Garbage
          /\ step' = "aside" /\ UNCHANGED <<by, rest, file, copied>>
       \/ NextPlease
    /\ UNCHANGED <<enc, latest, spoilt>>

(* ... and renamed to file.enc.                                            *)
Renamed ==
    /\ enc' = [enc EXCEPT ![file] = copied]
    /\ plain' = [n \in Names |-> IF n = Tmp(file) THEN None ELSE plain[n]]
    /\ step' = "renamed"
    /\ UNCHANGED <<by, rest, file, copied, latest, spoilt>>

(* A failed rename does not keep the plaintext from being shredded.        *)
WrongRename ==
    /\ step = "aside"
    /\ \/ Renamed
       \/ step' = "renamed" /\ UNCHANGED <<plain, enc, by, rest, file, copied, latest, spoilt>>

Rename ==
    /\ step = "aside"
    /\ Renamed \/ (NextPlease /\ UNCHANGED <<plain, enc, latest, spoilt>>)

(* _secure_delete overwrites what is now in the file with random bytes; a  *)
(* failure is ignored.                                                     *)
Overwrite ==
    /\ step = "renamed" /\ step' = "overwritten"
    /\ plain' \in {plain, [plain EXCEPT ![file] = Garbage]}
    /\ UNCHANGED <<enc, by, rest, file, copied, latest, spoilt>>

(* ... and removes it.  When that fails, encrypt_file goes on as after any *)
(* other failure, and the overwritten file stays beside the encrypted one. *)
Unlink ==
    /\ step = "overwritten"
    /\ \/ plain' = [plain EXCEPT ![file] = None] /\ UNCHANGED spoilt
       \/ /\ UNCHANGED plain
          /\ spoilt' = IF plain[file] = Garbage THEN spoilt \cup (Kubeconfigs \cap {file})
                                                ELSE spoilt
    /\ NextPlease
    /\ UNCHANGED <<enc, latest>>

EncryptStep ==
    /\ ReadNext \/ WriteAside \/ Rename \/ Overwrite \/ Unlink
    /\ UNCHANGED <<open, temps, at, stores, crashes, excused>>

(* j has been through all files of the listing.                            *)
Migrated(j) == by = j /\ step = "next" /\ rest = {}

----------------------------------------------------------------------------
(* The handlers, which end with the acknowledgement, and the tasks. *)

CallShell(j) ==
    /\ j \in Shell /\ at[j] = "none"
    /\ Goto(j, "acked")
    /\ UNCHANGED <<files, open, temps, stores, crashes, excused>>

(* /kshell encrypts what there is ...                                      *)
CallKshell(j) ==
    /\ j \in Kshell /\ at[j] = "none"
    /\ StartMigration(j)
    /\ UNCHANGED <<open, temps, at, stores, crashes, excused>>

(* ... then looks for the name it was given.                               *)
KshellFinds(j) ==
    /\ j \in Kshell /\ Migrated(j)
    /\ EndMigration
    /\ Goto(j, IF enc[UserOf[j]] = None THEN "finished" ELSE "acked")
    /\ UNCHANGED <<open, temps, stores, crashes, excused>>

CallReconcile(j) ==
    /\ j \in Reconcile /\ at[j] = "none"
    /\ Goto(j, "acked")
    /\ UNCHANGED <<files, open, temps, stores, crashes, excused>>

(* The subprocess is started, or cannot be.                                *)
Spawn(j) ==
    /\ j \in Shell /\ at[j] = "acked"
    /\ \E w \in {"running", "replying"} : Goto(j, w)
    /\ UNCHANGED <<files, open, temps, stores, crashes, excused>>

(* _run_kshell_and_edit: decrypt_to_tempfile raises when there is no room  *)
(* for a tempfile, outside the try; otherwise the kubeconfig is decrypted  *)
(* and the subprocess started.                                             *)
Decrypt(j) ==
    /\ j \in Kshell /\ at[j] = "acked"
    /\ \/ Goto(j, "died") /\ UNCHANGED temps
       \/ Goto(j, "replying") /\ UNCHANGED temps
       \/ /\ enc[UserOf[j]] # None
          /\ \E w \in {"running", "replying"} : Goto(j, w)
          /\ temps' = temps \cup {<<j, UserOf[j]>>}
    /\ UNCHANGED <<files, open, stores, crashes, excused>>

(* The command of /shell or /kshell ends by itself.                        *)
CommandEnds(j) ==
    /\ j \in Shell \cup Kshell /\ at[j] = "running"
    /\ Goto(j, "replying")
    /\ UNCHANGED <<files, open, temps, stores, crashes, excused>>

(* Only the shell is killed: its children keep the pipe open.              *)
WrongTimesOut(j) ==
    /\ j \in Shell \cup Kshell /\ at[j] = "running"
    /\ UNCHANGED vars

(* ... or is killed with its process group after 120 s.                    *)
TimesOut(j) ==
    /\ j \in Shell \cup Kshell /\ at[j] = "running"
    /\ Goto(j, "replying")
    /\ UNCHANGED <<files, open, temps, stores, crashes, excused>>

(* Returning after the reply skips the tempfile.                           *)
WrongReply(j) ==
    /\ at[j] = "replying"
    /\ Goto(j, "finished")
    /\ UNCHANGED <<files, open, temps, stores, crashes, excused>>

(* _edit_shell_reply gives up quietly after three attempts; then finally   *)
(* shreds the tempfile.                                                    *)
Reply(j) ==
    /\ at[j] = "replying"
    /\ Goto(j, "finished")
    /\ temps' = temps \ ({j} \X Names)
    /\ UNCHANGED <<files, open, stores, crashes, excused>>

----------------------------------------------------------------------------
(* _run_reconcile_and_edit *)

(* chmod -R 777; it may fail half-way.                                     *)
Unlock(j) ==
    /\ j \in Reconcile /\ at[j] = "acked"
    /\ \/ open' = TRUE /\ Goto(j, "open")
       \/ open' \in {open, TRUE} /\ Goto(j, "notOpened")
    /\ UNCHANGED <<files, temps, stores, crashes, excused>>

(* A failed chmod is reported and that is all.                             *)
WrongReportNotOpened(j) ==
    /\ at[j] = "notOpened"
    /\ Goto(j, "finished")
    /\ UNCHANGED <<files, open, temps, stores, crashes, excused>>

(* A failed chmod is reported; finally the directory is locked again.      *)
ReportNotOpened(j) ==
    /\ at[j] = "notOpened"
    /\ Goto(j, "relocking")
    /\ UNCHANGED <<files, open, temps, stores, crashes, excused>>

(* Plaintexts are encrypted ...                                            *)
StartGather(j) ==
    /\ at[j] = "open"
    /\ StartMigration(j)
    /\ UNCHANGED <<open, temps, at, stores, crashes, excused>>

(* ... then all that is encrypted is decrypted to run in parallel; those   *)
(* that fail at once are done with.                                        *)
Gather(j) ==
    /\ j \in Reconcile /\ Migrated(j)
    /\ EndMigration
    /\ LET all == {n \in Names : enc[n] # None}
       IN  \E bad \in SUBSET all :
             /\ temps' = temps \cup ({j} \X (all \ bad))
             /\ Goto(j, IF all = bad THEN "locking" ELSE "running")
    /\ UNCHANGED <<open, stores, crashes, excused>>

(* process_kubeconfig is through with n, the shoot annotated or not, every *)
(* kubectl killed after 120 s at the latest: the tempfile is shredded.     *)
KubeconfigDone(j, n) ==
    /\ j \in Reconcile /\ at[j] = "running" /\ <<j, n>> \in temps
    /\ temps' = temps \ {<<j, n>>}
    /\ IF \E m \in Names : <<j, m>> \in temps'
       THEN UNCHANGED at ELSE Goto(j, "locking")
    /\ UNCHANGED <<files, open, stores, crashes, excused>>

(* chmod -R 000, which may fail unnoticed; the summary follows, unless the *)
(* failure of the other chmod has been reported.                           *)
Lock(j) ==
    /\ at[j] \in {"locking", "relocking"}
    /\ Goto(j, IF at[j] = "locking" THEN "replying" ELSE "finished")
    /\ \/ open' = FALSE /\ excused' = FALSE
       \/ excused' = TRUE /\ UNCHANGED open
    /\ UNCHANGED <<files, temps, stores, crashes>>

----------------------------------------------------------------------------
(* The end of the process *)

Lost(w) == at' = [j \in Jobs |-> IF at[j] \in Live THEN w ELSE at[j]]

(* stop(): the tasks are cancelled, and their finally clauses run; the     *)
(* chmod of one may fail here, too.                                        *)
Stop ==
    /\ crashes < MaxCrashes /\ crashes' = crashes + 1
    /\ Lost("cancelled")
    /\ temps' = {x \in temps : at[x[1]] \notin Live}
    /\ \/ /\ open' = (open /\ \A j \in Reconcile : at[j] \notin Unlocking)
          /\ UNCHANGED excused
       \/ /\ \E j \in Reconcile : at[j] \in Unlocking
          /\ excused' = TRUE /\ UNCHANGED open
    /\ UNCHANGED <<files, stores>>

(* The process is killed, in the middle of a migration or elsewhere.       *)
Crash ==
    /\ crashes < MaxCrashes /\ crashes' = crashes + 1
    /\ Lost("lost")
    /\ step' = "no" /\ by' = NoJob /\ rest' = {} /\ file' = NoFile /\ copied' = None
    /\ spoilt' = IF step = "overwritten" THEN spoilt \cup (Kubeconfigs \cap {file})
                                         ELSE spoilt
    /\ excused' = (excused \/ open)
    /\ UNCHANGED <<plain, enc, latest, open, temps, stores>>

(* The loop is not inside a migration.                                     *)
LoopFree == step = "no"

(* What a task does without waiting for a command or kubectl for ever:     *)
(* every subprocess is killed after 120 s.                                 *)
Proceed(j) ==
    /\ LoopFree
    /\ \/ Spawn(j) \/ Decrypt(j) \/ TimesOut(j) \/ Reply(j)
       \/ Unlock(j) \/ ReportNotOpened(j) \/ StartGather(j) \/ Lock(j)
       \/ \E n \in Names : KubeconfigDone(j, n)

(* What the loop does inside a migration.                                  *)
MigrationStep ==
    \/ EncryptStep
    \/ \E j \in Jobs : KshellFinds(j) \/ Gather(j)

Next ==
    \/ \E k \in Kubeconfigs : Store(k)
    \/ \E j \in Jobs :
        \/ LoopFree /\ (CallShell(j) \/ CallKshell(j) \/ CallReconcile(j))
        \/ Proceed(j)
        \/ LoopFree /\ CommandEnds(j)
    \/ MigrationStep
    \/ LoopFree /\ Stop
    \/ Crash

Spec == Init /\ [][Next]_vars

LiveSpec ==
    /\ Spec
    /\ WF_vars(MigrationStep)
    /\ \A j \in Jobs : WF_vars(Proceed(j))

----------------------------------------------------------------------------
(* Properties *)

(* What the operator brought last stays in the directory, in one form or   *)
(* the other, whatever commands migrate it and whatever fails or dies      *)
(* (encrypt_file: "Write atomically"), unless the end of its shredding     *)
(* failed or was cut off by a crash, or it was brought while the older one *)
(* was being encrypted.                                                    *)
KubeconfigsSurvive ==
    \A k \in Kubeconfigs : latest[k] # None /\ k \notin spoilt
        => latest[k] \in {plain[k], enc[k]}

(* Decrypted tempfiles belong to a command under way, also after stop();   *)
(* the others were left by a crash (cleanup_tempfile in finally clauses).  *)
TempfilesAreOwned ==
    \A x \in temps : at[x[1]] \in {"running", "replying", "lost"}

(* The directory is open only while some /reconcile is under way, unless a *)
(* crash or a failing chmod left it so ("locked down between invocations").*)
LockedBetween ==
    open => excused \/ \E j \in Reconcile : at[j] \in Unlocking

(* Commands that were acknowledged are seen to their end, however long     *)
(* they run, or end with the process: from some moment on none of the      *)
(* calls is under way (the 120 s limits and killpg).                       *)
CommandsEnd == <>[](\A j \in Jobs : at[j] \notin Live)

(* What migrate_kubeconfigs' docstring says ("Files that fail to encrypt   *)
(* are left as-is"), of a process that has not crashed.  The code violates *)
(* it: see the README.                                                     *)
FailedFilesStay ==
    crashes = 0 /\ step = "no" => \A k \in Kubeconfigs : plain[k] # Garbage

=============================================================================
