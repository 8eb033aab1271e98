---------------------------- MODULE FileStorage ----------------------------
(***************************************************************************)
(* Uploads saved by concurrent requests: Context.SaveUploadFile and the    *)
(* LocalFileStorage it calls (core/file.go), with its RWMutex and the loop *)
(* that looks for a free name.                                             *)
(*                                                                         *)
(* A name is the number of random strings put in front of the name of the  *)
(* upload.  The process ends where the Go runtime ends it: Unlock of an    *)
(* RWMutex no writer holds is a fatal error that nothing recovers.  Every  *)
(* Save that leaves getAlternativeName meets it, so no Save gets to its    *)
(* own Lock, to os.Create or to io.Copy, and there are no actions for them.*)
(***************************************************************************)
EXTENDS Integers, FiniteSets

CONSTANTS Savers,   \* requests that save an upload
          Limit,    \* longest name the file system takes
          Roots     \* states of MediaRoot the process may start with

ASSUME StorageAssumption ==
    /\ Limit \in Nat
    /\ Roots \subseteq {"present", "missing", "unusable"}

VARIABLES
    root,      \* MediaRoot: "unusable" if a file is in its place
    files,     \* the names in it that exist
    readers,   \* RWMutex: goroutines holding it with RLock
    writer,    \* RWMutex: a goroutine holds it with Lock
    pc,        \* where each request is
    name,      \* the name it tries
    alive      \* the process runs

vars == <<root, files, readers, writer, pc, name, alive>>

-----------------------------------------------------------------------------
(* os.Stat, external.                                                      *)

Stat(n) ==
    IF root = "unusable" \/ n > Limit THEN "error"
    ELSE IF root = "present" /\ n \in files THEN "found" ELSE "notExist"

-----------------------------------------------------------------------------
(* SaveUploadFileWith and Save.                                            *)

At(s, step) == alive /\ pc[s] = step
Goto(s, step) == pc' = [pc EXCEPT ![s] = step]

\* A storage was given, FormFile finds the upload and it can be closed.
SaveUploadFileWith(s) ==
    /\ At(s, "idle")
    /\ Goto(s, "save")
    /\ UNCHANGED <<root, files, readers, writer, name, alive>>

\* One of these, or fileHeader.Open in Save, returns an error.
UploadFails(s) ==
    /\ At(s, "idle") \/ At(s, "save")
    /\ Goto(s, "error")
    /\ UNCHANGED <<root, files, readers, writer, name, alive>>

\* Mutant: the search takes no lock.
RLockForgotten(s) ==
    /\ At(s, "save")
    /\ ~writer
    /\ name' = [name EXCEPT ![s] = 0]
    /\ Goto(s, "naming")
    /\ UNCHANGED <<root, files, readers, writer, alive>>

\* The error of os.Stat(MediaRoot) is never one os.IsExist holds of, so that
\* the directory is not made; then getAlternativeName takes the lock.
RLock(s) ==
    /\ At(s, "save")
    /\ ~writer
    /\ readers' = readers \cup {s}
    /\ name' = [name EXCEPT ![s] = 0]
    /\ Goto(s, "naming")
    /\ UNCHANGED <<root, files, writer, alive>>

\* Mutant: the answer for a file that is found is the wrong one too.
fileExistsInverted(n) == Stat(n) = "notExist"

\* os.IsNotExist(err) is returned for the answer.
fileExists(n) == Stat(n) \in {"found", "notExist"}

\* Mutant: the random string replaces the one before.
TryNameAgain(s) ==
    /\ At(s, "naming")
    /\ fileExists(name[s])
    /\ name' = [name EXCEPT ![s] = 1]
    /\ UNCHANGED <<root, files, readers, writer, pc, alive>>

\* The name is taken: another random string is put in front.
TryName(s) ==
    /\ At(s, "naming")
    /\ fileExists(name[s])
    /\ name' = [name EXCEPT ![s] = @ + 1]
    /\ UNCHANGED <<root, files, readers, writer, pc, alive>>

\* getAlternativeName returns; its deferred call is lock.Unlock().
ReturnName(s) ==
    /\ At(s, "naming")
    /\ ~fileExists(name[s])
    /\ alive' = writer
    /\ writer' = FALSE
    /\ Goto(s, "named")
    /\ UNCHANGED <<root, files, readers, name>>

\* The request is answered and its goroutine serves another.
Again(s) ==
    /\ At(s, "error")
    /\ Goto(s, "idle")
    /\ UNCHANGED <<root, files, readers, writer, name, alive>>

\* Someone else adds files to the directory, or removes some.
Outside ==
    /\ alive /\ root = "present"
    /\ files' \in SUBSET (0..Limit)
    /\ UNCHANGED <<root, readers, writer, pc, name, alive>>

Init ==
    /\ root \in Roots
    /\ files = {}
    /\ readers = {} /\ writer = FALSE
    /\ pc = [s \in Savers |-> "idle"]
    /\ name = [s \in Savers |-> 0]
    /\ alive = TRUE

Naming(s) == TryName(s) \/ ReturnName(s)

Next ==
    \/ \E s \in Savers :
        \/ SaveUploadFileWith(s) \/ UploadFails(s) \/ RLock(s)
        \/ Naming(s) \/ Again(s)
    \/ Outside

\* A goroutine in the loop is scheduled; the loop waits for nothing.
Fairness == \A s \in Savers : WF_vars(Naming(s))

Spec == Init /\ [][Next]_vars /\ Fairness

-----------------------------------------------------------------------------
(* Properties.                                                             *)

\* The search for a name runs under the read lock, which nobody else holds, and
\* a writer excludes it; it never tries more than one name beyond the limit.
TypeOK ==
    /\ root \in Roots
    /\ files \subseteq 0..Limit
    /\ {s \in Savers : pc[s] = "naming"} \subseteq readers
    /\ readers \subseteq {s \in Savers : pc[s] \in {"naming", "named"}}
    /\ writer \in BOOLEAN /\ (writer => readers = {})
    /\ pc \in [Savers -> {"idle", "save", "naming", "named", "error"}]
    /\ name \in [Savers -> 0..(Limit + 1)]
    /\ alive \in BOOLEAN

\* getAlternativeName never returns the name of a file that is there: Save would
\* go on to os.Create, which empties it.  The directory may change at any time,
\* so this is asked of the step that returns the name.
NeverNamesTaken ==
    [][\A s \in Savers :
         pc[s] = "naming" /\ pc'[s] = "named" =>
             ~(root = "present" /\ name[s] \in files)]_vars

\* One upload that gets as far as naming its file is the end of the process,
\* with all requests that are being served.
NamingEndsProcess == (\E s \in Savers : pc[s] = "naming") ~> ~alive
=============================================================================
