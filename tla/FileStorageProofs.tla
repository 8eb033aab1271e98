-------------------------- MODULE FileStorageProofs --------------------------
(***************************************************************************)
(* Theorems about FileStorage, for any number of uploads and any limit on  *)
(* the length of names.                                                    *)
(***************************************************************************)
EXTENDS FileStorage, TLAPS

\* Where the search ends: only at a name the file system refuses.  In a usable
\* directory every name it takes, free or not, is passed over, and the process
\* ends at the first that is too long.
NamedOnlyBeyondLimit ==
    \A s \in Savers :
        pc[s] = "named" => ~alive /\ (root = "unusable" \/ name[s] = Limit + 1)

\* The inductive invariant: who holds the lock, and where the search ended.
\* Typing alone is not inductive: that Unlock is fatal needs writer = FALSE,
\* and that a goroutine is past the search only in a dead process needs the
\* third part.
Inv == TypeOK /\ writer = FALSE /\ NamedOnlyBeyondLimit

-----------------------------------------------------------------------------

\* fileExists holds of no name beyond the limit, and of every other one in a
\* directory that can be used: the inverted answer for a missing file.
LEMMA ExistsWithinLimit ==
    ASSUME NEW n \in Nat
    PROVE  fileExists(n) <=> root # "unusable" /\ n <= Limit
  BY StorageAssumption DEF fileExists, Stat

\* The loop of getAlternativeName tries at most one name beyond the limit.
LEMMA TryNameKeepsInv ==
    ASSUME Inv, NEW s \in Savers, TryName(s)
    PROVE  Inv'
  <1> USE StorageAssumption DEF Inv, TypeOK
  <1>1. name[s] \in Nat /\ name[s] <= Limit
    BY ExistsWithinLimit DEF TryName
  <1>2. name' \in [Savers -> 0..(Limit + 1)]
    BY <1>1 DEF TryName
  <1>3. TypeOK' /\ writer' = FALSE
    BY <1>2 DEF TryName, At
  <1>4. NamedOnlyBeyondLimit'
    BY DEF TryName, At, NamedOnlyBeyondLimit
  <1> QED BY <1>3, <1>4

\* The deferred Unlock finds no writer and ends the process, at a name the
\* file system refuses.
LEMMA ReturnNameKeepsInv ==
    ASSUME Inv, NEW s \in Savers, ReturnName(s)
    PROVE  Inv'
  <1> USE StorageAssumption DEF Inv, TypeOK
  <1>1. name[s] \in 0..(Limit + 1) /\ (root = "unusable" \/ name[s] = Limit + 1)
    BY ExistsWithinLimit DEF ReturnName
  <1>2. ~alive' /\ ~writer'
    BY DEF ReturnName
  <1>3. pc' = [pc EXCEPT ![s] = "named"] /\ pc[s] = "naming" /\ alive
    BY DEF ReturnName, Goto, At
  <1>4. TypeOK' /\ writer' = FALSE
    BY <1>2, <1>3 DEF ReturnName
  <1>5. \A t \in Savers : pc'[t] = "named" => t = s
    BY <1>3 DEF NamedOnlyBeyondLimit
  <1>6. NamedOnlyBeyondLimit'
    BY <1>1, <1>2, <1>5 DEF ReturnName, NamedOnlyBeyondLimit
  <1> QED BY <1>4, <1>6

\* The steps before the search, in a process that is alive.
LEMMA OtherStepsKeepInv ==
    ASSUME Inv, NEW s \in Savers,
           SaveUploadFileWith(s) \/ UploadFails(s) \/ RLock(s) \/ Again(s)
    PROVE  Inv'
  <1> USE StorageAssumption DEF Inv, TypeOK, At, Goto
  <1>1. alive /\ \A t \in Savers : pc[t] # "named"
    BY DEF SaveUploadFileWith, UploadFails, RLock, Again, NamedOnlyBeyondLimit
  <1>2. CASE SaveUploadFileWith(s)
    BY <1>1, <1>2 DEF SaveUploadFileWith, NamedOnlyBeyondLimit
  <1>3. CASE UploadFails(s)
    BY <1>1, <1>3 DEF UploadFails, NamedOnlyBeyondLimit
  <1>4. CASE RLock(s)
    <2>1. name' \in [Savers -> 0..(Limit + 1)]
      BY <1>4 DEF RLock
    <2>2. pc' = [pc EXCEPT ![s] = "naming"] /\ readers' = readers \cup {s}
      BY <1>4 DEF RLock
    <2>3. TypeOK' /\ writer' = FALSE
      BY <1>4, <2>1, <2>2 DEF RLock
    <2>4. NamedOnlyBeyondLimit'
      BY <1>1, <2>2 DEF NamedOnlyBeyondLimit
    <2> QED BY <2>3, <2>4
  <1>5. CASE Again(s)
    BY <1>1, <1>5 DEF Again, NamedOnlyBeyondLimit
  <1> QED BY <1>2, <1>3, <1>4, <1>5

LEMMA StorageInductive == Init /\ [][Next]_vars => []Inv
  <1>1. Init => Inv
    <2> SUFFICES ASSUME Init PROVE Inv
      OBVIOUS
    <2>1. 0 \in 0..(Limit + 1)
      BY StorageAssumption
    <2>2. name \in [Savers -> 0..(Limit + 1)]
      BY <2>1 DEF Init
    <2>3. /\ pc \in [Savers -> {"idle", "save", "naming", "named", "error"}]
          /\ \A s \in Savers : pc[s] = "idle"
      BY DEF Init
    <2> QED BY <2>2, <2>3 DEF Init, Inv, TypeOK, NamedOnlyBeyondLimit
  <1>2. Inv /\ [Next]_vars => Inv'
    <2> SUFFICES ASSUME Inv, [Next]_vars PROVE Inv'
      OBVIOUS
    <2>1. CASE UNCHANGED vars
      BY <2>1 DEF vars, Inv, TypeOK, NamedOnlyBeyondLimit
    <2>2. CASE Outside
      BY <2>2 DEF Outside, Inv, TypeOK, NamedOnlyBeyondLimit
    <2>3. CASE \E s \in Savers : TryName(s)
      BY <2>3, TryNameKeepsInv
    <2>4. CASE \E s \in Savers : ReturnName(s)
      BY <2>4, ReturnNameKeepsInv
    <2>5. CASE \E s \in Savers : SaveUploadFileWith(s) \/ UploadFails(s)
                                 \/ RLock(s) \/ Again(s)
      BY <2>5, OtherStepsKeepInv
    <2> QED BY <2>1, <2>2, <2>3, <2>4, <2>5 DEF Next, Naming
  <1> QED BY <1>1, <1>2, PTL

-----------------------------------------------------------------------------

\* The search for a name runs under the read lock and no further than one name
\* beyond the limit, for any number of uploads.
THEOREM StorageTyped == Spec => []TypeOK
  <1>1. Inv => TypeOK
    BY DEF Inv
  <1> QED BY <1>1, StorageInductive, PTL DEF Spec

\* Whatever the directory holds, getAlternativeName returns only at a name
\* the file system refuses, and then the process is gone: no upload is saved.
THEOREM SearchEndsBeyondLimit == Spec => []NamedOnlyBeyondLimit
  <1>1. Inv => NamedOnlyBeyondLimit
    BY DEF Inv
  <1> QED BY <1>1, StorageInductive, PTL DEF Spec

\* Whatever others do to the directory, the name returned is not that of a file
\* in it.
THEOREM NameReturnedIsFree == Spec => NeverNamesTaken
  <1> DEFINE Free(s) == pc[s] = "naming" /\ pc'[s] = "named" =>
                          ~(root = "present" /\ name[s] \in files)
  <1>1. ASSUME Inv, [Next]_vars, NEW s \in Savers PROVE Free(s)
    <2> SUFFICES ASSUME pc[s] = "naming", pc'[s] = "named",
                        root = "present", name[s] \in files
                 PROVE  FALSE
      OBVIOUS
    <2> USE StorageAssumption DEF Inv, TypeOK
    <2>1. name[s] \in Nat /\ name[s] <= Limit
      BY <1>1
    <2>2. fileExists(name[s])
      BY <2>1, ExistsWithinLimit
    <2>3. PICK t \in Savers : ReturnName(t)
      BY <1>1 DEF Next, Naming, SaveUploadFileWith, UploadFails, RLock, Again,
                  TryName, Outside, vars, At, Goto
    <2>4. t = s
      BY <2>3 DEF ReturnName, Goto
    <2> QED BY <2>2, <2>3, <2>4 DEF ReturnName
  <1>2. Inv /\ [Next]_vars => [\A s \in Savers : Free(s)]_vars
    BY <1>1
  <1> QED BY <1>2, StorageInductive, PTL DEF Spec, NeverNamesTaken
=============================================================================
