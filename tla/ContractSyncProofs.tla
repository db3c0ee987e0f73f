-------------------------- MODULE ContractSyncProofs --------------------------
(***************************************************************************)
(* What check_drift.py says of this repository's copy of the contracts is  *)
(* so: for any files, contents and exclusions, however often both trees    *)
(* are edited between the commands.                                        *)
(***************************************************************************)
EXTENDS ContractSync, TLAPS

-----------------------------------------------------------------------------
(***************************************************************************)
(* Hashes tell the texts of two files apart, and none from some.           *)
(***************************************************************************)
LEMMA HashesAreOfTheText ==
    ASSUME NEW c \in Content \cup {None}, NEW d \in Content \cup {None}
    PROVE  /\ Sha256(c) \in Text \cup {None}
           /\ Sha256(c) = None <=> c = None
           /\ SameText(c, d) <=> Sha256(c) = Sha256(d)
<1>1. \A e \in Content : e.text \in Text /\ e # None /\ e.text # None
  BY SyncAssumption DEF Content
<1> QED BY <1>1 DEF Sha256, SameText

LEMMA TreesHaveHashes ==
    ASSUME NEW tree \in Tree
    PROVE  /\ HashesOf(tree) \in Hashes
           /\ \A f \in File : tree[f] \in Content \cup {None} /\ HashesOf(tree)[f] = Sha256(tree[f])
<1>1. \A f \in File : tree[f] \in Content \cup {None}
  BY DEF Tree
<1> QED BY <1>1, HashesAreOfTheText DEF HashesOf, Hashes

LEMMA SyncStart == Init => SyncInvariant
<1> SUFFICES ASSUME Init PROVE SyncInvariant
  OBVIOUS
<1>1. ours \in Tree /\ spring \in Tree
  BY DEF Init, Tree
<1>2. /\ head = None /\ manifest = None /\ last = None /\ said = "nothing" /\ edits \in 0 .. MaxEdits
  BY SyncAssumption DEF Init
<1> QED BY <1>1, <1>2 DEF SyncInvariant, SyncTypeOK, ManifestIsOfLastSync, SaidIsSo,
                          CheckTellsTheTruth, PassVouchesForSpring, DriftIsReal

-----------------------------------------------------------------------------
(***************************************************************************)
(* What the commands say follows from the rest of the invariant, so each   *)
(* action has only to keep that.                                           *)
(***************************************************************************)
Known == SyncTypeOK /\ ManifestIsOfLastSync /\ SaidIsSo

LEMMA PassVouches == Known => PassVouchesForSpring
<1> SUFFICES ASSUME Known, said = "pass", ~last.forced, NEW f \in File
             PROVE  \/ f \in Excluded /\ ours[f] = None
                    \/ /\ SameText(ours[f], last.spring[f])
                       /\ last.clean /\ manifest.sourceCommit # None =>
                             manifest.sourceCommit[f] = Sha256(ours[f])
  BY DEF PassVouchesForSpring
<1>1. manifest # None /\ Changed = {} /\ last \in LastSync /\ ours \in Tree
  BY DEF Known, SyncTypeOK, ManifestIsOfLastSync, SaidIsSo
<1>2. last.ours \in Tree /\ last.spring \in Tree
  BY <1>1 DEF LastSync
<1>3. manifest.files[f] = Sha256(ours[f]) /\ manifest.files = HashesOf(last.ours)
  BY <1>1 DEF Changed, Known, ManifestIsOfLastSync
<1>4. /\ ours[f] \in Content \cup {None} /\ last.ours[f] \in Content \cup {None}
      /\ last.spring[f] \in Content \cup {None}
      /\ HashesOf(last.ours)[f] = Sha256(last.ours[f])
      /\ HashesOf(last.spring)[f] = Sha256(last.spring[f])
  BY <1>1, <1>2, TreesHaveHashes
<1>5. Sha256(ours[f]) = Sha256(last.ours[f])
  BY <1>3, <1>4
<1>6. /\ last.clean /\ manifest.sourceCommit # None => manifest.sourceCommit[f] = Sha256(last.spring[f])
      /\ IF last.ours[f] = None THEN last.spring[f] = None \/ f \in Excluded
         ELSE Sha256(last.ours[f]) = Sha256(last.spring[f])
  BY <1>1, <1>4 DEF Known, ManifestIsOfLastSync
<1>7. /\ Sha256(ours[f]) = None <=> ours[f] = None
      /\ Sha256(last.ours[f]) = None <=> last.ours[f] = None
      /\ Sha256(last.spring[f]) = None <=> last.spring[f] = None
      /\ SameText(ours[f], last.spring[f]) <=> Sha256(ours[f]) = Sha256(last.spring[f])
  BY <1>4, HashesAreOfTheText
<1> QED BY <1>5, <1>6, <1>7

LEMMA AlarmsAreReal == Known => DriftIsReal
<1> SUFFICES ASSUME Known PROVE DriftIsReal
  OBVIOUS
<1>1. ours \in Tree /\ spring \in Tree
  BY DEF Known, SyncTypeOK
<1>2. ASSUME said = "refused" PROVE \E f \in File : ~SameText(ours[f], spring[f])
  <2>1. PICK f \in File : f \in Mismatches
    BY <1>2 DEF Known, SaidIsSo, Mismatches
  <2>2. ours[f] \in Content \cup {None} /\ spring[f] \in Content \cup {None}
    BY <1>1, TreesHaveHashes
  <2>3. Sha256(ours[f]) # Sha256(spring[f])
    BY <2>1, <2>2, HashesAreOfTheText DEF Mismatches
  <2> QED BY <2>2, <2>3, HashesAreOfTheText
<1>3. ASSUME said = "drift"
      PROVE  last # None /\ \E f \in File : ~SameText(ours[f], last.ours[f])
  <2>1. PICK f \in File : manifest.files[f] # Sha256(ours[f])
    BY <1>3 DEF Changed, Known, SaidIsSo
  <2>2. last # None /\ last \in LastSync /\ manifest.files = HashesOf(last.ours)
    BY <1>3 DEF Known, SaidIsSo, SyncTypeOK, ManifestIsOfLastSync
  <2>3. last.ours \in Tree
    BY <2>2 DEF LastSync
  <2>4. /\ ours[f] \in Content \cup {None} /\ last.ours[f] \in Content \cup {None}
        /\ manifest.files[f] = Sha256(last.ours[f])
    BY <1>1, <2>2, <2>3, TreesHaveHashes
  <2> QED BY <2>1, <2>2, <2>4, HashesAreOfTheText
<1> QED BY <1>2, <1>3 DEF DriftIsReal

-----------------------------------------------------------------------------
(***************************************************************************)
(* Edits and commits: nothing said stands, and the manifest is untouched.  *)
(***************************************************************************)
LEMMA EditsKeepKnown ==
    ASSUME Known, \/ \E f \in File, c \in Content \cup {None} : EditOurs(f, c) \/ EditSpring(f, c)
                  \/ CommitSpring
    PROVE  Known'
<1>1. said' = "nothing" /\ UNCHANGED <<manifest, last>>
  BY DEF EditOurs, EditSpring, CommitSpring, Edit
<1>2. SyncTypeOK'
  <2>1. ASSUME NEW f \in File, NEW c \in Content \cup {None}, EditOurs(f, c) \/ EditSpring(f, c)
        PROVE  SyncTypeOK'
    <3>1. edits' \in 0 .. MaxEdits
      <4>1. edits < MaxEdits /\ edits' = edits + 1
        BY <2>1 DEF EditOurs, EditSpring, Edit
      <4>2. edits \in 0 .. MaxEdits /\ MaxEdits \in Nat
        BY SyncAssumption DEF Known, SyncTypeOK
      <4> QED BY <4>1, <4>2
    <3> QED BY <1>1, <2>1, <3>1 DEF EditOurs, EditSpring, Known, SyncTypeOK, Tree
  <2>2. ASSUME CommitSpring PROVE SyncTypeOK'
    BY <1>1, <2>2, TreesHaveHashes DEF CommitSpring, Known, SyncTypeOK
  <2> QED BY <2>1, <2>2
<1>3. ManifestIsOfLastSync'
  BY <1>1 DEF Known, ManifestIsOfLastSync
<1>4. SaidIsSo'
  BY <1>1 DEF SaidIsSo
<1> QED BY <1>2, <1>3, <1>4 DEF Known

LEMMA SyncKeepsKnown ==
    ASSUME Known, NEW force \in BOOLEAN, Sync(force)
    PROVE  Known'
<1> PICK commit \in {head, None} : manifest' = [files |-> HashesOf(ours), sourceCommit |-> commit]
  BY DEF Sync, Record
<1> DEFINE recorded == [files |-> HashesOf(ours), sourceCommit |-> commit]
           trees == [ours |-> ours, spring |-> spring, clean |-> head = HashesOf(spring),
                     forced |-> force /\ Mismatches # {}]
<1>1. /\ manifest' = recorded /\ last' = trees
      /\ said' = "nothing" /\ UNCHANGED <<ours, spring, head, edits>>
      /\ ours \in Tree /\ spring \in Tree /\ commit \in Hashes \cup {None}
  BY DEF Sync, Record, Known, SyncTypeOK
<1>2. recorded \in Manifest /\ trees \in LastSync
  BY <1>1, TreesHaveHashes DEF Manifest, LastSync
<1>3. manifest' # None /\ last' # None
  BY <1>1, <1>2, SyncAssumption
<1>4. SyncTypeOK'
  BY <1>1, <1>2 DEF Known, SyncTypeOK
<1>5. ASSUME ~last'.forced, NEW f \in File
      PROVE  IF ours[f] = None THEN spring[f] = None \/ f \in Excluded
             ELSE Sha256(ours[f]) = Sha256(spring[f])
  <2>1. Mismatches = {}
    BY <1>1, <1>5 DEF Sync
  <2> QED BY <2>1 DEF Mismatches
<1>6. ManifestIsOfLastSync'
  <2>1. /\ last'.ours = ours /\ last'.spring = spring
        /\ manifest'.files = HashesOf(ours) /\ manifest'.sourceCommit = commit
    BY <1>1
  <2>2. last'.clean <=> head = HashesOf(spring)
    BY <1>1
  <2>3. last'.clean => manifest'.sourceCommit \in {HashesOf(spring), None}
    BY <2>1, <2>2
  <2> QED BY <1>3, <1>5, <2>1, <2>3 DEF ManifestIsOfLastSync
<1>7. SaidIsSo'
  BY <1>1 DEF SaidIsSo
<1> QED BY <1>4, <1>6, <1>7 DEF Known

LEMMA ChecksKeepKnown ==
    ASSUME Known, SyncRefused \/ Check
    PROVE  Known'
<1>1. UNCHANGED <<ours, spring, head, manifest, last, edits>>
  BY DEF SyncRefused, Check
<1>2. (Mismatches' = Mismatches) /\ Changed' = Changed
  BY <1>1 DEF Mismatches, Changed
<1>3. SyncTypeOK'
  BY <1>1 DEF SyncRefused, Check, Known, SyncTypeOK
<1>4. ManifestIsOfLastSync'
  BY <1>1 DEF Known, ManifestIsOfLastSync
<1>5. SaidIsSo'
  BY <1>1, <1>2 DEF SyncRefused, Check, SaidIsSo
<1> QED BY <1>3, <1>4, <1>5 DEF Known

(***************************************************************************)
(* The invariant, of any edits and commands in any order.                  *)
(***************************************************************************)
THEOREM SyncKeepsInvariant == Spec => []SyncInvariant
<1>1. SyncInvariant <=> Known /\ CheckTellsTheTruth
  BY DEF SyncInvariant, Known
<1>2. Known => CheckTellsTheTruth
  BY PassVouches, AlarmsAreReal DEF CheckTellsTheTruth
<1>3. Known /\ [Next]_vars => Known'
  <2> SUFFICES ASSUME Known, [Next]_vars PROVE Known'
    OBVIOUS
  <2>1. CASE UNCHANGED vars
    BY <2>1 DEF vars, Known, SyncTypeOK, ManifestIsOfLastSync, SaidIsSo, Mismatches, Changed
  <2> QED BY <2>1, EditsKeepKnown, SyncKeepsKnown, ChecksKeepKnown DEF Next
<1>4. Init => Known
  BY <1>1, SyncStart
<1> QED BY <1>1, <1>2, <1>3, <1>4, PTL DEF Spec

(***************************************************************************)
(* What a check says of the copy is so, whether it passes or not, for any  *)
(* files and any number of edits (check_drift.py:77-80, 88-159).           *)
(***************************************************************************)
THEOREM ChecksTellTheTruth == Spec => []CheckTellsTheTruth
<1>1. SyncInvariant => CheckTellsTheTruth
  BY DEF SyncInvariant
<1> QED BY <1>1, SyncKeepsInvariant, PTL

=============================================================================
