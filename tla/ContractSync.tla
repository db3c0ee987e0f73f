----------------------------- MODULE ContractSync -----------------------------
(***************************************************************************)
(* contracts/scripts/check_drift.py: this repository's hand-made copy of   *)
(* Spring's contracts, the manifest of the last sync, and the two commands *)
(* that are to notice when the copy drifts (--check on every push, --sync  *)
(* weekly and by hand).  People edit both trees between the commands, and  *)
(* checkouts change line endings.                                          *)
(*                                                                         *)
(* File stands for the tracked paths (TRACKED_SUBDIRS, TRACKED_FILES); a   *)
(* hash is modelled as injective, as the text it was computed from, and a  *)
(* commit SHA as the tree it names.                                        *)
(***************************************************************************)
EXTENDS Naturals

CONSTANTS
    File,           \* the tracked paths of either repository
    Excluded,       \* EXCLUDE_FROM_UPSTREAM_CHECK
    Text,           \* contents, line endings aside
    MaxEdits,       \* bounds the edits of either tree
    None            \* no file, no manifest, no commit

Content == [text : Text, ending : {"LF", "CRLF"}]

Tree == [File -> Content \cup {None}]           \* files on disk
Hashes == [File -> Text \cup {None}]            \* _sha256 of each, None if not there

Manifest == [files : Hashes, sourceCommit : Hashes \cup {None}]
LastSync == [ours : Tree, spring : Tree, clean : BOOLEAN, forced : BOOLEAN]

ASSUME SyncAssumption ==
    /\ Excluded \subseteq File
    /\ MaxEdits \in Nat
    /\ None \notin Text \cup Content \cup Hashes \cup Manifest \cup LastSync

VARIABLES
    ours,           \* contracts/ here
    spring,         \* contracts/ in the checkout of Spring's repository
    head,           \* the commit that checkout is at
    manifest,       \* .sync-manifest.json: [files, sourceCommit]
    said,           \* the outcome of the last command, if nothing was edited since
    last,           \* history: both trees at the last sync, and its --force
    edits           \* how many there were

vars == <<ours, spring, head, manifest, said, last, edits>>

\* _sha256
Sha256(c) == IF c = None THEN None ELSE c.text

\* {_rel(p, root): _sha256(p) for p in _tracked_files(root)}
HashesOf(tree) == [f \in File |-> Sha256(tree[f])]

Init ==
    /\ \E c \in Content : ours = [f \in File |-> IF f \in Excluded THEN None ELSE c]
    /\ spring = ours
    /\ head = None
    /\ manifest = None
    /\ said = "nothing"
    /\ last = None
    /\ edits = 0

-----------------------------------------------------------------------------
(***************************************************************************)
(* What people and git do to the trees between two commands.               *)
(***************************************************************************)
Edit ==
    /\ edits < MaxEdits
    /\ edits' = edits + 1
    /\ said' = "nothing"

EditOurs(f, c) ==
    /\ Edit
    /\ ours' = [ours EXCEPT ![f] = c]
    /\ UNCHANGED <<spring, head, manifest, last>>

EditSpring(f, c) ==
    /\ Edit
    /\ spring' = [spring EXCEPT ![f] = c]
    /\ UNCHANGED <<ours, head, manifest, last>>

\* git stores the text, whatever the line endings on disk
CommitSpring ==
    /\ head' = HashesOf(spring)
    /\ said' = "nothing"
    /\ UNCHANGED <<ours, spring, manifest, last, edits>>

-----------------------------------------------------------------------------
(***************************************************************************)
(* The commands.                                                           *)
(***************************************************************************)
\* Faulty variant: only the files we have are compared.
MismatchesOfOurs == {f \in File : ours[f] # None /\ Sha256(ours[f]) # Sha256(spring[f])}

\* what cmd_sync reports: differs, only here, or only in Spring's contracts/
Mismatches ==
    {f \in File :
        \/ ours[f] # None /\ Sha256(ours[f]) # Sha256(spring[f])
        \/ ours[f] = None /\ spring[f] # None /\ f \notin Excluded}

\* git rev-parse may fail in any checkout, and the commit stays unknown
Record(force) ==
    /\ \E commit \in {head, None} :
          manifest' = [files |-> HashesOf(ours), sourceCommit |-> commit]
    /\ last' = [ours |-> ours, spring |-> spring, clean |-> head = HashesOf(spring),
                forced |-> force /\ Mismatches # {}]

\* cmd_sync, which copies no file
Sync(force) ==
    /\ Mismatches = {} \/ force
    /\ Record(force)
    /\ said' = "nothing"
    /\ UNCHANGED <<ours, spring, head, edits>>

SyncRefused ==
    /\ Mismatches # {}
    /\ said' = "refused"
    /\ UNCHANGED <<ours, spring, head, manifest, last, edits>>

\* missing, added and changed of cmd_check
Changed == {f \in File : manifest.files[f] # Sha256(ours[f])}

Check ==
    /\ said' = IF manifest = None THEN "no manifest"
               ELSE IF Changed = {} THEN "pass" ELSE "drift"
    /\ UNCHANGED <<ours, spring, head, manifest, last, edits>>

Next ==
    \/ \E f \in File, c \in Content \cup {None} : EditOurs(f, c) \/ EditSpring(f, c)
    \/ CommitSpring
    \/ \E force \in BOOLEAN : Sync(force)
    \/ SyncRefused
    \/ Check

Spec == Init /\ [][Next]_vars

-----------------------------------------------------------------------------
(***************************************************************************)
(* Equal files, whatever their line endings.                               *)
(***************************************************************************)
SameText(c, d) ==
    \/ c = None /\ d = None
    \/ c # None /\ d # None /\ c.text = d.text

(***************************************************************************)
(* A check that passes after an unforced sync vouches for the copy: every  *)
(* file is Spring's as it was at that sync, none is missing and none was   *)
(* added, save Spring's own API, which may be left out; and if Spring's    *)
(* checkout was clean, it is the commit the manifest names, if it names    *)
(* one (check_drift.py:88-109, 133-173).                                   *)
(***************************************************************************)
PassVouchesForSpring ==
    said = "pass" /\ ~last.forced =>
        \A f \in File :
            \/ f \in Excluded /\ ours[f] = None
            \/ /\ SameText(ours[f], last.spring[f])
               /\ last.clean /\ manifest.sourceCommit # None =>
                     manifest.sourceCommit[f] = Sha256(ours[f])

(***************************************************************************)
(* No false alarm: what a check reports was edited here since the last     *)
(* sync, whatever became of Spring's files, and a sync is refused only     *)
(* over a file that is not Spring's; other line endings are neither        *)
(* (check_drift.py:77-80, 93-100, 133-148).                                *)
(***************************************************************************)
DriftIsReal ==
    /\ said = "drift" => last # None /\ \E f \in File : ~SameText(ours[f], last.ours[f])
    /\ said = "refused" => \E f \in File : ~SameText(ours[f], spring[f])

(***************************************************************************)
(* Both: what the script says of the copy is so, whether it passes or not  *)
(* (check_drift.py:88-159).                                                *)
(***************************************************************************)
CheckTellsTheTruth == PassVouchesForSpring /\ DriftIsReal

-----------------------------------------------------------------------------
(***************************************************************************)
(* Why it holds: the manifest is of the trees at the last sync, and what   *)
(* the last command said is still so, nothing having been edited since.    *)
(***************************************************************************)
SyncTypeOK ==
    /\ ours \in Tree /\ spring \in Tree /\ head \in Hashes \cup {None}
    /\ manifest \in Manifest \cup {None} /\ last \in LastSync \cup {None}
    /\ said \in {"nothing", "no manifest", "pass", "drift", "refused"} /\ edits \in 0 .. MaxEdits

ManifestIsOfLastSync ==
    /\ manifest = None <=> last = None
    /\ manifest # None =>
          /\ manifest.files = HashesOf(last.ours)
          /\ last.clean => manifest.sourceCommit \in {HashesOf(last.spring), None}
          /\ ~last.forced =>
                \A f \in File :
                    IF last.ours[f] = None THEN last.spring[f] = None \/ f \in Excluded
                    ELSE Sha256(last.ours[f]) = Sha256(last.spring[f])

SaidIsSo ==
    /\ said = "pass" => manifest # None /\ Changed = {}
    /\ said = "drift" => manifest # None /\ Changed # {}
    /\ said = "refused" => Mismatches # {}

SyncInvariant ==
    /\ SyncTypeOK
    /\ ManifestIsOfLastSync
    /\ SaidIsSo
    /\ CheckTellsTheTruth

=============================================================================
