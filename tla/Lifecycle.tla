------------------------------ MODULE Lifecycle ------------------------------
(***************************************************************************)
(* The life of a download across the commands of the command line          *)
(* (swiftload-cli/src/main.rs: get, resume, refresh-url, run), the store's *)
(* rows (store/mod.rs), the part file and the final names (fsx/mod.rs) and *)
(* the frame of download() (task/mod.rs).  One command runs at a time; it  *)
(* can be interrupted, fail or be killed between any two steps, and the    *)
(* file on the server can change.  Workers and writer are one action here: *)
(* a block is written to the part file (Writer.tla, ClaimPlan.tla and      *)
(* Drive.tla model them), a checkpoint copies what was written to the row. *)
(*                                                                         *)
(* Every download has the same file name in the same directory, hence the  *)
(* same part file: the case in which downloads can disturb each other.     *)
(***************************************************************************)
EXTENDS Integers, FiniteSets

CONSTANTS
  NVersions,         \* bound: versions of the server's file
  MaxSize,           \* bound: length of a version, in blocks
  Sizes,             \* Sizes[v]: length of version v
  PARANOID_REWIND,   \* what a resume gives back at the end of every span
  MaxRows,           \* bound: rows of the store
  MaxNames,          \* bound: final names the directory has room for
  MaxCrashes,        \* bound: kills of the process
  MaxFaults,         \* bound: interruptions and failures of a command
  MaxRefreshes,      \* bound: links replaced
  AllowTamper        \* may the user delete or truncate the part file?

Version == 1 .. NVersions
Block == 1 .. MaxSize
Row == 1 .. MaxRows
Name == 1 .. MaxNames

ASSUME LifecycleAssumption ==
  /\ NVersions \in Nat \ {0} /\ MaxSize \in Nat \ {0}
  /\ Sizes \in [Version -> 1 .. MaxSize]
  /\ PARANOID_REWIND \in Nat /\ MaxRows \in Nat \ {0} /\ MaxNames \in Nat \ {0}
  /\ MaxCrashes \in Nat /\ MaxFaults \in Nat /\ MaxRefreshes \in Nat
  /\ AllowTamper \in BOOLEAN

Hole == 0                \* what preallocation leaves in a block
Blank == [b \in Block |-> Hole]
NoRow == [status |-> "none"]
NoFile == [row |-> 0]

VARIABLES
  server,      \* the version the server has now
  rows,        \* the downloads table
  part,        \* the part file: does it exist, its length, its blocks
  published,   \* published[n]: the file under the n-th name dedupe would try
  sess,        \* the running command
  \* history and bounds
  backed,      \* backed[r]: r's claim was recorded against this part file
  died,        \* died[r]: a command on r was killed, none has stopped it since
  crashes, faults, tampered

table == <<rows, died>>
disk == <<part, backed, published>>
bounds == <<crashes, faults, tampered>>
vars == <<server, table, disk, sess, bounds>>

\* The statuses a command writes.  Retrying, WaitingNetwork and Cancelled are
\* in the enumeration, but nothing sets them.
Status == {"queued", "active", "paused", "needs_attention", "completed", "failed"}

Idle == [pc |-> "idle", row |-> 0, total |-> 0, done |-> {},
         rewound |-> FALSE, trusts |-> FALSE, verdict |-> "none"]

Used == {r \in Row : rows[r] # NoRow}
At(pc) == sess.pc = pc
Goto(pc) == sess' = [sess EXCEPT !.pc = pc]
Size == Sizes[server]
Missing == [exists |-> FALSE, len |-> 0, data |-> Blank]

Init ==
  /\ server = 1
  /\ rows = [r \in Row |-> NoRow] /\ died = [r \in Row |-> FALSE]
  /\ part = Missing /\ backed = [r \in Row |-> FALSE]
  /\ published = [n \in Name |-> NoFile]
  /\ sess = Idle
  /\ crashes = 0 /\ faults = 0 /\ tampered = FALSE

-----------------------------------------------------------------------------
(* The commands, up to the call of run().                                  *)

\* Mutant: opening the store leaves the flags of earlier runs alone.
MOpenStore(table_) == table_

(***************************************************************************)
(* open_store: every command clears the clean-shutdown flag of every row   *)
(* before it looks at one.                                                 *)
(***************************************************************************)
OpenStore(table_) ==
  [r \in Row |-> IF table_[r] = NoRow THEN NoRow ELSE [table_[r] EXCEPT !.clean = FALSE]]

Rewind(S) == {b \in S : \A k \in 0 .. PARANOID_REWIND : b + k \in S}

\* resume_state: the ranges to start from, and whether the record was unclean.
ResumeState(rec) == IF rec.clean THEN rec.ranges ELSE Rewind(rec.ranges)

Start(r, pc, done, unclean) ==
  sess' = [Idle EXCEPT !.pc = pc, !.row = r, !.done = done, !.rewound = unclean]

\* DownloadRecord::new, and insert.
NewRow == [status |-> "queued", ranges |-> {}, total |-> Size, clean |-> FALSE,
           swaps |-> 0, links |-> 0]

\* cmd_get: probe, insert the row.  The rows that already have this name and
\* size are only mentioned to the user.
Get(r) ==
  /\ At("idle") /\ r \notin Used /\ \A q \in 1 .. r - 1 : q \in Used
  /\ rows' = [OpenStore(rows) EXCEPT ![r] = NewRow]
  /\ Start(r, "linking", {}, FALSE)
  /\ UNCHANGED <<server, died, disk, bounds>>

\* Mutant: a completed row is resumed, too.
MResume(r) ==
  /\ At("idle") /\ r \in Used
  /\ rows' = OpenStore(rows)
  /\ Start(r, "starting", ResumeState(rows'[r]), ~rows'[r].clean)
  /\ UNCHANGED <<server, died, disk, bounds>>

\* cmd_resume: any row that is not completed, whatever else its status says.
Resume(r) ==
  /\ At("idle") /\ r \in Used /\ rows[r].status # "completed"
  /\ rows' = OpenStore(rows)
  /\ Start(r, "starting", ResumeState(rows'[r]), ~rows'[r].clean)
  /\ UNCHANGED <<server, died, disk, bounds>>

(***************************************************************************)
(* The link is accepted: the sizes agree, and so do the first and the last *)
(* window of what was downloaded (Exchange.tla has the whole comparison).  *)
(* Otherwise cmd_refresh ends with nothing changed but the clean flags.    *)
(***************************************************************************)
SameFile(rec, done) ==
  /\ rec.total = Size
  /\ done # {} =>
       /\ part.exists
       /\ \A b \in done : (\A c \in done : b <= c) \/ (\A c \in done : b >= c)
                            => part.data[b] = server

\* swap_url: everything but the ranges and the part file is the new link's.
Swapped(rec) == [rec EXCEPT !.status = "queued", !.total = Size, !.swaps = @ + 1]

\* cmd_refresh, with a link to what the server has now; of the row's status it
\* asks nothing.
Refresh(r) ==
  /\ At("idle") /\ r \in Used /\ rows[r].swaps < MaxRefreshes
  /\ LET opened == OpenStore(rows)
         done == ResumeState(opened[r])
     IN  /\ SameFile(rows[r], done)
         /\ rows' = [opened EXCEPT ![r] = Swapped(@)]
         /\ Start(r, "linking", done, ~opened[r].clean)
  /\ UNCHANGED <<server, died, disk, bounds>>

\* Mutant: the entry is written, and written again.
MPushHistory ==
  /\ At("linking")
  /\ rows' = [rows EXCEPT ![sess.row].links = @ + 1]
  /\ UNCHANGED <<server, died, disk, sess, bounds>>

\* Mutant: a replaced link is not entered.
MFirstLinkOnly ==
  /\ At("linking")
  /\ rows' = [rows EXCEPT ![sess.row].links = 1]
  /\ Goto("starting")
  /\ UNCHANGED <<server, died, disk, bounds>>

\* push_url_history, a transaction of its own after the insert or the swap.
PushHistory ==
  /\ At("linking")
  /\ rows' = [rows EXCEPT ![sess.row].links = @ + 1]
  /\ Goto("starting")
  /\ UNCHANGED <<server, died, disk, bounds>>

\* run(), to the call of download().
SetActive ==
  /\ At("starting")
  /\ rows' = [rows EXCEPT ![sess.row].status = "active"]
  /\ Goto("probing")
  /\ UNCHANGED <<server, died, disk, bounds>>

-----------------------------------------------------------------------------
(* download().                                                             *)

\* It ends with an error, which run() will translate into this status.
Fail(verdict) == sess' = [sess EXCEPT !.pc = "failing", !.verdict = verdict]

Fault == faults < MaxFaults /\ faults' = faults + 1 /\ UNCHANGED <<crashes, tampered>>

\* The record's size is not looked at: what the probe says now counts.
Probe ==
  /\ At("probing")
  /\ sess' = [sess EXCEPT !.pc = "opening", !.total = Size]
  /\ UNCHANGED <<server, table, disk, bounds>>

\* Mutant: the file is opened before download() asks whether it existed.
MPartExisted == TRUE

PartExisted == part.exists

(***************************************************************************)
(* open_part, and the record reconciled with it.  A missing file drops the *)
(* ranges from memory, not from the row; an existing one is extended to    *)
(* the full size and trusted.                                              *)
(***************************************************************************)
OpenPart ==
  /\ At("opening")
  /\ part' = [exists |-> TRUE, data |-> part.data,
              len |-> IF part.len < sess.total THEN sess.total ELSE part.len]
  /\ sess' = [sess EXCEPT !.pc = "running",
                !.done = IF PartExisted THEN @ ELSE {},
                !.trusts = part.exists /\ sess.done # {} /\ ~backed[sess.row]]
  /\ UNCHANGED <<server, table, backed, published, bounds>>

\* The probe, the check for room or the opening of the part file failed.
StartFails ==
  /\ sess.pc \in {"probing", "opening"} /\ Fault
  /\ Fail("failed")
  /\ UNCHANGED <<server, table, disk>>

Wanted == (1 .. sess.total) \ sess.done

\* A block of a gap is fetched and written.  A response whose total is not the
\* probe's is refused; nothing else ties it to what is on the disk already.
Fetch(b) ==
  /\ At("running") /\ b \in Wanted /\ Size = sess.total
  /\ part' = [part EXCEPT !.data[b] = server]
  /\ sess' = [sess EXCEPT !.done = @ \cup {b}]
  /\ UNCHANGED <<server, table, backed, published, bounds>>

\* Mutant: the checkpoint claims the gaps that are being fetched, too.
MRecord ==
  /\ rows' = [rows EXCEPT ![sess.row].ranges = sess.done \cup Wanted]
  /\ backed' = [backed EXCEPT ![sess.row] = ~sess.trusts]

Record ==
  /\ rows' = [rows EXCEPT ![sess.row].ranges = sess.done]
  /\ backed' = [backed EXCEPT ![sess.row] = ~sess.trusts]

Checkpoint ==
  /\ At("running") /\ Record
  /\ UNCHANGED <<server, died, part, published, sess, bounds>>

\* drive() returns, the writer records everything and the coverage is complete.
Finish ==
  /\ At("running") /\ Wanted = {} /\ Record
  /\ Goto("publishing")
  /\ UNCHANGED <<server, died, part, published, bounds>>

\* The user interrupts, the link expires, or something else ends the workers;
\* finish() records what there is, unless the store is what fails.
Break ==
  /\ At("running")
  /\ \/ Fault /\ Record /\ \E v \in {"paused", "needs_attention", "failed"} : Fail(v)
     \/ Fault /\ Fail("failed") /\ UNCHANGED <<rows, backed>>
  /\ UNCHANGED <<server, died, part, published>>

\* Mutant: a changed resource is worth a retry.
MRefused == At("running") /\ Size # sess.total /\ UNCHANGED vars

\* A response gave another total than the probe (ResourceChanged).
Refused ==
  /\ At("running") /\ Size # sess.total /\ Record
  /\ Fail("failed")
  /\ UNCHANGED <<server, died, part, published, bounds>>

\* Mutant: the collision policy is taken for "overwrite".
MDedupe(n) == n = 1

\* dedupe: the first name nobody has.
Dedupe(n) == published[n] = NoFile /\ \A m \in 1 .. n - 1 : published[m] # NoFile

\* unique_destination and finalize: the part file gets its final name.
Publish ==
  /\ At("publishing")
  /\ \E n \in Name :
       /\ Dedupe(n)
       /\ published' = [published EXCEPT ![n] =
            [row |-> sess.row, total |-> sess.total, len |-> part.len,
             data |-> part.data, trusted |-> sess.trusts]]
  /\ part' = Missing /\ backed' = [r \in Row |-> FALSE]
  /\ Goto("renamed")
  /\ UNCHANGED <<server, table, bounds>>

\* The checksum differs, or the rename fails.
PublishFails ==
  /\ At("publishing") /\ Fault
  /\ Fail("failed")
  /\ UNCHANGED <<server, table, disk>>

-----------------------------------------------------------------------------
(* run(), after download() has returned.                                   *)

\* Mutant of run(): a failure leaves the status as it is.
MSetStatus ==
  /\ sess.pc \in {"renamed", "failing"}
  /\ rows' = [rows EXCEPT ![sess.row].status =
                IF At("renamed") THEN "completed" ELSE @]
  /\ Goto("closing")
  /\ UNCHANGED <<server, died, disk, bounds>>

SetStatus ==
  /\ sess.pc \in {"renamed", "failing"}
  /\ rows' = [rows EXCEPT ![sess.row].status =
                IF At("renamed") THEN "completed" ELSE sess.verdict]
  /\ Goto("closing")
  /\ UNCHANGED <<server, died, disk, bounds>>

MarkClean ==
  /\ At("closing")
  /\ rows' = [rows EXCEPT ![sess.row].clean = TRUE]
  /\ died' = [died EXCEPT ![sess.row] = FALSE]
  /\ sess' = Idle
  /\ UNCHANGED <<server, disk, bounds>>

-----------------------------------------------------------------------------
(* Around the program.                                                     *)

Crash ==
  /\ ~At("idle") /\ crashes < MaxCrashes
  /\ crashes' = crashes + 1
  /\ died' = [died EXCEPT ![sess.row] = TRUE]
  /\ sess' = Idle
  /\ UNCHANGED <<server, rows, disk, faults, tampered>>

ChangeServer ==
  /\ server < NVersions /\ server' = server + 1
  /\ UNCHANGED <<table, disk, sess, bounds>>

\* The user deletes the part file (no length left), or something truncates it.
Tamper ==
  /\ AllowTamper /\ ~tampered /\ At("idle") /\ part.exists
  /\ \E n \in 0 .. part.len - 1 :
       part' = [exists |-> n > 0, len |-> n,
                data |-> [b \in Block |-> IF b <= n THEN part.data[b] ELSE Hole]]
  /\ backed' = [r \in Row |-> FALSE]
  /\ tampered' = TRUE
  /\ UNCHANGED <<server, table, published, sess, crashes, faults>>

Command(r) == Get(r) \/ Resume(r) \/ Refresh(r)

Work == \/ PushHistory \/ SetActive \/ Probe \/ OpenPart
        \/ (\E b \in Block : Fetch(b)) \/ Refused \/ Finish \/ Publish
        \/ SetStatus \/ MarkClean

Trouble == StartFails \/ Checkpoint \/ Break \/ PublishFails \/ Crash

Next == (\E r \in Row : Command(r)) \/ Work \/ Trouble \/ ChangeServer \/ Tamper

Spec == Init /\ [][Next]_vars

(***************************************************************************)
(* A command that runs goes on, and the user resumes a download that is    *)
(* not complete.  Interruptions, failures and kills are bounded.           *)
(***************************************************************************)
FairSpec == Spec /\ WF_vars(Work) /\ \A r \in Row : WF_vars(Resume(r))

-----------------------------------------------------------------------------
Ranges == SUBSET Block
Data == [Block -> {Hole} \cup Version]

Record_ == [status : Status, ranges : Ranges, total : 1 .. MaxSize, clean : BOOLEAN,
            swaps : 0 .. MaxRefreshes, links : 0 .. MaxRefreshes + 1]
File_ == [row : Row, total : 1 .. MaxSize, len : 0 .. MaxSize, data : Data, trusted : BOOLEAN]

Phase == {"idle", "linking", "starting", "probing", "opening", "running",
          "publishing", "renamed", "failing", "closing"}

TypeOK ==
  /\ server \in Version
  /\ rows \in [Row -> Record_ \cup {NoRow}] /\ died \in [Row -> BOOLEAN]
  /\ part \in [exists : BOOLEAN, len : 0 .. MaxSize, data : Data]
  /\ backed \in [Row -> BOOLEAN]
  /\ published \in [Name -> File_ \cup {NoFile}]
  /\ sess \in [pc : Phase, row : Row \cup {0}, total : 0 .. MaxSize, done : Ranges,
               rewound : BOOLEAN, trusts : BOOLEAN,
               verdict : {"none", "paused", "needs_attention", "failed"}]
  /\ sess.pc = "idle" \/ sess.row \in Used
  /\ crashes \in 0 .. MaxCrashes /\ faults \in 0 .. MaxFaults /\ tampered \in BOOLEAN

Written == {b \in Block : part.data[b] # Hole}

(***************************************************************************)
(* A claim recorded against the part file that is there now, and what a    *)
(* command works from unless it trusted an older claim, is in the file.    *)
(***************************************************************************)
ClaimIsBacked ==
  /\ \A r \in Used : backed[r] => part.exists /\ rows[r].ranges \subseteq Written
  /\ sess.pc \in {"running", "publishing"} /\ ~sess.trusts => sess.done \subseteq Written

(***************************************************************************)
(* A file is published with holes only by a command that trusted a claim   *)
(* recorded against an earlier part file; and that takes a killed process, *)
(* a part file changed by hand, or a second download of the same name.     *)
(***************************************************************************)
HolesNeedStaleTrust ==
  /\ \A n \in Name : published[n] # NoFile /\ ~published[n].trusted
       => \A b \in 1 .. published[n].total : published[n].data[b] # Hole
  /\ sess.trusts => crashes > 0 \/ tampered \/ Cardinality(Used) > 1

FilesOf(r) == {n \in Name : published[n].row = r}

(***************************************************************************)
(* A download ends up under one final name, and under another one only for *)
(* every new link and for every kill (between the rename and the status).  *)
(***************************************************************************)
PublishedOnce ==
  \A r \in Used : Cardinality(FilesOf(r)) <= 1 + rows[r].swaps + crashes

Offered == {"paused", "failed", "needs_attention", "queued"}

(***************************************************************************)
(* Between commands, a download that is not complete has a status with     *)
(* which find_resumable_by_hint mentions it, unless its last command was   *)
(* killed: those rows stay "active" for ever and no list offers them.      *)
(***************************************************************************)
StrandedOnlyByCrash ==
  sess.pc = "idle" => \A r \in Used : rows[r].status \in Offered \cup {"completed"} \/ died[r]

(***************************************************************************)
(* A command on a download whose last command was killed gives back the    *)
(* tails of its ranges, although a download may have been stopped cleanly  *)
(* before: that is what clearing the flags at every start is for.          *)
(***************************************************************************)
CrashIsNoticed ==
  sess.pc \in {"starting", "probing", "opening"} /\ died[sess.row] /\ rows[sess.row].ranges # {}
    => sess.rewound /\ sess.done \subseteq Rewind(rows[sess.row].ranges)

\* The entry of the history that the running command is about to push.
Unwritten(r) == IF sess.pc = "linking" /\ sess.row = r THEN 1 ELSE 0

(***************************************************************************)
(* The history has the first link and every replacement, in as many        *)
(* transactions of their own: a kill loses at most one entry.              *)
(***************************************************************************)
HistoryComplete ==
  \A r \in Used : rows[r].links + Unwritten(r) \in 1 + rows[r].swaps - crashes .. 1 + rows[r].swaps

(***************************************************************************)
(* The directory and the statuses implement the shelf.                     *)
(***************************************************************************)
ShelfNow == INSTANCE Shelf WITH
  Nothing <- 0,
  shelf <- [n \in Name |-> published[n].row],
  reported <- {r \in Used : rows[r].status = "completed"}

ImplementsShelf == ShelfNow!Spec

(***************************************************************************)
(* A download that is resumed until it is complete becomes complete.       *)
(***************************************************************************)
Completes == \A r \in Row : r \in Used ~> rows[r].status = "completed"

(***************************************************************************)
(* What the final name stands for (fsx/mod.rs): "a half-finished download  *)
(* can never be mistaken for a complete one".                              *)
(***************************************************************************)
PublishedIsComplete ==
  \A n \in Name : published[n] # NoFile =>
    \A b \in 1 .. published[n].total : published[n].data[b] # Hole

(***************************************************************************)
(* A published file is one version of the server's file, not a mixture     *)
(* (ResourceChanged of http/errors.rs: "Validators or size changed").      *)
(***************************************************************************)
PublishedIsOneVersion ==
  \A n \in Name : published[n] # NoFile =>
    \E v \in Version : \A b \in 1 .. published[n].total :
      published[n].data[b] \in {v, Hole}
==============================================================================
