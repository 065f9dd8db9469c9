--------------------------- MODULE LifecycleProofs ---------------------------
(***************************************************************************)
(* The part file, the rows and the final names, for any number of          *)
(* downloads, versions, links, interruptions and kills: a claim is backed  *)
(* by the file unless the command trusted an older one, which takes a      *)
(* kill, a file changed by hand or a second download; a download whose     *)
(* command was killed gives its tails back; rows are stranded by kills     *)
(* only; the history lacks at most one entry per kill; and the final names *)
(* and statuses implement the shelf.                                       *)
(***************************************************************************)
EXTENDS Lifecycle, FiniteSetTheorems, TLAPS

Rec == sess.row
Before == {"linking", "starting", "probing", "opening"}

\* What a command knows about its own row at each step.
Session ==
  /\ sess.pc \in Before =>
       /\ sess.done \subseteq Rewind(rows[Rec].ranges)
       /\ sess.rewound \/ rows[Rec].ranges = {}
  /\ sess.pc \notin {"idle", "closing"} => rows[Rec].status # "completed"
  /\ sess.pc \in {"opening", "running", "publishing"} => sess.total # 0
  /\ sess.pc = "publishing" => 1 .. sess.total \subseteq sess.done
  /\ sess.pc = "renamed" => \E n \in Name : published[n].row = Rec
  /\ sess.pc = "failing" => sess.verdict # "none"
  /\ sess.pc = "closing" => rows[Rec].status \in Offered \cup {"completed"}

\* The claims that are backed are those of rows, against a file that exists.
Backing ==
  /\ ClaimIsBacked
  /\ \A r \in Row : backed[r] => r \in Used
  /\ sess.pc \in {"running", "publishing"} => part.exists

\* One download, no kill, no part file changed by hand.
Undisturbed == crashes = 0 /\ ~tampered /\ \A q, r \in Used : q = r

\* Then what a resume would start from is backed; if the part file is gone it
\* was published.
Trust ==
  Undisturbed =>
    /\ ~sess.trusts
    /\ \A r \in Used : Rewind(rows[r].ranges) # {} =>
         \/ part.exists /\ backed[r]
         \/ ~part.exists /\ (rows[r].status = "completed" \/ sess.pc = "renamed")

\* Files of rows only, and every row offered or accounted for.
Offers ==
  \A r \in Used : rows[r].status \in Offered \cup {"completed"} \/ died[r]
                    \/ (sess.pc # "idle" /\ Rec = r)

FilesBacked ==
  \A n \in Name : published[n] # NoFile /\ ~published[n].trusted
    => \A b \in 1 .. published[n].total : published[n].data[b] # Hole

\* A row that is neither complete nor about to be may be published once more.
Due(r) == IF rows[r].status # "completed" /\ ~(sess.pc = "renamed" /\ Rec = r) THEN 1 ELSE 0

Once ==
  /\ \A n \in Name : published[n].row = 0 \/ published[n].row \in Used
  /\ \A r \in Used : Cardinality(FilesOf(r)) + Due(r) <= 1 + rows[r].swaps + crashes

IInv == TypeOK /\ Session /\ Backing /\ Trust /\ Offers /\ FilesBacked /\ HistoryComplete /\ Once

-----------------------------------------------------------------------------
(***************************************************************************)
(* Rows.                                                                   *)
(***************************************************************************)
\* A row that exists is a record, and one that is NoRow is not.
LEMMA UsedRows ==
  ASSUME TypeOK
  PROVE  /\ \A r \in Used : rows[r] \in Record_
         /\ NoRow \notin Record_
BY DEF TypeOK, Used, NoRow, Record_, Status

\* Opening the store changes no field of a row but its clean flag.
LEMMA OpenedRows ==
  ASSUME TypeOK
  PROVE  /\ OpenStore(rows) \in [Row -> Record_ \cup {NoRow}]
         /\ \A r \in Row \ Used : OpenStore(rows)[r] = NoRow
         /\ \A r \in Used :
              LET rec == OpenStore(rows)[r] IN
              /\ rec \in Record_ /\ ~rec.clean
              /\ rec.status = rows[r].status /\ rec.ranges = rows[r].ranges
              /\ rec.total = rows[r].total /\ rec.swaps = rows[r].swaps /\ rec.links = rows[r].links
<1>1. ASSUME NEW r \in Used
      PROVE  /\ OpenStore(rows)[r] = [rows[r] EXCEPT !.clean = FALSE]
             /\ rows[r] \in Record_
  BY UsedRows DEF OpenStore, Used
<1>2. ASSUME NEW rec \in Record_
      PROVE  LET new == [rec EXCEPT !.clean = FALSE] IN
             /\ new \in Record_ /\ ~new.clean
             /\ new.status = rec.status /\ new.ranges = rec.ranges
             /\ new.total = rec.total /\ new.swaps = rec.swaps /\ new.links = rec.links
  BY DEF Record_
<1>3. \A r \in Row \ Used : OpenStore(rows)[r] = NoRow
  BY DEF OpenStore, Used
<1>4. OpenStore(rows) \in [Row -> Record_ \cup {NoRow}]
  <2>1. \A r \in Row : OpenStore(rows)[r] \in Record_ \cup {NoRow}
    BY <1>1, <1>2, <1>3 DEF Used
  <2> QED BY <2>1 DEF OpenStore
<1> QED BY <1>1, <1>2, <1>3, <1>4

\* What a command starts from: the ranges of the row without their tails.
LEMMA ResumeRewinds ==
  ASSUME TypeOK, NEW r \in Used
  PROVE  /\ ResumeState(OpenStore(rows)[r]) = Rewind(rows[r].ranges)
         /\ Rewind(rows[r].ranges) \subseteq rows[r].ranges
         /\ rows[r].ranges \subseteq Block
<1>1. rows[r].ranges \subseteq Block
  BY UsedRows DEF Record_, Ranges
<1>2. 0 \in 0 .. PARANOID_REWIND
  BY LifecycleAssumption
<1>3. Rewind(rows[r].ranges) \subseteq rows[r].ranges
  BY <1>1, <1>2 DEF Rewind, Block
<1> QED BY <1>1, <1>3, OpenedRows DEF ResumeState

-----------------------------------------------------------------------------
(***************************************************************************)
(* Types.                                                                  *)
(***************************************************************************)
Sess_ == [pc : Phase, row : Row \cup {0}, total : 0 .. MaxSize, done : Ranges,
          rewound : BOOLEAN, trusts : BOOLEAN,
          verdict : {"none", "paused", "needs_attention", "failed"}]

\* The length of the server's file.
LEMMA SizeType ==
  ASSUME TypeOK
  PROVE  Size \in 1 .. MaxSize
BY LifecycleAssumption DEF TypeOK, Size

\* The step of a session: its own row stays, and so do the rows.
LEMMA SessionType ==
  ASSUME TypeOK, NEW p \in Phase \ {"idle"}, sess.pc # "idle"
  PROVE  /\ [sess EXCEPT !.pc = p] \in Sess_
         /\ [sess EXCEPT !.pc = p].pc = p /\ [sess EXCEPT !.pc = p].row = Rec
         /\ Rec \in Used /\ Rec \in Row /\ sess \in Sess_
BY DEF TypeOK, Sess_, Used, Rec

\* A row is changed in one field; the others keep theirs.
RowKeeps(r) ==
  /\ rows' \in [Row -> Record_ \cup {NoRow}] /\ Used' = Used
  /\ \A q \in Row \ {r} : rows'[q] = rows[q]
  /\ rows'[r].total = rows[r].total /\ rows'[r].swaps = rows[r].swaps

\* A field of a row is set; the other fields and rows keep their values.
LEMMA SetField ==
  ASSUME TypeOK, NEW r \in Used
  PROVE  /\ \A s \in Status : rows' = [rows EXCEPT ![r].status = s] =>
              /\ RowKeeps(r) /\ rows'[r].status = s
              /\ rows'[r].ranges = rows[r].ranges /\ rows'[r].links = rows[r].links
         /\ \A S \in Ranges : rows' = [rows EXCEPT ![r].ranges = S] =>
              /\ RowKeeps(r) /\ rows'[r].ranges = S
              /\ rows'[r].status = rows[r].status /\ rows'[r].links = rows[r].links
         /\ \A c \in BOOLEAN : rows' = [rows EXCEPT ![r].clean = c] =>
              /\ RowKeeps(r) /\ rows'[r].ranges = rows[r].ranges
              /\ rows'[r].status = rows[r].status /\ rows'[r].links = rows[r].links
         /\ rows[r].links <= MaxRefreshes /\ rows' = [rows EXCEPT ![r].links = @ + 1] =>
              /\ RowKeeps(r) /\ rows'[r].ranges = rows[r].ranges
              /\ rows'[r].status = rows[r].status /\ rows'[r].links = rows[r].links + 1
<1>1. r \in Row /\ rows[r] \in Record_ /\ rows \in [Row -> Record_ \cup {NoRow}]
  BY UsedRows DEF Used, TypeOK
<1>2. ASSUME NEW rec \in Record_, rows' = [rows EXCEPT ![r] = rec],
             rec.total = rows[r].total, rec.swaps = rows[r].swaps
      PROVE  RowKeeps(r) /\ rows'[r] = rec
  <2>1. rows' \in [Row -> Record_ \cup {NoRow}] /\ rows'[r] = rec
        /\ \A q \in Row \ {r} : rows'[q] = rows[q]
    BY <1>1, <1>2
  <2>2. Used' = Used
    BY <1>1, <2>1, UsedRows DEF Used
  <2> QED BY <1>2, <2>1, <2>2 DEF RowKeeps
<1>3. ASSUME NEW s \in Status, rows' = [rows EXCEPT ![r].status = s]
      PROVE  /\ RowKeeps(r) /\ rows'[r].status = s
             /\ rows'[r].ranges = rows[r].ranges /\ rows'[r].links = rows[r].links
  <2> DEFINE rec == [rows[r] EXCEPT !.status = s]
  <2>1. /\ rec \in Record_ /\ rec.total = rows[r].total /\ rec.swaps = rows[r].swaps
        /\ rec.status = s /\ rec.ranges = rows[r].ranges /\ rec.links = rows[r].links
    BY <1>1 DEF Record_
  <2>2. rows' = [rows EXCEPT ![r] = rec]
    BY <1>3
  <2> HIDE DEF rec
  <2> QED BY <1>2, <2>1, <2>2
<1>4. ASSUME NEW S \in Ranges, rows' = [rows EXCEPT ![r].ranges = S]
      PROVE  /\ RowKeeps(r) /\ rows'[r].ranges = S
             /\ rows'[r].status = rows[r].status /\ rows'[r].links = rows[r].links
  <2> DEFINE rec == [rows[r] EXCEPT !.ranges = S]
  <2>1. /\ rec \in Record_ /\ rec.total = rows[r].total /\ rec.swaps = rows[r].swaps
        /\ rec.status = rows[r].status /\ rec.ranges = S /\ rec.links = rows[r].links
    BY <1>1 DEF Record_
  <2>2. rows' = [rows EXCEPT ![r] = rec]
    BY <1>4
  <2> HIDE DEF rec
  <2> QED BY <1>2, <2>1, <2>2
<1>5. ASSUME NEW c \in BOOLEAN, rows' = [rows EXCEPT ![r].clean = c]
      PROVE  /\ RowKeeps(r) /\ rows'[r].ranges = rows[r].ranges
             /\ rows'[r].status = rows[r].status /\ rows'[r].links = rows[r].links
  <2> DEFINE rec == [rows[r] EXCEPT !.clean = c]
  <2>1. /\ rec \in Record_ /\ rec.total = rows[r].total /\ rec.swaps = rows[r].swaps
        /\ rec.status = rows[r].status /\ rec.ranges = rows[r].ranges /\ rec.links = rows[r].links
    BY <1>1 DEF Record_
  <2>2. rows' = [rows EXCEPT ![r] = rec]
    BY <1>5
  <2> HIDE DEF rec
  <2> QED BY <1>2, <2>1, <2>2
<1>6. ASSUME rows[r].links <= MaxRefreshes, rows' = [rows EXCEPT ![r].links = @ + 1]
      PROVE  /\ RowKeeps(r) /\ rows'[r].ranges = rows[r].ranges
             /\ rows'[r].status = rows[r].status /\ rows'[r].links = rows[r].links + 1
  <2> DEFINE rec == [rows[r] EXCEPT !.links = rows[r].links + 1]
  <2>1. /\ rec \in Record_ /\ rec.total = rows[r].total /\ rec.swaps = rows[r].swaps
        /\ rec.status = rows[r].status /\ rec.ranges = rows[r].ranges
        /\ rec.links = rows[r].links + 1
    BY <1>1, <1>6, LifecycleAssumption DEF Record_
  <2>2. rows' = [rows EXCEPT ![r] = rec]
    BY <1>6
  <2> HIDE DEF rec
  <2> QED BY <1>2, <2>1, <2>2
<1> QED BY <1>3, <1>4, <1>5, <1>6

-----------------------------------------------------------------------------
(***************************************************************************)
(* The commands.                                                           *)
(***************************************************************************)
LEMMA Started ==
  ASSUME TypeOK, NEW r \in Row, NEW p \in Phase, NEW S \in Ranges, NEW u \in BOOLEAN,
         Start(r, p, S, u)
  PROVE  /\ sess' \in Sess_ /\ sess'.pc = p /\ Rec' = r /\ sess'.done = S /\ sess'.rewound = u
         /\ ~sess'.trusts /\ sess'.total = 0 /\ sess'.verdict = "none"
<1>1. sess' = [pc |-> p, row |-> r, total |-> 0, done |-> S,
               rewound |-> u, trusts |-> FALSE, verdict |-> "none"]
  BY DEF Start, Idle
<1>2. 0 \in 0 .. MaxSize
  BY LifecycleAssumption
<1> QED BY <1>1, <1>2 DEF Sess_, Rec

\* What every command does: the row is not complete any more, the claims are as
\* they were, and the session starts from their rewound ranges.
Began(r) ==
  /\ sess.pc = "idle" /\ Rec' = r /\ sess'.pc \in {"linking", "starting"} /\ ~sess'.trusts
  /\ Used' = Used \cup {r} /\ rows'[r].status # "completed"
  /\ \A q \in Used : rows'[q].ranges = rows[q].ranges
  /\ \A q \in Used \ {r} : /\ rows'[q].status = rows[q].status
                           /\ rows'[q].swaps = rows[q].swaps /\ rows'[q].links = rows[q].links
  /\ sess'.done = Rewind(rows'[r].ranges) /\ (sess'.rewound \/ rows'[r].ranges = {})

\* get takes a row that was not used, and claims nothing.
LEMMA GetStarts ==
  ASSUME TypeOK, NEW r \in Row, Get(r)
  PROVE  /\ TypeOK' /\ Began(r)
         /\ r \notin Used /\ sess'.pc = "linking" /\ rows'[r].ranges = {}
         /\ rows'[r].swaps = 0 /\ rows'[r].links = 0 /\ rows'[r].status = "queued"
<1>1. NewRow \in Record_ /\ NewRow # NoRow
  <2>1. NewRow \in Record_
    BY SizeType, LifecycleAssumption DEF NewRow, Record_, Status, Ranges
  <2> QED BY <2>1, UsedRows
<1>2. /\ rows' \in [Row -> Record_ \cup {NoRow}] /\ rows'[r] = NewRow
      /\ \A q \in Row \ {r} : rows'[q] = OpenStore(rows)[q]
  BY <1>1, OpenedRows DEF Get
<1>3. Used' = Used \cup {r} /\ r \notin Used
  BY <1>1, <1>2, OpenedRows, UsedRows DEF Get, Used
<1>4. Start(r, "linking", {}, FALSE)
  BY DEF Get
<1>5. /\ sess' \in Sess_ /\ sess'.pc = "linking" /\ Rec' = r /\ sess'.done = {}
      /\ ~sess'.rewound /\ ~sess'.trusts
  BY <1>4, Started DEF Phase, Ranges
<1>6. Rewind({}) = {}
  BY DEF Rewind
<1>7. Began(r)
  <2>1. \A q \in Used : q # r /\ q \in Row
    BY <1>3 DEF Used
  <2>2. /\ NewRow.ranges = {} /\ NewRow.status = "queued"
    BY DEF NewRow
  <2> QED BY <1>2, <1>3, <1>5, <1>6, <2>1, <2>2, OpenedRows DEF Began, Get, At
<1>8. TypeOK'
  BY <1>2, <1>3, <1>5 DEF TypeOK, Get, disk, bounds, Sess_, Rec
<1> QED BY <1>2, <1>3, <1>5, <1>7, <1>8 DEF NewRow

\* resume takes a row of an earlier command that is not completed.
LEMMA ResumeStarts ==
  ASSUME TypeOK, NEW r \in Row, Resume(r)
  PROVE  /\ TypeOK' /\ Began(r)
         /\ r \in Used /\ sess'.pc = "starting" /\ rows[r].status # "completed"
         /\ rows'[r].swaps = rows[r].swaps /\ rows'[r].links = rows[r].links
         /\ rows'[r].status = rows[r].status
<1>1. r \in Used /\ rows' = OpenStore(rows) /\ rows[r].status # "completed" /\ sess.pc = "idle"
  BY DEF Resume, At
<1>2. Used' = Used
  BY <1>1, OpenedRows, UsedRows DEF Used
<1>3. /\ ~rows'[r].clean /\ rows'[r].ranges = rows[r].ranges
  BY <1>1, OpenedRows
<1>4. /\ sess' \in Sess_ /\ sess'.pc = "starting" /\ Rec' = r
      /\ sess'.done = Rewind(rows[r].ranges) /\ sess'.rewound /\ ~sess'.trusts
  <2>1. Start(r, "starting", Rewind(rows[r].ranges), TRUE)
    BY <1>1, <1>3, ResumeRewinds DEF Resume, Start
  <2>2. Rewind(rows[r].ranges) \in Ranges /\ "starting" \in Phase
    BY <1>1, ResumeRewinds DEF Ranges, Phase
  <2> QED BY <2>1, <2>2, Started
<1>5. Began(r)
  BY <1>1, <1>2, <1>3, <1>4, OpenedRows DEF Began
<1>6. TypeOK'
  BY <1>1, <1>2, <1>4, OpenedRows DEF TypeOK, Resume, disk, bounds, Sess_, Rec
<1> QED BY <1>1, <1>4, <1>5, <1>6, OpenedRows

\* refresh-url takes a row of an earlier command.
LEMMA RefreshStarts ==
  ASSUME TypeOK, NEW r \in Row, Refresh(r)
  PROVE  /\ TypeOK' /\ Began(r)
         /\ r \in Used /\ sess'.pc = "linking"
         /\ Rewind(rows[r].ranges) # {} => part.exists
         /\ rows'[r].swaps = rows[r].swaps + 1 /\ rows'[r].links = rows[r].links
         /\ rows'[r].status = "queued"
<1> DEFINE opened == OpenStore(rows)
           rec == [opened[r] EXCEPT !.status = "queued", !.total = Size, !.swaps = @ + 1]
<1>1. /\ r \in Used /\ rows[r].swaps < MaxRefreshes /\ sess.pc = "idle"
      /\ SameFile(rows[r], ResumeState(opened[r]))
      /\ rows' = [opened EXCEPT ![r] = rec]
      /\ Start(r, "linking", ResumeState(opened[r]), ~opened[r].clean)
  BY DEF Refresh, At, Swapped
<1>2. /\ opened[r] \in Record_ /\ ~opened[r].clean /\ opened[r].ranges = rows[r].ranges
      /\ opened[r].swaps = rows[r].swaps /\ opened[r].links = rows[r].links
      /\ opened \in [Row -> Record_ \cup {NoRow}]
  BY <1>1, OpenedRows
<1>3. /\ rec \in Record_ /\ rec.ranges = rows[r].ranges /\ rec.status = "queued"
      /\ rec.swaps = rows[r].swaps + 1 /\ rec.links = rows[r].links
  <2> HIDE DEF opened
  <2>1. rows[r].swaps + 1 \in 0 .. MaxRefreshes
    BY <1>1, UsedRows, LifecycleAssumption DEF Record_
  <2> QED BY <1>2, <2>1, SizeType DEF Record_, Status
<1> HIDE DEF opened, rec
<1>4. /\ rows' \in [Row -> Record_ \cup {NoRow}] /\ rows'[r] = rec
      /\ \A q \in Row \ {r} : rows'[q] = opened[q]
  BY <1>1, <1>2, <1>3
<1>5. Used' = Used
  BY <1>1, <1>3, <1>4, OpenedRows, UsedRows DEF Used, opened
<1>6. ResumeState(opened[r]) = Rewind(rows[r].ranges) /\ Rewind(rows[r].ranges) \in Ranges
  BY <1>1, ResumeRewinds DEF opened, Ranges
<1>7. /\ sess' \in Sess_ /\ sess'.pc = "linking" /\ Rec' = r
      /\ sess'.done = Rewind(rows[r].ranges) /\ sess'.rewound /\ ~sess'.trusts
  <2>1. "linking" \in Phase /\ (~opened[r].clean) \in BOOLEAN
    BY <1>2 DEF Phase
  <2> QED BY <1>1, <1>2, <1>6, <2>1, Started
<1>8. Began(r)
  <2>1. \A q \in Used \ {r} : q \in Row \ {r}
    BY DEF Used
  <2> QED BY <1>1, <1>3, <1>4, <1>5, <1>7, <2>1, OpenedRows DEF Began, opened
<1>9. TypeOK'
  BY <1>1, <1>4, <1>5, <1>7 DEF TypeOK, Refresh, disk, bounds, Sess_, Rec
<1> QED BY <1>1, <1>3, <1>4, <1>6, <1>7, <1>8, <1>9 DEF SameFile

-----------------------------------------------------------------------------
(***************************************************************************)
(* The invariant: each action keeps each part of it.                       *)
(***************************************************************************)
LEMMA FilesFinite ==
  ASSUME NEW r
  PROVE  IsFiniteSet(FilesOf(r)) /\ Cardinality(FilesOf(r)) \in Nat
<1>1. IsFiniteSet(Name)
  BY LifecycleAssumption, FS_Interval DEF Name
<1>2. FilesOf(r) \subseteq Name
  BY DEF FilesOf
<1> QED BY <1>1, <1>2, FS_Subset, FS_CardinalityType

\* The history of the state after, with its conditional resolved.
LEMMA HistoryPrimed ==
  ASSUME TypeOK',
         \A q \in Used' :
           IF sess'.pc = "linking" /\ sess'.row = q
           THEN rows'[q].links + 1 \in 1 + rows'[q].swaps - crashes' .. 1 + rows'[q].swaps
           ELSE rows'[q].links \in 1 + rows'[q].swaps - crashes' .. 1 + rows'[q].swaps
  PROVE  HistoryComplete'
<1> SUFFICES ASSUME NEW q \in Used'
             PROVE  rows'[q].links + Unwritten(q)' \in 1 + rows'[q].swaps - crashes' .. 1 + rows'[q].swaps
  BY DEF HistoryComplete
<1> USE DEF Unwritten
<1>1. CASE sess'.pc = "linking" /\ sess'.row = q
  BY <1>1
<1>2. CASE ~(sess'.pc = "linking" /\ sess'.row = q)
  <2>1. rows'[q].links \in Nat
    <3>1. rows'[q] \in Record_
      BY DEF TypeOK, Used
    <3> QED BY <3>1, LifecycleAssumption DEF Record_
  <2>2. rows'[q].links \in 1 + rows'[q].swaps - crashes' .. 1 + rows'[q].swaps
    BY <1>2
  <2> QED BY <1>2, <2>1, <2>2
<1> QED BY <1>1, <1>2

\* The beginning of a command keeps the invariant.
LEMMA CommandKeeps ==
  ASSUME IInv, NEW r \in Row, Command(r)
  PROVE  IInv'
<1> USE DEF IInv
<1>1. TypeOK' /\ Began(r) /\ (sess'.pc = "starting" => r \in Used)
      /\ (r \notin Used => rows'[r].ranges = {} /\ rows'[r].swaps = 0 /\ rows'[r].links = 0
                           /\ sess'.pc = "linking" /\ rows'[r].status = "queued")
      /\ (r \in Used => rows'[r].links = rows[r].links /\
            \/ sess'.pc = "starting" /\ rows'[r].swaps = rows[r].swaps
               /\ rows'[r].status = rows[r].status /\ rows[r].status # "completed"
            \/ sess'.pc = "linking" /\ rows'[r].swaps = rows[r].swaps + 1
               /\ rows'[r].status = "queued" /\ (Rewind(rows[r].ranges) # {} => part.exists))
  BY GetStarts, ResumeStarts, RefreshStarts DEF Command
<1>2. UNCHANGED <<server, died, part, backed, published, crashes, faults, tampered>>
  BY DEF Command, Get, Resume, Refresh, disk, bounds
<1>3. Used \subseteq Row /\ r \in Used' /\ \A q \in Used' : q \in Used \/ q = r
  BY <1>1 DEF Used, Began
<1>4. Session'
  BY <1>1 DEF Session, Began, Before, Rec
<1>5. Backing'
  <2>1. \A q \in Used' : backed[q] => q \in Used
    BY <1>3 DEF Backing, Used
  <2>2. Written' = Written
    BY <1>2 DEF Written
  <2> QED BY <1>1, <1>2, <1>3, <2>1, <2>2 DEF Backing, ClaimIsBacked, Began
<1>6. Trust'
  <2> SUFFICES ASSUME Undisturbed'
               PROVE  /\ ~sess'.trusts
                      /\ \A q \in Used' : Rewind(rows'[q].ranges) # {} =>
                           \/ part'.exists /\ backed'[q]
                           \/ ~part'.exists /\ (rows'[q].status = "completed" \/ sess'.pc = "renamed")
    BY DEF Trust
  <2>1. \A q \in Used' : q = r
    BY <1>3 DEF Undisturbed
  <2>2. Undisturbed
    BY <1>1, <1>2, <1>3, <2>1 DEF Undisturbed, Began
  <2>3. CASE r \notin Used
    <3>1. Rewind({}) = {}
      BY DEF Rewind
    <3> QED BY <1>1, <2>1, <2>3, <3>1 DEF Began
  <2>4. CASE r \in Used
    <3>1. rows'[r].ranges = rows[r].ranges
      BY <1>1, <2>4 DEF Began
    <3>2. Rewind(rows[r].ranges) # {} => part.exists /\ backed[r]
      BY <1>1, <2>2, <2>4 DEF Trust, Began
    <3> QED BY <1>1, <1>2, <2>1, <3>1, <3>2 DEF Began
  <2> QED BY <2>3, <2>4
<1>7. Offers'
  BY <1>1, <1>2, <1>3 DEF Offers, Began, Rec
<1>8. FilesBacked'
  BY <1>2 DEF FilesBacked
<1>9. HistoryComplete'
  <2>1. \A q \in Used : rows[q].swaps \in Nat /\ rows[q].links \in Nat
    BY UsedRows, LifecycleAssumption DEF Record_
  <2>2. crashes \in Nat
    BY DEF TypeOK
  <2>3. \A q \in Used : rows[q].links \in 1 + rows[q].swaps - crashes .. 1 + rows[q].swaps
    BY <1>1, <2>1, <2>2 DEF HistoryComplete, Unwritten, Began
  <2>4. ASSUME NEW q \in Used', q # r
        PROVE  rows'[q].links \in 1 + rows'[q].swaps - crashes' .. 1 + rows'[q].swaps
    BY <1>1, <1>2, <1>3, <2>3, <2>4 DEF Began
  <2>5. /\ sess'.pc = "linking" => rows'[r].links + 1 \in 1 + rows'[r].swaps - crashes' .. 1 + rows'[r].swaps
        /\ sess'.pc # "linking" => rows'[r].links \in 1 + rows'[r].swaps - crashes' .. 1 + rows'[r].swaps
    BY <1>1, <1>2, <2>1, <2>2, <2>3
  <2>6. sess'.row = r
    BY <1>1 DEF Began, Rec
  <2> QED BY <1>1, <2>4, <2>5, <2>6, HistoryPrimed
<1>10. Once'
  <2>1. \A q : FilesOf(q)' = FilesOf(q)
    BY <1>2 DEF FilesOf
  <2>2. \A n \in Name : published'[n].row = 0 \/ published'[n].row \in Used'
    BY <1>1, <1>2 DEF Once, Began
  <2>3. crashes \in Nat /\ \A q \in Used : rows[q].swaps \in Nat
    BY UsedRows, LifecycleAssumption DEF TypeOK, Record_
  <2>4. ASSUME NEW q \in Used', q # r
        PROVE  Cardinality(FilesOf(q)') + Due(q)' <= 1 + rows'[q].swaps + crashes'
    <3>1. q \in Used /\ Due(q)' = Due(q) /\ rows'[q].swaps = rows[q].swaps
      BY <1>1, <1>3, <2>4 DEF Began, Due, Rec
    <3> QED BY <1>2, <2>1, <3>1 DEF Once
  <2>5. Cardinality(FilesOf(r)') + Due(r)' <= 1 + rows'[r].swaps + crashes'
    <3>1. CASE r \notin Used
      <4>1. r # 0
        BY DEF Row
      <4>2. FilesOf(r) = {}
        BY <3>1, <4>1 DEF Once, FilesOf
      <4>3. Cardinality(FilesOf(r)) = 0
        BY <4>2, FS_EmptySet
      <4>4. Due(r)' \in {0, 1}
        BY DEF Due
      <4> QED BY <1>1, <1>2, <2>1, <2>3, <3>1, <4>3, <4>4
    <3>2. CASE r \in Used
      <4>1. Due(r) \in {0, 1} /\ Due(r)' \in {0, 1}
        BY DEF Due
      <4>2. Cardinality(FilesOf(r)) + Due(r) <= 1 + rows[r].swaps + crashes
        BY <3>2 DEF Once
      <4>3. Due(r)' <= Due(r) + rows'[r].swaps - rows[r].swaps
        <5>1. CASE sess'.pc = "starting"
          <6>1. Due(r) = 1 /\ rows'[r].swaps = rows[r].swaps
            BY <1>1, <3>2, <5>1 DEF Due, Began
          <6> QED BY <2>3, <3>2, <4>1, <6>1
        <5>2. CASE sess'.pc # "starting"
          <6>1. rows'[r].swaps = rows[r].swaps + 1
            BY <1>1, <3>2, <5>2
          <6> QED BY <2>3, <3>2, <4>1, <6>1
        <5> QED BY <5>1, <5>2
      <4>4. rows'[r].swaps \in Nat /\ rows[r].swaps \in Nat
        BY <1>1, <2>3, <3>2
      <4>5. Cardinality(FilesOf(r)) \in Nat
        BY FilesFinite
      <4> QED BY <1>2, <2>1, <2>3, <4>1, <4>2, <4>3, <4>4, <4>5
    <3> QED BY <3>1, <3>2
  <2> QED BY <2>2, <2>4, <2>5 DEF Once
<1> QED BY <1>1, <1>4, <1>5, <1>6, <1>7, <1>8, <1>9, <1>10

\* The files, the links and the kills stay as they were.
LEMMA CountsKept ==
  ASSUME HistoryComplete, Once, Used' = Used, UNCHANGED <<published, crashes>>,
         \A r \in Used : rows'[r].swaps = rows[r].swaps /\ Due(r)' = Due(r)
  PROVE  /\ Once'
         /\ (\A r \in Used : rows'[r].links = rows[r].links /\ Unwritten(r)' = Unwritten(r))
              => HistoryComplete'
<1>1. \A r : FilesOf(r)' = FilesOf(r)
  BY DEF FilesOf
<1> QED BY <1>1 DEF Once, HistoryComplete

\* A session goes on to its next step.
LEMMA SessionMoves ==
  ASSUME TypeOK, sess.pc # "idle", NEW p \in Phase \ {"idle"}, sess' = [sess EXCEPT !.pc = p]
  PROVE  /\ sess' \in Sess_ /\ sess'.pc = p /\ Rec' = Rec /\ Rec \in Used /\ Rec \in Row
         /\ sess'.total = sess.total /\ sess'.done = sess.done /\ sess'.trusts = sess.trusts
         /\ sess'.rewound = sess.rewound /\ sess'.verdict = sess.verdict
BY SessionType DEF Sess_, Rec

\* The link reaches the history, and with it what the row says of it is complete.
LEMMA PushHistoryKeeps ==
  ASSUME IInv, PushHistory
  PROVE  IInv'
<1> USE DEF IInv
<1>1. /\ sess.pc = "linking" /\ sess'.pc = "starting" /\ sess' \in Sess_
      /\ Rec' = Rec /\ Rec \in Used /\ Rec \in Row
      /\ sess'.done = sess.done /\ sess'.trusts = sess.trusts /\ sess'.rewound = sess.rewound
  BY SessionMoves DEF PushHistory, At, Goto, Phase
<1>2. UNCHANGED <<server, died, part, backed, published, crashes, faults, tampered>>
  BY DEF PushHistory, disk, bounds
<1>3. /\ rows[Rec].links \in Nat /\ rows[Rec].swaps \in 0 .. MaxRefreshes /\ crashes \in Nat
      /\ rows[Rec].links + 1 \in 1 + rows[Rec].swaps - crashes .. 1 + rows[Rec].swaps
  BY <1>1, UsedRows, LifecycleAssumption DEF TypeOK, Record_, HistoryComplete, Unwritten, Rec
<1>4. /\ RowKeeps(Rec) /\ rows'[Rec].ranges = rows[Rec].ranges
      /\ rows'[Rec].status = rows[Rec].status /\ rows'[Rec].links = rows[Rec].links + 1
  <2>1. rows[Rec].links <= MaxRefreshes
    BY <1>3, LifecycleAssumption
  <2> QED BY <1>1, <2>1, SetField DEF PushHistory, Rec
<1>5. Used \subseteq Row
  BY DEF Used
<1>6. TypeOK'
  BY <1>1, <1>2, <1>4 DEF TypeOK, RowKeeps, Sess_, Rec
<1>7. Session'
  BY <1>1, <1>4 DEF Session, Before
<1>8. Backing'
  BY <1>1, <1>2, <1>4, <1>5 DEF Backing, ClaimIsBacked, Written, RowKeeps
<1>9. Trust'
  BY <1>1, <1>2, <1>4, <1>5 DEF Trust, Undisturbed, RowKeeps
<1>10. Offers'
  BY <1>1, <1>2, <1>4, <1>5 DEF Offers, RowKeeps
<1>11. FilesBacked'
  BY <1>2 DEF FilesBacked
<1>12. HistoryComplete'
  <2>1. ASSUME NEW q \in Used, q # Rec
        PROVE  rows'[q].links + Unwritten(q)' \in 1 + rows'[q].swaps - crashes' .. 1 + rows'[q].swaps
    <3>1. rows'[q] = rows[q] /\ Unwritten(q)' = Unwritten(q)
      BY <1>1, <1>4, <1>5, <2>1 DEF RowKeeps, Unwritten, Rec
    <3> QED BY <1>2, <3>1 DEF HistoryComplete
  <2>2. rows'[Rec].links + Unwritten(Rec)'
          \in 1 + rows'[Rec].swaps - crashes' .. 1 + rows'[Rec].swaps
    <3>1. Unwritten(Rec)' = 0
      BY <1>1 DEF Unwritten
    <3>2. rows'[Rec].links = rows[Rec].links + 1 /\ rows'[Rec].swaps = rows[Rec].swaps
      BY <1>4 DEF RowKeeps
    <3> QED BY <1>2, <1>3, <3>1, <3>2
  <2> QED BY <1>1, <1>4, <2>1, <2>2 DEF HistoryComplete, RowKeeps
<1>13. Once'
  <2>1. \A r \in Used : rows'[r].swaps = rows[r].swaps /\ Due(r)' = Due(r)
    BY <1>1, <1>4, <1>5 DEF RowKeeps, Due
  <2> QED BY <1>2, <1>4, <2>1, CountsKept DEF RowKeeps
<1> QED BY <1>6, <1>7, <1>8, <1>9, <1>10, <1>11, <1>12, <1>13

\* A row that becomes active is offered to no other command.
LEMMA SetActiveKeeps ==
  ASSUME IInv, SetActive
  PROVE  IInv'
<1> USE DEF IInv
<1>1. /\ sess.pc = "starting" /\ sess'.pc = "probing" /\ sess' \in Sess_
      /\ Rec' = Rec /\ Rec \in Used /\ Rec \in Row
      /\ sess'.done = sess.done /\ sess'.trusts = sess.trusts /\ sess'.rewound = sess.rewound
  BY SessionMoves DEF SetActive, At, Goto, Phase
<1>2. UNCHANGED <<server, died, part, backed, published, crashes, faults, tampered>>
  BY DEF SetActive, disk, bounds
<1>3. /\ RowKeeps(Rec) /\ rows'[Rec].ranges = rows[Rec].ranges
      /\ rows'[Rec].status = "active" /\ rows'[Rec].links = rows[Rec].links
  BY <1>1, SetField DEF SetActive, Rec, Status
<1>4. Used \subseteq Row
  BY DEF Used
<1>5. TypeOK'
  BY <1>1, <1>2, <1>3 DEF TypeOK, RowKeeps, Sess_, Rec
<1>6. Session'
  BY <1>1, <1>3 DEF Session, Before
<1>7. Backing'
  BY <1>1, <1>2, <1>3, <1>4 DEF Backing, ClaimIsBacked, Written, RowKeeps
<1>8. Trust'
  BY <1>1, <1>2, <1>3, <1>4 DEF Trust, Undisturbed, RowKeeps, Session
<1>9. Offers'
  BY <1>1, <1>2, <1>3, <1>4 DEF Offers, RowKeeps
<1>10. FilesBacked'
  BY <1>2 DEF FilesBacked
<1>11. HistoryComplete' /\ Once'
  <2>1. \A r \in Used : rows'[r].swaps = rows[r].swaps /\ rows'[r].links = rows[r].links
    BY <1>3, <1>4 DEF RowKeeps
  <2>2. \A r \in Used : Unwritten(r)' = Unwritten(r) /\ Due(r)' = Due(r)
    BY <1>1, <1>3, <1>4 DEF RowKeeps, Due, Unwritten, Session
  <2> QED BY <1>2, <1>3, <2>1, <2>2, CountsKept DEF RowKeeps
<1> QED BY <1>5, <1>6, <1>7, <1>8, <1>9, <1>10, <1>11

\* The probe settles what the session will fetch.
LEMMA ProbeKeeps ==
  ASSUME IInv, Probe
  PROVE  IInv'
<1> USE DEF IInv
<1>1. /\ sess.pc = "probing" /\ sess'.pc = "opening" /\ sess' \in Sess_
      /\ Rec' = Rec /\ Rec \in Used /\ Rec \in Row
      /\ sess'.done = sess.done /\ sess'.trusts = sess.trusts /\ sess'.rewound = sess.rewound
      /\ sess'.total = Size
  <2>1. sess \in Sess_ /\ Size \in 0 .. MaxSize /\ sess.pc = "probing"
    BY SizeType DEF TypeOK, Sess_, Probe, At
  <2>2. Rec \in Used /\ Rec \in Row
    BY <2>1 DEF TypeOK, Used, Rec
  <2>3. sess' = [sess EXCEPT !.pc = "opening", !.total = Size]
    BY DEF Probe
  <2> QED BY <2>1, <2>2, <2>3 DEF Sess_, Phase, Rec
<1>2. UNCHANGED <<server, rows, died, part, backed, published, crashes, faults, tampered>> /\ Used' = Used
  BY DEF Probe, table, disk, bounds, Used
<1>3. TypeOK'
  BY <1>1, <1>2 DEF TypeOK, Sess_, Rec
<1>4. Session'
  BY <1>1, <1>2, SizeType DEF Session, Before
<1>5. Backing'
  BY <1>1, <1>2 DEF Backing, ClaimIsBacked, Written
<1>6. Trust'
  BY <1>1, <1>2 DEF Trust, Undisturbed
<1>7. Offers' /\ FilesBacked'
  BY <1>1, <1>2 DEF Offers, FilesBacked
<1>8. HistoryComplete' /\ Once'
  <2>1. \A r \in Used : Unwritten(r)' = Unwritten(r) /\ Due(r)' = Due(r)
    BY <1>1, <1>2 DEF Due, Unwritten
  <2> QED BY <1>2, <2>1, CountsKept
<1> QED BY <1>3, <1>4, <1>5, <1>6, <1>7, <1>8

\* Opening, or creating, the part file backs what the session goes on from.
LEMMA OpenPartKeeps ==
  ASSUME IInv, OpenPart
  PROVE  IInv'
<1> USE DEF IInv
<1> DEFINE kept == IF part.exists THEN sess.done ELSE {}
           stale == part.exists /\ sess.done # {} /\ ~backed[Rec]
<1>1. /\ sess.pc = "opening" /\ sess'.pc = "running" /\ sess' \in Sess_
      /\ Rec' = Rec /\ Rec \in Used /\ Rec \in Row
      /\ sess'.done = kept /\ sess'.trusts = stale /\ sess'.total = sess.total
  <2>1. sess \in Sess_ /\ part.exists \in BOOLEAN /\ sess.pc = "opening"
    BY DEF TypeOK, Sess_, OpenPart, At
  <2>2. Rec \in Used /\ Rec \in Row /\ stale \in BOOLEAN /\ kept \in Ranges
    BY <2>1 DEF TypeOK, Sess_, Used, Rec, Ranges
  <2>3. sess' = [sess EXCEPT !.pc = "running", !.done = kept, !.trusts = stale]
    BY DEF OpenPart, PartExisted, Rec
  <2> HIDE DEF kept, stale
  <2> QED BY <2>1, <2>2, <2>3 DEF Sess_, Phase, Rec
<1>2. /\ UNCHANGED <<server, rows, died, backed, published, crashes, faults, tampered>>
      /\ Used' = Used
  BY DEF OpenPart, table, bounds, Used
<1>3. /\ part' \in [exists : BOOLEAN, len : 0 .. MaxSize, data : Data]
      /\ part'.exists /\ part'.data = part.data
  BY DEF OpenPart, TypeOK
<1>4. TypeOK'
  BY <1>1, <1>2, <1>3 DEF TypeOK, Sess_, Rec
<1>5. Session'
  BY <1>1, <1>2 DEF Session, Before
<1>6. sess.done \subseteq Rewind(rows[Rec].ranges) /\ sess.done \subseteq rows[Rec].ranges
  BY <1>1, ResumeRewinds DEF Session, Before
<1>7. Backing'
  <2>1. Written' = Written
    BY <1>3 DEF Written
  <2>2. ~sess'.trusts => sess'.done \subseteq Written
    BY <1>1, <1>6 DEF Backing, ClaimIsBacked
  <2> QED BY <1>1, <1>2, <1>3, <2>1, <2>2 DEF Backing, ClaimIsBacked
<1>8. Trust'
  <2> SUFFICES ASSUME Undisturbed'
               PROVE  /\ ~sess'.trusts
                      /\ \A r \in Used : Rewind(rows[r].ranges) # {} => part'.exists /\ backed[r]
    BY <1>2 DEF Trust
  <2>1. Undisturbed
    BY <1>2 DEF Undisturbed
  <2>2. \A r \in Used : r = Rec
    BY <1>1, <2>1 DEF Undisturbed
  <2>3. Rewind(rows[Rec].ranges) # {} => part.exists /\ backed[Rec]
    BY <1>1, <2>1 DEF Trust, Session
  <2> QED BY <1>1, <1>3, <1>6, <2>2, <2>3
<1>9. Offers' /\ FilesBacked'
  BY <1>1, <1>2 DEF Offers, FilesBacked
<1>10. HistoryComplete' /\ Once'
  <2>1. \A r \in Used : Unwritten(r)' = Unwritten(r) /\ Due(r)' = Due(r)
    BY <1>1, <1>2 DEF Due, Unwritten
  <2> QED BY <1>2, <2>1, CountsKept
<1> QED BY <1>4, <1>5, <1>7, <1>8, <1>9, <1>10

\* A session that fails, at its start or at the rename, leaves the file alone.
LEMMA GivesUp ==
  ASSUME IInv, StartFails \/ PublishFails
  PROVE  IInv'
<1> USE DEF IInv
<1>1. /\ sess.pc \in {"probing", "opening", "publishing"} /\ sess'.pc = "failing" /\ sess' \in Sess_
      /\ Rec' = Rec /\ Rec \in Used /\ Rec \in Row
      /\ sess'.trusts = sess.trusts /\ sess'.verdict = "failed"
  <2>1. sess \in Sess_
    BY DEF TypeOK, Sess_
  <2>2. sess.pc \in {"probing", "opening", "publishing"}
        /\ sess' = [sess EXCEPT !.pc = "failing", !.verdict = "failed"]
    BY DEF StartFails, PublishFails, At, Fail
  <2> QED BY <2>1, <2>2 DEF Sess_, Phase, Rec, TypeOK, Used
<1>2. /\ UNCHANGED <<server, rows, died, part, backed, published, crashes, tampered>>
      /\ Used' = Used /\ faults' \in 0 .. MaxFaults
  BY LifecycleAssumption DEF StartFails, PublishFails, Fault, table, disk, Used, TypeOK
<1>3. TypeOK'
  BY <1>1, <1>2 DEF TypeOK, Sess_, Rec
<1>4. Session'
  BY <1>1, <1>2 DEF Session, Before
<1>5. Backing'
  BY <1>1, <1>2 DEF Backing, ClaimIsBacked, Written
<1>6. Trust'
  BY <1>1, <1>2 DEF Trust, Undisturbed
<1>7. Offers' /\ FilesBacked'
  BY <1>1, <1>2 DEF Offers, FilesBacked
<1>8. HistoryComplete' /\ Once'
  <2>1. \A r \in Used : Unwritten(r)' = Unwritten(r) /\ Due(r)' = Due(r)
    BY <1>1, <1>2 DEF Due, Unwritten
  <2> QED BY <1>2, <2>1, CountsKept
<1> QED BY <1>3, <1>4, <1>5, <1>6, <1>7, <1>8

\* A block is written, and recorded only then.
LEMMA FetchKeeps ==
  ASSUME IInv, NEW b \in Block, Fetch(b)
  PROVE  IInv'
<1> USE DEF IInv
<1>1. /\ sess.pc = "running" /\ sess'.pc = "running" /\ sess' \in Sess_
      /\ Rec' = Rec /\ Rec \in Used /\ Rec \in Row
      /\ sess'.done = sess.done \cup {b} /\ sess'.trusts = sess.trusts /\ sess'.total = sess.total
  <2>1. sess \in Sess_ /\ sess.pc = "running"
    BY DEF TypeOK, Sess_, Fetch, At
  <2>2. Rec \in Used /\ Rec \in Row
    BY <2>1 DEF TypeOK, Used, Rec
  <2>3. sess' = [sess EXCEPT !.done = sess.done \cup {b}] /\ sess.done \cup {b} \in Ranges
    BY <2>1 DEF Fetch, Sess_, Ranges
  <2> QED BY <2>1, <2>2, <2>3 DEF Sess_, Rec
<1>2. /\ UNCHANGED <<server, rows, died, backed, published, crashes, faults, tampered>>
      /\ Used' = Used
  BY DEF Fetch, table, bounds, Used
<1>3. /\ part' \in [exists : BOOLEAN, len : 0 .. MaxSize, data : Data]
      /\ part'.exists = part.exists
      /\ part'.data = [part.data EXCEPT ![b] = server]
  <2>1. server \in Version /\ part \in [exists : BOOLEAN, len : 0 .. MaxSize, data : Data]
    BY DEF TypeOK
  <2>2. [part.data EXCEPT ![b] = server] \in Data
    BY <2>1 DEF Data
  <2>3. part' = [part EXCEPT !.data = [part.data EXCEPT ![b] = server]]
    BY DEF Fetch
  <2> QED BY <2>1, <2>2, <2>3
<1>4. Written' = Written \cup {b}
  <2>1. server # Hole /\ part.data \in [Block -> {Hole} \cup Version]
    BY DEF TypeOK, Data, Version, Hole
  <2> QED BY <1>3, <2>1 DEF Written
<1>5. TypeOK'
  BY <1>1, <1>2, <1>3 DEF TypeOK, Sess_, Rec
<1>6. Session'
  BY <1>1, <1>2 DEF Session, Before
<1>7. Backing'
  BY <1>1, <1>2, <1>3, <1>4 DEF Backing, ClaimIsBacked
<1>8. Trust'
  BY <1>1, <1>2, <1>3 DEF Trust, Undisturbed
<1>9. Offers' /\ FilesBacked'
  BY <1>1, <1>2 DEF Offers, FilesBacked
<1>10. HistoryComplete' /\ Once'
  <2>1. \A r \in Used : Unwritten(r)' = Unwritten(r) /\ Due(r)' = Due(r)
    BY <1>1, <1>2 DEF Due, Unwritten
  <2> QED BY <1>2, <2>1, CountsKept
<1> QED BY <1>5, <1>6, <1>7, <1>8, <1>9, <1>10

\* A running session records what it has, or not, and goes on or ends.
LEMMA RunningKeeps ==
  ASSUME IInv, Checkpoint \/ Finish \/ Break \/ Refused
  PROVE  IInv'
<1> USE DEF IInv
<1>1. sess.pc = "running" /\ sess \in Sess_ /\ Rec \in Used /\ Rec \in Row
  BY DEF Checkpoint, Finish, Break, Refused, At, TypeOK, Sess_, Rec, Used
<1>2. /\ UNCHANGED <<server, died, part, published, crashes, tampered>>
      /\ faults' \in 0 .. MaxFaults
  BY LifecycleAssumption DEF Checkpoint, Finish, Break, Refused, Fault, bounds, TypeOK
<1>3. Record \/ UNCHANGED <<rows, backed>>
  BY DEF Checkpoint, Finish, Break, Refused
<1>4. \/ sess' = sess
      \/ Wanted = {} /\ sess' = [sess EXCEPT !.pc = "publishing"]
      \/ \E v \in {"paused", "needs_attention", "failed"} :
           sess' = [sess EXCEPT !.pc = "failing", !.verdict = v]
  BY DEF Checkpoint, Finish, Break, Refused, Goto, Fail
<1>5. /\ sess' \in Sess_ /\ Rec' = Rec /\ sess'.done = sess.done
      /\ sess'.trusts = sess.trusts /\ sess'.total = sess.total
      /\ \/ sess'.pc = "running"
         \/ sess'.pc = "publishing" /\ Wanted = {}
         \/ sess'.pc = "failing" /\ sess'.verdict # "none"
  <2>1. CASE sess' = sess
    BY <1>1, <2>1 DEF Rec
  <2>2. CASE Wanted = {} /\ sess' = [sess EXCEPT !.pc = "publishing"]
    BY <1>1, <2>2 DEF Rec, Sess_, Phase
  <2>3. ASSUME NEW v \in {"paused", "needs_attention", "failed"},
               sess' = [sess EXCEPT !.pc = "failing", !.verdict = v]
        PROVE  sess' \in Sess_ /\ Rec' = Rec /\ sess'.done = sess.done
               /\ sess'.trusts = sess.trusts /\ sess'.total = sess.total
               /\ sess'.pc = "failing" /\ sess'.verdict # "none"
    BY <1>1, <2>3 DEF Rec, Sess_, Phase
  <2> QED BY <1>4, <2>1, <2>2, <2>3
<1>6. Record => rows' = [rows EXCEPT ![Rec].ranges = sess.done]
                /\ backed' = [backed EXCEPT ![Rec] = ~sess.trusts]
  BY DEF Record, Rec
<1>7. /\ RowKeeps(Rec) /\ rows'[Rec].status = rows[Rec].status /\ rows'[Rec].links = rows[Rec].links
      /\ Record => rows'[Rec].ranges = sess.done
      /\ ~Record => UNCHANGED <<rows, backed>>
  <2>1. CASE Record
    <3>1. sess.done \in Ranges
      BY <1>1 DEF Sess_
    <3> QED BY <1>1, <1>6, <2>1, <3>1, SetField
  <2>2. CASE ~Record
    BY <1>1, <1>3, <2>2, UsedRows DEF RowKeeps, TypeOK, Used
  <2> QED BY <2>1, <2>2
<1>8. Used \subseteq Row /\ Used' = Used
  BY <1>7 DEF Used, RowKeeps
<1>9. /\ backed' \in [Row -> BOOLEAN] /\ \A q \in Row \ {Rec} : backed'[q] = backed[q]
      /\ Record => backed'[Rec] = ~sess.trusts
  <2>1. backed \in [Row -> BOOLEAN] /\ sess.trusts \in BOOLEAN
    BY <1>1 DEF TypeOK, Sess_
  <2>2. CASE Record
    BY <1>1, <1>6, <2>1, <2>2
  <2>3. CASE ~Record
    BY <1>7, <2>1, <2>3
  <2> QED BY <2>2, <2>3
<1>10. TypeOK'
  BY <1>1, <1>2, <1>5, <1>7, <1>9 DEF TypeOK, RowKeeps, Sess_, Rec
<1>11. Session'
  <2>1. sess'.pc = "publishing" => 1 .. sess.total \subseteq sess.done
    BY <1>5 DEF Wanted
  <2> QED BY <1>1, <1>5, <1>7, <2>1 DEF Session, Before
<1>12. Backing'
  <2>1. Written' = Written
    BY <1>2 DEF Written
  <2>2. part.exists /\ (~sess.trusts => sess.done \subseteq Written)
    BY <1>1 DEF Backing, ClaimIsBacked
  <2>3. \A r \in Row : backed'[r] => r \in Used /\ part.exists /\ rows'[r].ranges \subseteq Written
    <3>1. \A r \in Row \ {Rec} : backed'[r] => r \in Used /\ part.exists /\ rows'[r].ranges \subseteq Written
      BY <1>7, <1>9 DEF Backing, ClaimIsBacked, RowKeeps
    <3>2. backed'[Rec] => rows'[Rec].ranges \subseteq Written
      <4>1. CASE Record
        BY <1>7, <1>9, <2>2, <4>1
      <4>2. CASE ~Record
        BY <1>1, <1>7, <4>2 DEF Backing, ClaimIsBacked
      <4> QED BY <4>1, <4>2
    <3> QED BY <1>1, <2>2, <3>1, <3>2
  <2> QED BY <1>2, <1>5, <1>8, <2>1, <2>2, <2>3 DEF Backing, ClaimIsBacked
<1>13. Trust'
  <2> SUFFICES ASSUME Undisturbed'
               PROVE  /\ ~sess'.trusts
                      /\ \A r \in Used : Rewind(rows'[r].ranges) # {} => part'.exists /\ backed'[r]
    BY <1>8 DEF Trust
  <2>1. Undisturbed
    BY <1>2, <1>8 DEF Undisturbed
  <2>2. \A r \in Used : r = Rec
    BY <1>1, <2>1 DEF Undisturbed
  <2>3. ~sess.trusts /\ part.exists
    BY <1>1, <2>1 DEF Trust, Backing
  <2>4. Rewind(rows'[Rec].ranges) # {} => backed'[Rec]
    <3>1. CASE Record
      BY <1>9, <2>3, <3>1
    <3>2. CASE ~Record
      BY <1>1, <1>7, <2>1, <2>3, <3>2 DEF Trust
    <3> QED BY <3>1, <3>2
  <2> QED BY <1>2, <1>5, <2>2, <2>3, <2>4
<1>14. Offers' /\ FilesBacked'
  BY <1>1, <1>2, <1>5, <1>7, <1>8 DEF Offers, FilesBacked, RowKeeps
<1>15. HistoryComplete' /\ Once'
  <2>1. \A r \in Used : rows'[r].swaps = rows[r].swaps /\ rows'[r].links = rows[r].links
    BY <1>7, <1>8 DEF RowKeeps
  <2>2. \A r \in Used : Unwritten(r)' = Unwritten(r) /\ Due(r)' = Due(r)
    BY <1>1, <1>5, <1>7, <1>8 DEF RowKeeps, Due, Unwritten
  <2> QED BY <1>2, <1>8, <2>1, <2>2, CountsKept
<1> QED BY <1>10, <1>11, <1>12, <1>13, <1>14, <1>15

\* The rename pays for exactly one final name.
LEMMA PublishKeeps ==
  ASSUME IInv, Publish
  PROVE  IInv'
<1> USE DEF IInv
<1>1. /\ sess.pc = "publishing" /\ sess'.pc = "renamed" /\ sess' \in Sess_
      /\ Rec' = Rec /\ Rec \in Used /\ Rec \in Row
      /\ sess'.done = sess.done /\ sess'.trusts = sess.trusts /\ sess'.total = sess.total
  BY SessionMoves DEF Publish, At, Goto, Phase
<1>2. UNCHANGED <<server, rows, died, crashes, faults, tampered>> /\ Used' = Used
  BY DEF Publish, table, bounds, Used
<1> DEFINE file == [row |-> Rec, total |-> sess.total, len |-> part.len,
                    data |-> part.data, trusted |-> sess.trusts]
<1>3. PICK n \in Name : published[n] = NoFile /\ published' = [published EXCEPT ![n] = file]
  BY DEF Publish, Dedupe, Rec
<1>4. /\ file \in File_ /\ file.row = Rec /\ file.total = sess.total
      /\ file.data = part.data /\ file.trusted = sess.trusts
  <2>1. sess.total \in 1 .. MaxSize /\ sess.trusts \in BOOLEAN
    <3>1. sess.total \in 0 .. MaxSize /\ sess.total # 0 /\ sess.trusts \in BOOLEAN
      BY <1>1 DEF TypeOK, Session
    <3> QED BY <3>1, LifecycleAssumption
  <2>2. part.len \in 0 .. MaxSize /\ part.data \in Data
    BY DEF TypeOK
  <2> QED BY <1>1, <2>1, <2>2 DEF File_
<1> HIDE DEF file
<1>5. /\ published' \in [Name -> File_ \cup {NoFile}] /\ published'[n] = file
      /\ \A m \in Name \ {n} : published'[m] = published[m]
  BY <1>3, <1>4 DEF TypeOK
<1>6. part' = Missing /\ backed' = [r \in Row |-> FALSE]
  BY DEF Publish
<1>7. TypeOK'
  <2>1. Missing \in [exists : BOOLEAN, len : 0 .. MaxSize, data : Data]
    BY LifecycleAssumption DEF Missing, Blank, Data
  <2> QED BY <1>1, <1>2, <1>5, <1>6, <2>1 DEF TypeOK, Sess_, Rec
<1>8. Session'
  BY <1>1, <1>2, <1>4, <1>5 DEF Session, Before
<1>9. Backing'
  BY <1>1, <1>2, <1>6 DEF Backing, ClaimIsBacked, Used
<1>10. Trust'
  BY <1>1, <1>2, <1>6 DEF Trust, Undisturbed, Missing
<1>11. Offers'
  BY <1>1, <1>2 DEF Offers
<1>12. FilesBacked'
  <2>1. ASSUME ~sess.trusts, NEW b \in 1 .. sess.total
        PROVE  part.data[b] # Hole
    BY <1>1, <2>1 DEF Session, Backing, ClaimIsBacked, Written
  <2> QED BY <1>4, <1>5, <2>1 DEF FilesBacked
<1>13. HistoryComplete'
  <2>1. \A r \in Used : Unwritten(r)' = Unwritten(r)
    BY <1>1 DEF Unwritten
  <2> QED BY <1>2, <2>1 DEF HistoryComplete
<1>14. Once'
  <2>1. published[n].row = 0 /\ Rec # 0 /\ \A r \in Used : r # 0
    BY <1>1, <1>3 DEF NoFile, Row, Used
  <2>2. n \notin FilesOf(Rec) /\ FilesOf(Rec)' = FilesOf(Rec) \cup {n}
    <3>1. published'[n].row = Rec /\ \A m \in Name \ {n} : published'[m].row = published[m].row
      BY <1>4, <1>5
    <3>2. published[n].row # Rec
      BY <2>1
    <3> QED BY <1>1, <3>1, <3>2 DEF FilesOf
  <2>3. Cardinality(FilesOf(Rec)') = Cardinality(FilesOf(Rec)) + 1
    BY <2>2, FilesFinite, FS_AddElement
  <2>4. Cardinality(FilesOf(Rec)') + Due(Rec)' <= 1 + rows'[Rec].swaps + crashes'
    <3>1. Due(Rec) = 1 /\ Due(Rec)' = 0
      BY <1>1, <1>2 DEF Due, Session
    <3>2. Cardinality(FilesOf(Rec)) + 1 <= 1 + rows[Rec].swaps + crashes
      BY <1>1, <3>1 DEF Once
    <3>3. Cardinality(FilesOf(Rec)) \in Nat
      BY FilesFinite
    <3> QED BY <1>2, <2>3, <3>1, <3>2, <3>3
  <2>5. ASSUME NEW r \in Used, r # Rec
        PROVE  Cardinality(FilesOf(r)') + Due(r)' <= 1 + rows'[r].swaps + crashes'
    <3>1. FilesOf(r)' = FilesOf(r)
      BY <1>4, <1>5, <2>1, <2>5 DEF FilesOf
    <3>2. Due(r)' = Due(r)
      BY <1>1, <1>2, <2>5 DEF Due
    <3> QED BY <1>2, <3>1, <3>2 DEF Once
  <2>6. \A m \in Name : published'[m].row = 0 \/ published'[m].row \in Used
    BY <1>1, <1>4, <1>5 DEF Once
  <2> QED BY <1>1, <1>2, <2>4, <2>5, <2>6 DEF Once
<1> QED BY <1>7, <1>8, <1>9, <1>10, <1>11, <1>12, <1>13, <1>14

\* The status a session ends with fits what it left behind.
LEMMA SetStatusKeeps ==
  ASSUME IInv, SetStatus
  PROVE  IInv'
<1> USE DEF IInv
<1> DEFINE status == IF sess.pc = "renamed" THEN "completed" ELSE sess.verdict
<1>1. /\ sess.pc \in {"renamed", "failing"} /\ sess'.pc = "closing" /\ sess' \in Sess_
      /\ Rec' = Rec /\ Rec \in Used /\ Rec \in Row
      /\ sess'.done = sess.done /\ sess'.trusts = sess.trusts /\ sess'.total = sess.total
  BY SessionMoves DEF SetStatus, Goto, Phase
<1>2. UNCHANGED <<server, died, part, backed, published, crashes, faults, tampered>>
  BY DEF SetStatus, disk, bounds
<1>3. status \in Status /\ status \in Offered \cup {"completed"}
      /\ (status = "completed" <=> sess.pc = "renamed")
  BY <1>1 DEF TypeOK, Session, Status, Offered
<1>4. rows' = [rows EXCEPT ![Rec].status = status]
  BY DEF SetStatus, At, Rec
<1> HIDE DEF status
<1>5. /\ RowKeeps(Rec) /\ rows'[Rec].ranges = rows[Rec].ranges
      /\ rows'[Rec].status = status /\ rows'[Rec].links = rows[Rec].links
  BY <1>1, <1>3, <1>4, SetField
<1>6. Used \subseteq Row
  BY DEF Used
<1>7. TypeOK'
  BY <1>1, <1>2, <1>5 DEF TypeOK, RowKeeps, Sess_, Rec
<1>8. Session'
  BY <1>1, <1>3, <1>5 DEF Session, Before
<1>9. Backing'
  BY <1>1, <1>2, <1>5, <1>6 DEF Backing, ClaimIsBacked, Written, RowKeeps
<1>10. Trust'
  <2> SUFFICES ASSUME Undisturbed'
               PROVE  /\ ~sess'.trusts
                      /\ \A r \in Used : Rewind(rows'[r].ranges) # {} =>
                           \/ part.exists /\ backed[r]
                           \/ ~part.exists /\ rows'[r].status = "completed"
    BY <1>2, <1>5 DEF Trust, RowKeeps
  <2>1. Undisturbed
    BY <1>2, <1>5 DEF Undisturbed, RowKeeps
  <2>2. \A r \in Used : r = Rec
    BY <1>1, <2>1 DEF Undisturbed
  <2>3. /\ ~sess.trusts
        /\ Rewind(rows[Rec].ranges) # {} =>
             (part.exists /\ backed[Rec]) \/ (~part.exists /\ sess.pc = "renamed")
    BY <1>1, <2>1 DEF Trust, Session
  <2> QED BY <1>1, <1>3, <1>5, <2>2, <2>3
<1>11. Offers' /\ FilesBacked'
  BY <1>1, <1>2, <1>5, <1>6 DEF Offers, FilesBacked, RowKeeps
<1>12. HistoryComplete' /\ Once'
  <2>1. \A r \in Used : rows'[r].swaps = rows[r].swaps /\ rows'[r].links = rows[r].links
    BY <1>5, <1>6 DEF RowKeeps
  <2>2. \A r \in Used : Unwritten(r)' = Unwritten(r) /\ Due(r)' = Due(r)
    <3>1. \A r \in Used \ {Rec} : Unwritten(r)' = Unwritten(r) /\ Due(r)' = Due(r)
      BY <1>1, <1>5, <1>6 DEF RowKeeps, Due, Unwritten
    <3>2. ASSUME NEW r \in Used, r = Rec
          PROVE  Unwritten(r)' = Unwritten(r) /\ Due(r)' = Due(r)
      <4>1. rows[r].status # "completed" /\ Rec' = r /\ rows'[r].status = status
        BY <1>1, <1>5, <3>2 DEF Session
      <4>2. CASE sess.pc = "renamed"
        BY <1>1, <1>3, <3>2, <4>1, <4>2 DEF Due, Unwritten
      <4>3. CASE sess.pc # "renamed"
        BY <1>1, <1>3, <3>2, <4>1, <4>3 DEF Due, Unwritten
      <4> QED BY <4>2, <4>3
    <3> QED BY <3>1, <3>2
  <2> QED BY <1>2, <1>5, <2>1, <2>2, CountsKept DEF RowKeeps
<1> QED BY <1>7, <1>8, <1>9, <1>10, <1>11, <1>12

\* A session is over: nothing is known of it any more.
LEMMA IdleType == Idle \in Sess_ /\ Idle.pc = "idle" /\ ~Idle.trusts
BY LifecycleAssumption DEF Idle, Sess_, Phase, Ranges

\* The clean flag is set by a session that is over.
LEMMA MarkCleanKeeps ==
  ASSUME IInv, MarkClean
  PROVE  IInv'
<1> USE DEF IInv
<1>1. /\ sess.pc = "closing" /\ sess' = Idle /\ Rec \in Used /\ Rec \in Row
      /\ sess' \in Sess_ /\ sess'.pc = "idle" /\ ~sess'.trusts
  BY IdleType DEF MarkClean, At, TypeOK, Rec, Used
<1>2. UNCHANGED <<server, part, backed, published, crashes, faults, tampered>>
  BY DEF MarkClean, disk, bounds
<1>3. /\ RowKeeps(Rec) /\ rows'[Rec].ranges = rows[Rec].ranges
      /\ rows'[Rec].status = rows[Rec].status /\ rows'[Rec].links = rows[Rec].links
  BY <1>1, SetField DEF MarkClean, Rec
<1>4. died' = [died EXCEPT ![Rec] = FALSE]
  BY DEF MarkClean, Rec
<1>5. Used \subseteq Row /\ died \in [Row -> BOOLEAN]
  BY DEF Used, TypeOK
<1>6. TypeOK'
  BY <1>1, <1>2, <1>3, <1>4, <1>5 DEF TypeOK, RowKeeps, Sess_
<1>7. Session'
  BY <1>1 DEF Session, Before
<1>8. Backing'
  BY <1>1, <1>2, <1>3, <1>5 DEF Backing, ClaimIsBacked, Written, RowKeeps
<1>9. Trust'
  BY <1>1, <1>2, <1>3, <1>5 DEF Trust, Undisturbed, RowKeeps
<1>10. Offers' /\ FilesBacked'
  BY <1>1, <1>2, <1>3, <1>4, <1>5 DEF Offers, FilesBacked, RowKeeps, Session
<1>11. HistoryComplete' /\ Once'
  <2>1. \A r \in Used : rows'[r].swaps = rows[r].swaps /\ rows'[r].links = rows[r].links
    BY <1>3, <1>5 DEF RowKeeps
  <2>2. \A r \in Used : Unwritten(r)' = Unwritten(r) /\ Due(r)' = Due(r)
    BY <1>1, <1>3, <1>5 DEF RowKeeps, Due, Unwritten
  <2> QED BY <1>2, <1>3, <2>1, <2>2, CountsKept DEF RowKeeps
<1> QED BY <1>6, <1>7, <1>8, <1>9, <1>10, <1>11

\* A kill leaves rows and files as they are, and takes the session.
LEMMA CrashKeeps ==
  ASSUME IInv, Crash
  PROVE  IInv'
<1> USE DEF IInv
<1>1. /\ sess.pc # "idle" /\ sess' = Idle /\ Rec \in Used /\ Rec \in Row
      /\ sess' \in Sess_ /\ sess'.pc = "idle" /\ ~sess'.trusts
  BY IdleType DEF Crash, At, TypeOK, Rec, Used
<1>2. UNCHANGED <<server, rows, part, backed, published, faults, tampered>> /\ Used' = Used
  BY DEF Crash, disk, Used
<1>3. /\ crashes \in Nat /\ crashes' = crashes + 1 /\ crashes' \in 0 .. MaxCrashes
      /\ died' = [died EXCEPT ![Rec] = TRUE] /\ died \in [Row -> BOOLEAN]
  BY LifecycleAssumption DEF Crash, TypeOK, Rec
<1>4. TypeOK'
  BY <1>1, <1>2, <1>3 DEF TypeOK, Sess_
<1>5. Session'
  BY <1>1 DEF Session, Before
<1>6. Backing'
  BY <1>1, <1>2 DEF Backing, ClaimIsBacked, Written
<1>7. Trust'
  BY <1>3 DEF Trust, Undisturbed
<1>8. Offers' /\ FilesBacked'
  BY <1>1, <1>2, <1>3 DEF Offers, FilesBacked, Used
<1>9. \A r \in Used : rows[r].swaps \in Nat /\ rows[r].links \in Nat
  BY UsedRows, LifecycleAssumption DEF Record_
<1>10. HistoryComplete'
  <2>1. ASSUME NEW r \in Used
        PROVE  rows[r].links + Unwritten(r)' \in 1 + rows[r].swaps - (crashes + 1) .. 1 + rows[r].swaps
    <3>1. Unwritten(r)' = 0 /\ Unwritten(r) \in {0, 1}
      BY <1>1 DEF Unwritten
    <3>2. rows[r].links + Unwritten(r) \in 1 + rows[r].swaps - crashes .. 1 + rows[r].swaps
      BY DEF HistoryComplete
    <3> QED BY <1>3, <1>9, <3>1, <3>2
  <2> QED BY <1>2, <1>3, <2>1 DEF HistoryComplete
<1>11. Once'
  <2>1. ASSUME NEW r \in Used
        PROVE  Cardinality(FilesOf(r)') + Due(r)' <= 1 + rows'[r].swaps + crashes'
    <3>1. FilesOf(r)' = FilesOf(r) /\ Cardinality(FilesOf(r)) \in Nat
      BY <1>2, FilesFinite DEF FilesOf
    <3>2. Due(r)' \in {0, 1} /\ Due(r) \in {0, 1}
      BY DEF Due
    <3>3. Cardinality(FilesOf(r)) + Due(r) <= 1 + rows[r].swaps + crashes
      BY DEF Once
    <3> QED BY <1>2, <1>3, <1>9, <3>1, <3>2, <3>3
  <2> QED BY <1>2, <2>1 DEF Once
<1> QED BY <1>4, <1>5, <1>6, <1>7, <1>8, <1>10, <1>11

\* What happens around the program: the server's file changes, the part file is
\* deleted or truncated.
LEMMA AroundKeeps ==
  ASSUME IInv, ChangeServer \/ Tamper
  PROVE  IInv'
<1> USE DEF IInv
<1>1. UNCHANGED <<rows, died, published, sess, crashes, faults>> /\ Used' = Used
  BY DEF ChangeServer, Tamper, table, disk, bounds, Used
<1>2. Session'
  BY <1>1 DEF Session, Before, Rec
<1>3. Offers' /\ FilesBacked'
  BY <1>1 DEF Offers, FilesBacked, Rec
<1>4. HistoryComplete' /\ Once'
  <2>1. \A r \in Used : Unwritten(r)' = Unwritten(r) /\ Due(r)' = Due(r)
    BY <1>1 DEF Due, Unwritten, Rec
  <2> QED BY <1>1, <2>1, CountsKept
<1>5. CASE ChangeServer
  <2>1. server' \in Version /\ UNCHANGED <<part, backed, tampered>>
    BY <1>5, LifecycleAssumption DEF ChangeServer, TypeOK, Version, disk, bounds
  <2>2. TypeOK'
    BY <1>1, <2>1 DEF TypeOK
  <2>3. Backing' /\ Trust'
    BY <1>1, <2>1 DEF Backing, ClaimIsBacked, Written, Trust, Undisturbed
  <2> QED BY <1>2, <1>3, <1>4, <2>2, <2>3
<1>6. CASE Tamper
  <2>1. /\ server' = server /\ tampered' = TRUE /\ sess.pc = "idle"
        /\ backed' = [r \in Row |-> FALSE]
    BY <1>6 DEF Tamper, At
  <2>2. part' \in [exists : BOOLEAN, len : 0 .. MaxSize, data : Data]
    <3>1. PICK n \in 0 .. part.len - 1 :
            part' = [exists |-> n > 0, len |-> n,
                     data |-> [b \in Block |-> IF b <= n THEN part.data[b] ELSE Hole]]
      BY <1>6 DEF Tamper
    <3>2. part.len \in 0 .. MaxSize /\ part.data \in [Block -> {Hole} \cup Version]
      BY DEF TypeOK, Data
    <3>3. [b \in Block |-> IF b <= n THEN part.data[b] ELSE Hole] \in Data
      BY <3>2 DEF Data
    <3>4. n \in 0 .. MaxSize /\ (n > 0) \in BOOLEAN
      BY <3>2, LifecycleAssumption
    <3> QED BY <3>1, <3>3, <3>4
  <2>3. TypeOK'
    BY <1>1, <2>1, <2>2 DEF TypeOK
  <2>4. Backing' /\ Trust'
    BY <1>1, <2>1 DEF Backing, ClaimIsBacked, Trust, Undisturbed, Used
  <2> QED BY <1>2, <1>3, <1>4, <2>3, <2>4
<1> QED BY <1>5, <1>6

-----------------------------------------------------------------------------
(***************************************************************************)
(* The theorems.                                                           *)
(***************************************************************************)
LEMMA InitStarts == Init => IInv
<1> SUFFICES ASSUME Init PROVE IInv
  OBVIOUS
<1>1. Used = {} /\ sess.pc = "idle" /\ ~sess.trusts
  BY DEF Init, Used, Idle
<1>2. TypeOK
  <2>1. Missing \in [exists : BOOLEAN, len : 0 .. MaxSize, data : Data]
    BY LifecycleAssumption DEF Missing, Blank, Data
  <2>2. 1 \in Version
    BY LifecycleAssumption DEF Version
  <2>3. sess \in Sess_ /\ sess.pc = "idle"
    BY IdleType DEF Init
  <2>4. /\ rows \in [Row -> Record_ \cup {NoRow}] /\ died \in [Row -> BOOLEAN]
        /\ published \in [Name -> File_ \cup {NoFile}] /\ backed \in [Row -> BOOLEAN]
    <3>1. \A S : NoRow \in S \cup {NoRow} /\ NoFile \in S \cup {NoFile}
      OBVIOUS
    <3> QED BY <3>1 DEF Init
  <2>5. crashes \in 0 .. MaxCrashes /\ faults \in 0 .. MaxFaults /\ tampered \in BOOLEAN
    <3>1. crashes = 0 /\ faults = 0 /\ MaxCrashes \in Nat /\ MaxFaults \in Nat
      BY LifecycleAssumption DEF Init
    <3>2. tampered \in BOOLEAN
      BY DEF Init
    <3> QED BY <3>1, <3>2
  <2> QED BY <2>1, <2>2, <2>3, <2>4, <2>5 DEF Init, TypeOK, Sess_
<1>3. Session /\ Backing /\ Trust /\ Offers
  BY <1>1 DEF Init, Session, Before, Backing, ClaimIsBacked, Trust, Offers
<1>4. FilesBacked /\ HistoryComplete /\ Once
  BY <1>1 DEF Init, FilesBacked, HistoryComplete, Once, NoFile
<1> QED BY <1>2, <1>3, <1>4 DEF IInv

\* Every step keeps every part of the invariant.
LEMMA Kept == IInv /\ [Next]_vars => IInv'
<1> SUFFICES ASSUME IInv, [Next]_vars PROVE IInv'
  OBVIOUS
<1>1. CASE Next
  BY <1>1, CommandKeeps, PushHistoryKeeps, SetActiveKeeps, ProbeKeeps, OpenPartKeeps, GivesUp,
     FetchKeeps, RunningKeeps, PublishKeeps, SetStatusKeeps, MarkCleanKeeps, CrashKeeps, AroundKeeps
     DEF Next, Work, Trouble
<1>2. CASE UNCHANGED vars
  <2>1. /\ UNCHANGED <<server, rows, died, part, backed, published, sess, crashes, faults, tampered>>
        /\ Used' = Used
    BY <1>2 DEF vars, table, disk, bounds, Used
  <2> USE <2>1 DEF IInv
  <2>2. TypeOK'
    BY DEF TypeOK
  <2>3. Session' /\ Offers' /\ FilesBacked'
    BY DEF Session, Before, Rec, Offers, FilesBacked
  <2>4. Backing' /\ Trust'
    BY DEF Backing, ClaimIsBacked, Written, Trust, Undisturbed
  <2>5. HistoryComplete' /\ Once'
    <3>1. \A r \in Used : Unwritten(r)' = Unwritten(r) /\ Due(r)' = Due(r)
      BY DEF Due, Unwritten, Rec
    <3> QED BY <3>1, CountsKept
  <2> QED BY <2>2, <2>3, <2>4, <2>5
<1> QED BY <1>1, <1>2

\* The invariant holds in every state of the program.
LEMMA LifecycleInductive == Spec => []IInv
BY InitStarts, Kept, PTL DEF Spec

\* Every variable keeps its type.
THEOREM LifecycleTypeCorrect == Spec => []TypeOK
BY LifecycleInductive, PTL DEF IInv

\* A claim recorded against the part file that is there is in the file.
THEOREM ClaimsAreBacked == Spec => []ClaimIsBacked
BY LifecycleInductive, PTL DEF IInv, Backing

\* A file with holes takes a command that trusted a claim older than the part
\* file, and that takes a kill, a part file changed by hand or a second download.
THEOREM HolesTakeStaleTrust == Spec => []HolesNeedStaleTrust
<1>1. IInv => HolesNeedStaleTrust
  <2> SUFFICES ASSUME IInv PROVE HolesNeedStaleTrust
    OBVIOUS
  <2>1. ASSUME sess.trusts, ~(crashes > 0), ~tampered
        PROVE  Cardinality(Used) > 1
    <3>1. crashes = 0
      BY <2>1, LifecycleAssumption DEF IInv, TypeOK
    <3>2. PICK q \in Used, r \in Used : q # r
      BY <2>1, <3>1 DEF IInv, Trust, Undisturbed
    <3>3. IsFiniteSet(Used)
      <4>1. IsFiniteSet(Row) /\ Used \subseteq Row
        BY LifecycleAssumption, FS_Interval DEF Row, Used
      <4> QED BY <4>1, FS_Subset
    <3>4. Cardinality({q, r}) = 2
      <4>1. {q, r} = {q} \cup {r} /\ r \notin {q}
        BY <3>2
      <4>2. IsFiniteSet({q}) /\ Cardinality({q}) = 1
        BY FS_Singleton
      <4>3. Cardinality({q} \cup {r}) = Cardinality({q}) + 1
        BY <4>1, <4>2, FS_AddElement
      <4> QED BY <4>1, <4>2, <4>3
    <3>5. {q, r} \subseteq Used
      BY <3>2
    <3>6. Cardinality({q, r}) <= Cardinality(Used) /\ Cardinality(Used) \in Nat
      BY <3>3, <3>5, FS_Subset, FS_CardinalityType
    <3> QED BY <3>4, <3>6
  <2> QED BY <2>1 DEF HolesNeedStaleTrust, IInv, FilesBacked
<1> QED BY <1>1, LifecycleInductive, PTL

\* A download gets one final name, and another one only per link and per kill.
THEOREM FinalNamesArePaidFor == Spec => []PublishedOnce
<1>1. IInv => PublishedOnce
  <2> SUFFICES ASSUME IInv, NEW r \in Used
               PROVE  Cardinality(FilesOf(r)) <= 1 + rows[r].swaps + crashes
    BY DEF PublishedOnce
  <2>1. Cardinality(FilesOf(r)) + Due(r) <= 1 + rows[r].swaps + crashes
    BY DEF IInv, Once
  <2>2. Due(r) \in {0, 1} /\ Cardinality(FilesOf(r)) \in Nat /\ rows[r].swaps \in Nat /\ crashes \in Nat
    BY FilesFinite, UsedRows, LifecycleAssumption DEF Due, IInv, TypeOK, Record_
  <2> QED BY <2>1, <2>2
<1> QED BY <1>1, LifecycleInductive, PTL

\* Only a kill leaves a row that no list offers and that is not complete.
THEOREM OnlyKillsStrand == Spec => []StrandedOnlyByCrash
<1>1. IInv => StrandedOnlyByCrash
  BY DEF IInv, Offers, StrandedOnlyByCrash
<1> QED BY <1>1, LifecycleInductive, PTL

\* After a kill the next command gives the tails of the ranges back.
THEOREM KillIsNoticed == Spec => []CrashIsNoticed
<1>1. IInv => CrashIsNoticed
  BY DEF IInv, Session, Before, Rec, CrashIsNoticed
<1> QED BY <1>1, LifecycleInductive, PTL

\* The history has every link, short of one entry per kill.
THEOREM HistoryIsKept == Spec => []HistoryComplete
BY LifecycleInductive, PTL DEF IInv

-----------------------------------------------------------------------------
(***************************************************************************)
(* The refinement: the final names and the statuses implement the shelf.   *)
(***************************************************************************)
Shelved == [n \in Name |-> published[n].row]
Reported == {r \in Used : rows[r].status = "completed"}

\* The shelf shows what was published and nothing else.
LEMMA SameShelf ==
  ASSUME UNCHANGED published
  PROVE  Shelved' = Shelved
BY DEF Shelved

\* A step that leaves the files alone, and the statuses but for one row's.
LEMMA SameReports ==
  ASSUME Used' = Used,
         \A r \in Used : rows'[r].status = "completed" <=> rows[r].status = "completed"
  PROVE  Reported' = Reported
BY DEF Reported

\* Every step publishes a paid-for name on the shelf, or changes nothing there.
LEMMA StepRefines ==
  ASSUME IInv, Next, IInv'
  PROVE  [ShelfNow!Next]_<<Shelved, Reported>>
<1> USE DEF IInv
<1>1. ASSUME NEW r \in Row, Command(r)
      PROVE  [ShelfNow!Next]_<<Shelved, Reported>>
  <2>1. /\ Began(r) /\ UNCHANGED published
    BY <1>1, GetStarts, ResumeStarts, RefreshStarts DEF Command, Get, Resume, Refresh, disk
  <2>2. Reported' = Reported \ {r}
    BY <2>1 DEF Began, Reported
  <2> QED BY <2>1, <2>2, SameShelf DEF ShelfNow!Next, ShelfNow!Reopen, Shelved, Reported
<1>2. CASE Publish
  <2>1. /\ sess.pc = "publishing" /\ Rec \in Used /\ Rec \in Row
        /\ Used' = Used /\ rows' = rows
    BY <1>2 DEF Publish, At, TypeOK, Rec, Used, table
  <2>2. PICK n \in Name : published[n] = NoFile /\ published'[n].row = Rec
                          /\ \A m \in Name \ {n} : published'[m] = published[m]
    <3>1. \A n \in Name : published \in [Name -> File_ \cup {NoFile}]
      BY DEF TypeOK
    <3> QED BY <1>2, <3>1 DEF Publish, Dedupe, Rec
  <2>3. Shelved[n] = 0 /\ Shelved' = [Shelved EXCEPT ![n] = Rec]
    <3>1. published[n].row = 0
      BY <2>2 DEF NoFile
    <3>2. Shelved \in [Name -> {published[m].row : m \in Name}] /\ DOMAIN Shelved' = Name
      BY DEF Shelved
    <3>3. \A m \in Name : Shelved'[m] = IF m = n THEN Rec ELSE Shelved[m]
      BY <2>2 DEF Shelved
    <3>4. Shelved' = [m \in Name |-> IF m = n THEN Rec ELSE Shelved[m]]
      BY <3>2, <3>3 DEF Shelved
    <3> QED BY <3>1, <3>2, <3>4 DEF Shelved
  <2>4. Rec \notin Reported /\ Reported' = Reported
    BY <2>1 DEF Session, Reported
  <2> QED BY <2>1, <2>2, <2>3, <2>4 DEF ShelfNow!Next, ShelfNow!Put, Shelved, Reported
<1>3. CASE SetStatus
  <2> DEFINE status == IF sess.pc = "renamed" THEN "completed" ELSE sess.verdict
  <2>1. /\ sess.pc \in {"renamed", "failing"} /\ Rec \in Used /\ Rec \in Row
        /\ UNCHANGED published /\ rows' = [rows EXCEPT ![Rec].status = status]
        /\ status \in Status /\ (status = "completed" <=> sess.pc = "renamed")
    BY <1>3 DEF SetStatus, At, Rec, TypeOK, Used, Session, Status, disk
  <2> HIDE DEF status
  <2>2. RowKeeps(Rec) /\ rows'[Rec].status = status
    BY <2>1, SetField
  <2>3. \A r \in Used \ {Rec} : rows'[r].status = rows[r].status
    BY <2>2 DEF RowKeeps, Used
  <2>4. CASE sess.pc = "renamed"
    <3>1. \E n \in Name : Shelved[n] = Rec
      BY <2>4 DEF Session, Shelved
    <3>2. Reported' = Reported \cup {Rec}
      BY <2>1, <2>2, <2>3, <2>4 DEF RowKeeps, Reported
    <3> QED BY <2>1, <3>1, <3>2, SameShelf DEF ShelfNow!Next, ShelfNow!Report, Shelved, Reported
  <2>5. CASE sess.pc # "renamed"
    <3>1. Reported' = Reported
      BY <2>1, <2>2, <2>3, <2>5 DEF RowKeeps, Reported, Session
    <3> QED BY <2>1, <3>1, SameShelf
  <2> QED BY <2>4, <2>5
<1>4. ASSUME \/ PushHistory \/ SetActive \/ MarkClean
             \/ Checkpoint \/ Finish \/ Break \/ Refused
      PROVE  Shelved' = Shelved /\ Reported' = Reported
  <2>1. UNCHANGED published /\ sess.pc # "idle" /\ Rec \in Used
    BY <1>4 DEF PushHistory, SetActive, MarkClean, Checkpoint, Finish, Break, Refused, At, disk,
                TypeOK, Rec, Used
  <2>2. Reported' = Reported
    <3>1. CASE PushHistory
      <4>1. RowKeeps(Rec) /\ rows'[Rec].status = rows[Rec].status
        <5>1. rows[Rec].links <= MaxRefreshes
          <6>1. /\ rows[Rec].links \in Nat /\ rows[Rec].swaps \in 0 .. MaxRefreshes /\ crashes \in Nat
                /\ rows[Rec].links + 1 <= 1 + rows[Rec].swaps
            BY <2>1, <3>1, UsedRows, LifecycleAssumption
               DEF TypeOK, Record_, HistoryComplete, Unwritten, Rec, PushHistory, At
          <6> QED BY <6>1, LifecycleAssumption
        <5> QED BY <2>1, <3>1, <5>1, SetField DEF PushHistory, Rec
      <4> QED BY <4>1, SameReports DEF RowKeeps, Used
    <3>2. CASE SetActive
      <4>1. RowKeeps(Rec) /\ rows'[Rec].status = "active" /\ rows[Rec].status # "completed"
        BY <2>1, <3>2, SetField DEF SetActive, Rec, Status, Session, At
      <4> QED BY <4>1, SameReports DEF RowKeeps, Used
    <3>3. CASE MarkClean
      <4>1. RowKeeps(Rec) /\ rows'[Rec].status = rows[Rec].status
        BY <2>1, <3>3, SetField DEF MarkClean, Rec
      <4> QED BY <4>1, SameReports DEF RowKeeps, Used
    <3>4. CASE (Checkpoint \/ Finish \/ Break \/ Refused) /\ Record
      <4>1. sess.done \in Ranges
        BY DEF TypeOK
      <4>2. RowKeeps(Rec) /\ rows'[Rec].status = rows[Rec].status
        BY <2>1, <3>4, <4>1, SetField DEF Record, Rec
      <4> QED BY <4>2, SameReports DEF RowKeeps, Used
    <3>5. CASE UNCHANGED rows
      BY <3>5 DEF Reported, Used
    <3> QED BY <1>4, <3>1, <3>2, <3>3, <3>4, <3>5 DEF Checkpoint, Finish, Break, Refused
  <2> QED BY <2>1, <2>2, SameShelf
<1>5. ASSUME \/ Probe \/ OpenPart \/ (\E b \in Block : Fetch(b)) \/ StartFails \/ PublishFails
             \/ Crash \/ ChangeServer \/ Tamper
      PROVE  Shelved' = Shelved /\ Reported' = Reported
  <2>1. UNCHANGED <<rows, published>>
    BY <1>5 DEF Probe, OpenPart, Fetch, StartFails, PublishFails, Crash, ChangeServer, Tamper, table, disk
  <2> QED BY <2>1, SameShelf DEF Reported, Used
<1> QED BY <1>1, <1>2, <1>3, <1>4, <1>5 DEF Next, Work, Trouble

\* The part file, the rename, the row and the kills between them implement the
\* promise of Shelf.tla.
THEOREM LifecycleImplementsShelf == Spec => ImplementsShelf
<1>1. Init => ShelfNow!Init
  BY DEF Init, ShelfNow!Init, NoFile, NoRow, Used
<1>2. IInv /\ IInv' /\ [Next]_vars => [ShelfNow!Next]_<<Shelved, Reported>>
  <2>1. CASE UNCHANGED vars
    <3>1. UNCHANGED <<rows, published>>
      BY <2>1 DEF vars, table, disk
    <3> QED BY <3>1, SameShelf DEF Reported, Used
  <2> QED BY <2>1, StepRefines
<1>3. IInv /\ IInv' /\ [Next]_vars => [ShelfNow!Next]_ShelfNow!vars
  BY <1>2 DEF ShelfNow!vars, Shelved, Reported
<1> QED BY <1>1, <1>3, LifecycleInductive, PTL DEF Spec, ImplementsShelf, ShelfNow!Spec

=============================================================================
