----------------------------- MODULE MediaCard ------------------------------
(***************************************************************************)
(* Photos and clips on the pendant's card, from the capture to the phone.  *)
(* The snapshot worker and the video task write a file and then append its *)
(* line to the manifest; in a transfer window a phone reads the manifest,  *)
(* fetches files, and posts the ones it has, which the HTTP task deletes   *)
(* before it rewrites the manifest without them.  Nothing locks the        *)
(* manifest.  The phone's side is not in the repository: it is taken to    *)
(* post only what it has fetched.                                          *)
(*                                                                         *)
(* A file is a number, never used twice (its name holds the boot id); a    *)
(* manifest line is its file.  An append becomes visible when the file is  *)
(* closed, a rewrite when the file is opened for writing.                  *)
(***************************************************************************)
EXTENDS Integers, Sequences, FiniteSets, SequencesExt, Filtering

CONSTANTS
    MaxFiles,    \* bound: files captured
    Cap,         \* manifest lines that fit MANIFEST_BUF_CAP
    MaxNames,    \* CONSUMED_MAX_NAMES
    MaxCrashes   \* bound

ASSUME MediaAssumption ==
    /\ MaxFiles \in Nat
    /\ Cap \in Nat \ {0}
    /\ MaxNames \in Nat \ {0}
    /\ MaxCrashes \in Nat

Files == 1 .. MaxFiles

Writers == {"snapshot", "video"}

NoFile == 0

VARIABLES
    manifest,    \* the lines of SD_MANIFEST
    card,        \* whole files on the card
    writing,     \* the file a writer has written and not listed yet
    captured,    \* how many files were begun
    http,        \* the step of consumed_handler(), "idle" outside it
    names,       \* the names posted, those not yet deleted in "delete"
    buffer,      \* the lines it rewrites the manifest with
    noticed,     \* the lines of the manifest the phone read last
    fetched,     \* files the phone has
    crashes,
    \* history
    excused      \* files whose line is lost for a reason named below

mediaVars == <<manifest, card, writing, captured, http, names, buffer, noticed,
               fetched, crashes, excused>>

phoneVars == <<noticed, fetched>>
httpVars == <<http, names, buffer>>

Lines(s) == ToSet(s)

\* Mutation: the last line that fits is cut off.
WholeShort(s) == SubSeq(s, 1, IF Len(s) < Cap THEN Len(s) ELSE Cap - 1)

Whole(s) == SubSeq(s, 1, IF Len(s) <= Cap THEN Len(s) ELSE Cap)

NoNames == [all |-> {}, left |-> {}]

\* The handler answers: its locals are gone.
Answers == http' = "idle" /\ names' = NoNames /\ buffer' = <<>>

\* The handler holds lines it is going to write back.
Rewriting == http \in {"truncate", "fill"}

-----------------------------------------------------------------------------
\* Mutation: a file is listed even if writing it failed.
StoredAnyway(wr, f) ==
    /\ writing' = [writing EXCEPT ![wr] = f]
    /\ card' \in {card, card \cup {f}}

\* sd_store_write() or the end of a clip: only a whole file is going to be listed.
Stored(wr, f) ==
    \/ /\ writing' = [writing EXCEPT ![wr] = f]
       /\ card' = card \cup {f}
    \/ UNCHANGED <<writing, card>>

Capture(wr) ==
    /\ writing[wr] = NoFile
    /\ captured < MaxFiles
    /\ captured' = captured + 1
    /\ Stored(wr, captured')
    /\ UNCHANGED <<manifest, httpVars, phoneVars, crashes, excused>>

\* sd_store_append() of the line.  One that comes between the handler's read of the
\* manifest and its rewrite is overwritten.
AppendLine(wr) ==
    /\ writing[wr] # NoFile
    /\ manifest' = Append(manifest, writing[wr])
    /\ excused' = IF Rewriting THEN excused \cup {writing[wr]} ELSE excused
    /\ writing' = [writing EXCEPT ![wr] = NoFile]
    /\ UNCHANGED <<card, captured, httpVars, phoneVars, crashes>>

\* It fails, and no later capture appends this line again.
AppendFails(wr) ==
    /\ writing[wr] # NoFile
    /\ excused' = excused \cup {writing[wr]}
    /\ writing' = [writing EXCEPT ![wr] = NoFile]
    /\ UNCHANGED <<manifest, card, captured, httpVars, phoneVars, crashes>>

-----------------------------------------------------------------------------
\* GET /manifest: as much as the buffer holds.
GetManifest ==
    /\ http = "idle"
    /\ noticed' = Lines(Whole(manifest))
    /\ UNCHANGED <<manifest, card, writing, captured, httpVars, fetched, crashes, excused>>

\* GET /item/<name>, streamed to the end; 404 if the file is gone.
GetItem(f) ==
    /\ http = "idle"
    /\ f \in noticed \cap card
    /\ fetched' = fetched \cup {f}
    /\ UNCHANGED <<manifest, card, writing, captured, httpVars, noticed, crashes, excused>>

\* POST /consumed: more names than the array holds are refused as a whole.
PostConsumed(posted) ==
    /\ http = "idle"
    /\ posted \subseteq fetched
    /\ posted # {}
    /\ Cardinality(posted) <= MaxNames
    /\ http' = "delete"
    /\ names' = [all |-> posted, left |-> posted]
    /\ UNCHANGED <<manifest, card, writing, captured, buffer, phoneVars, crashes, excused>>

\* sd_store_delete(), best effort.
DeleteOne(f) ==
    /\ http = "delete"
    /\ f \in names.left
    /\ names' = [names EXCEPT !.left = @ \ {f}]
    /\ card' \in {card, card \ {f}}
    /\ UNCHANGED <<manifest, writing, captured, http, buffer, phoneVars, crashes, excused>>

\* Mutation: a manifest that does not fit the buffer is rewritten all the same.
NeverTruncated(atLineEnd) == FALSE

\* The buffer is full and does not end in a newline.
Truncated(atLineEnd) == Len(manifest) > Cap /\ ~atLineEnd

\* Reads the manifest and filters it.  A manifest that goes on past the buffer is left
\* alone, unless the buffer happens to end with a line: then nothing tells.
ReadManifest(atLineEnd) ==
    /\ http = "delete" /\ names.left = {}
    /\ IF Truncated(atLineEnd)
       THEN Answers
       ELSE /\ http' = "truncate"
            /\ buffer' = Filter(Whole(manifest), Lines(manifest) \ names.all)
            /\ UNCHANGED names
    /\ excused' = IF atLineEnd THEN excused \cup (Lines(manifest) \ Lines(Whole(manifest)))
                             ELSE excused
    /\ UNCHANGED <<manifest, card, writing, captured, phoneVars, crashes>>

\* fopen(SD_MANIFEST, "wb")
Truncate ==
    /\ http = "truncate"
    /\ manifest' = <<>>
    /\ http' = "fill"
    /\ UNCHANGED <<card, writing, captured, names, buffer, phoneVars, crashes, excused>>

\* It fails: the handler answers 500.
CannotTruncate ==
    /\ http = "truncate"
    /\ Answers
    /\ UNCHANGED <<manifest, card, writing, captured, phoneVars, crashes, excused>>

\* The rewrite, whole or cut short by a full card.
Fill(n) ==
    /\ http = "fill"
    /\ manifest' = SubSeq(buffer, 1, n)
    /\ excused' = excused \cup Lines(SubSeq(buffer, n + 1, Len(buffer)))
    /\ Answers
    /\ UNCHANGED <<card, writing, captured, phoneVars, crashes>>

\* The pendant loses power: what the tasks were about to write is lost.
Crash ==
    /\ crashes < MaxCrashes
    /\ crashes' = crashes + 1
    /\ excused' = excused \cup {writing[wr] : wr \in Writers} \cup
                  (IF http = "fill" THEN Lines(buffer) ELSE {})
    /\ writing' = [wr \in Writers |-> NoFile]
    /\ Answers
    /\ UNCHANGED <<manifest, card, captured, phoneVars>>

-----------------------------------------------------------------------------
MediaInit ==
    /\ manifest = <<>>
    /\ card = {}
    /\ writing = [wr \in Writers |-> NoFile]
    /\ captured = 0
    /\ http = "idle"
    /\ names = NoNames
    /\ buffer = <<>>
    /\ noticed = {}
    /\ fetched = {}
    /\ crashes = 0
    /\ excused = {}

WriterStep(wr) == AppendLine(wr) \/ AppendFails(wr)

HandlerStep ==
    \/ \E f \in Files : DeleteOne(f)
    \/ \E atLineEnd \in BOOLEAN : ReadManifest(atLineEnd)
    \/ Truncate \/ CannotTruncate
    \/ \E n \in 0 .. Len(buffer) : Fill(n)

MediaNext ==
    \/ \E wr \in Writers : WriterStep(wr) \/ Capture(wr)
    \/ GetManifest
    \/ \E f \in Files : GetItem(f)
    \/ \E posted \in SUBSET fetched : PostConsumed(posted)
    \/ HandlerStep
    \/ Crash

MediaSpec == MediaInit /\ [][MediaNext]_mediaVars

-----------------------------------------------------------------------------
\* The card, the tasks on it and the phone.
MediaTypeOK ==
    /\ manifest \in Seq(Files)
    /\ card \subseteq Files
    /\ writing \in [Writers -> Files \cup {NoFile}]
    /\ captured \in 0 .. MaxFiles
    /\ http \in {"idle", "delete", "truncate", "fill"}
    /\ names \in [all : SUBSET Files, left : SUBSET Files]
    /\ buffer \in Seq(Files)
    /\ noticed \subseteq Files
    /\ fetched \subseteq Files
    /\ crashes \in 0 .. MaxCrashes
    /\ excused \subseteq Files \cup {NoFile}

\* A manifest line names a whole file, or one the phone already has: power lost
\* between deleting a file and trimming its line leaves no line the phone needs.
ListedIsWhole == \A f \in Lines(manifest) : f \in card \/ f \in fetched

\* A photo on the card that the phone does not have is on the manifest, about to be, or
\* in the rewrite.  It is not only if its append failed or fell into a rewrite, if the
\* rewrite was cut short by a crash or a full card, or if the 8 KB end with a line.
UnfetchedListed ==
    \A f \in card \ (fetched \cup excused) :
        \/ f \in Lines(IF http = "fill" THEN buffer ELSE manifest)
        \/ \E wr \in Writers : writing[wr] = f

\* Every listed file gets to the phone.
EveryListedFetched ==
    \A f \in Files : f \in Lines(manifest) ~> f \in fetched \cup excused

\* It does while the manifest fits the buffer, whatever fails in between.
FetchedWhileItFits == [](Len(manifest) <= Cap) => EveryListedFetched
=============================================================================
