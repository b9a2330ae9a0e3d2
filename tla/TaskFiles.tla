------------------------------ MODULE TaskFiles ------------------------------
(***************************************************************************)
(* The files of one Task and the pods that read and write them: the split, *)
(* count, encode, merge and cleanup commands (src/pkg/countcmd,            *)
(* src/pkg/cleanupcmd, and ffmpeg with the arguments that                  *)
(* src/pkg/operator/taskcontroller gives it).  The operator that starts    *)
(* the pods is TaskProgress, which TaskOperator implements: a pod runs in  *)
(* the phases in which its Job can exist, and its end lets the operator    *)
(* record what TaskProgress allows.                                        *)
(***************************************************************************)
EXTENDS TaskProgress, Sequences

CONSTANTS
    Width,         \* the digits of the longest index in the name of a segment
    FailingPods,   \* the types of the pods that may fail
    MaxRepeats,    \* bound: completions the operator records a second time
    MaxIgnored     \* bound: removals of a file that fail and are ignored

\* That powers of ten are positive is stated because no prover here knows it.
ASSUME FilesAssumption ==
    /\ MaxSlices \in Nat \ {0}
    /\ Width \in Nat \ {0} /\ MaxSlices <= 10 ^ Width
    /\ \A k \in 0 .. Width : 10 ^ k \in Nat \ {0}
    /\ MaxRepeats \in Nat
    /\ MaxIgnored \in Nat

VARIABLES
    parts,      \* the number of segments ffmpeg cuts the media into
    source,     \* the source file exists
    files,      \* the Task's files in the intermediate volume
    found,      \* commandContext.segmentFiles of the count command
    listed,     \* the file list in the ConfigMap
    ran,        \* the slices whose pod has completed
    target,     \* the files that are concatenated in the target file
    doomed,     \* commandContext.intermediaryFiles the cleanup has yet to remove
    cleaning,   \* how far the cleanup command is
    ignored,    \* removals that failed
    failed      \* the pods that failed

volumes == <<parts, source, files, target>>
commands == <<found, listed, ran, doomed, cleaning, ignored>>
filesVars == <<progressVars, volumes, commands, failed>>

Indexes == 0 .. (MaxSlices - 1)

\* <Task>_<index>.<ext> is a segment, <Task>_<index>_done.<ext> its encoding.
Segment(i) == <<i, "segment">>
Encoding(i) == <<i, "done">>
AllFiles == Indexes \X {"segment", "done"}

Split == <<"split", 0>>
Count == <<"count", 0>>
Merge == <<"merge", 0>>
Cleanup == <<"cleanup", 0>>
Slice(i) == <<"slice", i>>
Pods == {Split, Count, Merge, Cleanup} \cup {Slice(i) : i \in Indexes}
-----------------------------------------------------------------------------
(* Split: ffmpeg writes the segments one after the other, counting from 0. *)

\* Mutant: the segments are numbered from 1.
CutSegmentFromOne ==
    /\ phase = "new"
    /\ Split \notin failed
    /\ source
    /\ Cardinality(files) < parts
    /\ files' = files \cup {Segment(Cardinality(files) + 1)}
    /\ UNCHANGED <<progressVars, parts, source, target, commands, failed>>

CutSegment ==
    /\ phase = "new"
    /\ Split \notin failed
    /\ source
    /\ Cardinality(files) < parts
    /\ files' = files \cup {Segment(Cardinality(files))}
    /\ UNCHANGED <<progressVars, parts, source, target, commands, failed>>

SplitCompletes ==
    /\ Split \notin failed
    /\ Cardinality(files) = parts
    /\ SplitUp
    /\ UNCHANGED <<volumes, commands, failed>>
-----------------------------------------------------------------------------
(* Count.                                                                  *)

MatchesTaskSegment(file) == file[2] # "done"

Digits(i) == Cardinality({k \in 1 .. (Width - 1) : 10 ^ k <= i}) + 1

Padded(i) == i * 10 ^ (Width - Digits(i))

\* sort.Strings orders names, not indexes: "10." comes before "2.", digit by
\* digit, and "1." before "10.", since the dot comes before any digit.
NameBefore(i, j) == Padded(i) < Padded(j) \/ (Padded(i) = Padded(j) /\ i < j)

\* The files of S by name; every segment has an index of its own.
Sorted(S) ==
    [k \in 1 .. Cardinality(S) |->
        CHOOSE f \in S : Cardinality({g \in S : NameBefore(g[1], f[1])}) = k - 1]

\* Without a segment the command ends with an error.
ScanSegmentFiles ==
    /\ phase = "split"
    /\ Count \notin failed
    /\ found = <<>>
    /\ LET matching == {f \in files : MatchesTaskSegment(f)} IN
         /\ matching # {}
         /\ found' = Sorted(matching)
    /\ UNCHANGED <<progressVars, volumes, listed, ran, doomed, cleaning, ignored, failed>>

EnsureConfigMap ==
    /\ Count \notin failed
    /\ found # <<>>
    /\ listed = <<>>
    /\ listed' = found
    /\ UNCHANGED <<progressVars, volumes, found, ran, doomed, cleaning, ignored, failed>>

UpdateTask ==
    /\ Count \notin failed
    /\ listed # <<>>
    /\ Plan
    /\ planned' = Len(found)
    /\ UNCHANGED <<volumes, commands, failed>>
-----------------------------------------------------------------------------
(* Slices.                                                                 *)

\* The operator books a slice; its Job may be there before the booking is.
BookSlice == Schedule /\ UNCHANGED <<volumes, commands, failed>>

HasJob(i) ==
    /\ phase \notin {"new", "split"}
    /\ i \in running \cup done \/ (IsNext(i) /\ HasSlot /\ i < planned)

EncodeSlice(i) ==
    /\ HasJob(i)
    /\ i \notin ran
    /\ Slice(i) \notin failed
    /\ Segment(i) \in files
    /\ ran' = ran \cup {i}
    /\ files' = files \cup {Encoding(i)}
    /\ UNCHANGED <<progressVars, parts, source, target, found, listed, doomed, cleaning,
                   ignored, failed>>

\* The operator records the completion, and may record it again.
RecordSlice(i) ==
    /\ i \in ran
    /\ i \in done => records - Cardinality(done) < MaxRepeats
    /\ Finish(i)
    /\ UNCHANGED <<volumes, commands, failed>>
-----------------------------------------------------------------------------
(* Merge: ffmpeg concatenates the files of the list.                       *)

ConcatNext ==
    /\ phase = "encoded"
    /\ Merge \notin failed
    /\ Len(target) < Len(listed)
    /\ listed[Len(target) + 1] \in files
    /\ target' = Append(target, listed[Len(target) + 1])
    /\ UNCHANGED <<progressVars, parts, source, files, commands, failed>>

MergeCompletes ==
    /\ Merge \notin failed
    /\ listed # <<>>
    /\ Len(target) = Len(listed)
    /\ JoinUp
    /\ UNCHANGED <<volumes, commands, failed>>
-----------------------------------------------------------------------------
(* Cleanup.                                                                *)

\* Mutant: the cleanup starts with the merge instead of after it.
ListIntermediaryFilesEarly ==
    /\ phase \in {"encoded", "merged"}
    /\ cleaning = "none"
    /\ cleaning' = "files"
    /\ doomed' = files
    /\ UNCHANGED <<progressVars, volumes, found, listed, ran, ignored, failed>>

\* Mutant: the pattern of the count is used, which leaves the encodings out.
ListSegmentsOnly ==
    /\ phase = "merged"
    /\ Cleanup \notin failed
    /\ cleaning = "none"
    /\ cleaning' = "files"
    /\ doomed' = {f \in files : MatchesTaskSegment(f)}
    /\ UNCHANGED <<progressVars, volumes, found, listed, ran, ignored, failed>>

\* filepath.Glob with the Task's id, whatever follows it.
ListIntermediaryFiles ==
    /\ phase = "merged"
    /\ Cleanup \notin failed
    /\ cleaning = "none"
    /\ cleaning' = "files"
    /\ doomed' = files
    /\ UNCHANGED <<progressVars, volumes, found, listed, ran, ignored, failed>>

\* A removal that fails is logged and the next file is removed.
DeleteFile(file) ==
    /\ cleaning = "files"
    /\ Cleanup \notin failed
    /\ file \in doomed
    /\ doomed' = doomed \ {file}
    /\ \/ files' = files \ {file} /\ UNCHANGED ignored
       \/ ignored < MaxIgnored /\ ignored' = ignored + 1 /\ UNCHANGED files
    /\ UNCHANGED <<progressVars, parts, source, target, found, listed, ran, cleaning, failed>>

DeleteSourceFile ==
    /\ cleaning = "files"
    /\ Cleanup \notin failed
    /\ doomed = {}
    /\ cleaning' = "source"
    /\ source' = FALSE
    /\ UNCHANGED <<progressVars, parts, files, target, found, listed, ran, doomed, ignored, failed>>

CleanupCompletes ==
    /\ cleaning = "source"
    /\ CleanUp
    /\ UNCHANGED <<volumes, commands, failed>>
-----------------------------------------------------------------------------
\* A pod fails between two of its steps, and nothing starts it again
\* (RestartPolicy Never, BackoffLimit 0).
PodFails ==
    /\ \E pod \in Pods : pod[1] \in FailingPods /\ failed' = failed \cup {pod}
    /\ UNCHANGED <<progressVars, volumes, commands>>

FilesInit ==
    /\ Begin
    /\ parts \in 1 .. MaxSlices
    /\ source = TRUE
    /\ files = {} /\ found = <<>> /\ listed = <<>> /\ ran = {} /\ target = <<>>
    /\ doomed = {} /\ cleaning = "none" /\ ignored = 0
    /\ failed = {}

FilesNext ==
    \/ CutSegment \/ SplitCompletes
    \/ ScanSegmentFiles \/ EnsureConfigMap \/ UpdateTask
    \/ BookSlice
    \/ \E i \in Indexes : EncodeSlice(i) \/ RecordSlice(i)
    \/ ConcatNext \/ MergeCompletes
    \/ ListIntermediaryFiles \/ DeleteSourceFile \/ CleanupCompletes
    \/ \E file \in AllFiles : DeleteFile(file)
    \/ PodFails

FilesSpec == FilesInit /\ [][FilesNext]_filesVars
-----------------------------------------------------------------------------
(* Properties.                                                             *)

FilesTypeOK ==
    /\ phase \in Phases
    /\ planned \in 0 .. MaxSlices
    /\ parts \in 1 .. MaxSlices
    /\ source \in BOOLEAN
    /\ files \subseteq AllFiles /\ doomed \subseteq AllFiles
    /\ \A list \in {found, listed, target} : list \in Seq(AllFiles)
    /\ ran \subseteq Indexes
    /\ cleaning \in {"none", "files", "source"}
    /\ ignored \in Nat
    /\ failed \subseteq Pods

\* The operator recorded no completion twice (see TaskOperator for how it may).
RecordedOnce == records = Cardinality(done)

\* The source file is only removed when the target file holds every part of
\* the media (deleteSourceFile), be it that pods fail, files cannot be removed
\* or completions are recorded twice.
SourceRemovedAfterMerge ==
    ~ source => {target[k][1] : k \in 1 .. Len(target)} = 0 .. (parts - 1)

\* Every planned slice that has not been encoded finds its segment, and every
\* segment is planned: the count and the operator's indexes agree although the
\* one counts files and the other numbers from 0 (scanSegmentFiles,
\* getSourceSegmentFileNameIndexPath).
SlicesHaveInput ==
    phase \notin {"new", "split"} /\ RecordedOnce =>
        /\ planned = parts
        /\ \A i \in 0 .. (planned - 1) : i \in ran \/ Segment(i) \in files

\* A Task that is Ready leaves no file in the intermediate volume, unless a
\* removal failed or a completion was recorded twice, so that a slice was still
\* encoded when the cleanup listed the files (listIntermediaryFiles).
NothingLeftBehind ==
    phase = "ready" /\ ignored = 0 /\ RecordedOnce => files = {}

\* The parts are merged in the order they have in the media.
InOrder == \A k \in 1 .. Len(target) : target[k][1] = k - 1

\* What is merged are the chunks after their conversion.
Converted == \A k \in 1 .. Len(target) : target[k] = Encoding(target[k][1])

\* how-it-works.adoc:8 promises both at once: "After all chunks are converted,
\* they are merged together again".  This asks for one of them only, so that a
\* behaviour that violates it breaks both: the count lists the segments before
\* there are encodings, and sorts them by name.
MergedTogetherAgain == Converted \/ InOrder
-----------------------------------------------------------------------------
(* The invariant that the properties follow from.                          *)

Segments(n) == {Segment(i) : i \in 0 .. (n - 1)}

\* The split numbers without a gap and cuts all before it completes.
CutInOrder ==
    /\ phase = "new" => \E n \in 0 .. parts : files = Segments(n)
    /\ phase = "split" => files = Segments(parts)

\* The list is that of all segments, and it is there before the plan is.
ListedAll ==
    /\ found # <<>> => phase # "new" /\ found = Sorted(Segments(parts))
    /\ listed # <<>> => listed = found
    /\ phase \notin {"new", "split"} => listed # <<>> /\ planned = parts

\* Slices are started within the plan, completed before they are recorded, and
\* recorded before the next phase.
SlicesFollowPlan ==
    /\ done \subseteq ran /\ records \in Nat
    /\ phase \in {"new", "split"} => ran = {} /\ running = {} /\ records = 0
    /\ running \cup ran \subseteq 0 .. (planned - 1)
    /\ Cardinality(done) <= records
    /\ phase \in {"encoded", "merged", "ready"} => planned <= records

\* The target file is the list as far as it is merged.
MergedAsListed ==
    /\ Len(target) <= Len(listed)
    /\ \A k \in 1 .. Len(target) : target[k] = listed[k]
    /\ phase \in {"merged", "ready"} => Len(target) = Len(listed)

\* Nothing is removed before the merge, and the source is removed last.
CleanupLast ==
    /\ cleaning # "none" => phase \in {"merged", "ready"}
    /\ phase = "ready" => cleaning = "source"
    /\ ~ source => cleaning = "source"
    /\ cleaning # "files" => doomed = {}

\* The segments stay until the cleanup, which knows of every file then.
FilesAccounted ==
    /\ phase \notin {"new", "split"} /\ cleaning = "none" => Segments(parts) \subseteq files
    /\ cleaning # "none" /\ ignored = 0 /\ RecordedOnce => files \subseteq doomed

\* The inductive strengthening of SourceRemovedAfterMerge, SlicesHaveInput and
\* NothingLeftBehind.
FilesInv ==
    /\ FilesTypeOK
    /\ CutInOrder /\ ListedAll /\ SlicesFollowPlan
    /\ MergedAsListed /\ CleanupLast /\ FilesAccounted
=============================================================================
